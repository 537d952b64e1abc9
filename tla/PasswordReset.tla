--------------------------- MODULE PasswordReset ---------------------------
(***************************************************************************)
(* Resetting a password: reset-password-send-email and                     *)
(* reset-password-confirm, the reset_password table and the mails emitted. *)
(*                                                                         *)
(* A request runs in steps, one per database round trip; other requests,   *)
(* changes of the user it has read and the clock come between them.  The   *)
(* user is part of the reset document and the relation cascades: saving    *)
(* the reset also writes every column in which the user's row has come to  *)
(* differ from the document.                                               *)
(***************************************************************************)
EXTENDS Naturals, Sequences

CONSTANTS
  User, Profile,         \* users by id; what the columns of a user may hold
  Caller,                \* requests in flight at the same time, at most
  RowLife,               \* findByIdUserId looks back 30 minutes
  TokenLife,             \* TOKEN_EXPIRATION
  Latency,               \* a token signed is saved before this much time is over
  MaxTime, MaxRequests,  \* bounds on the clock and on the requests
  NoUser

UserRow == [row : {"live", "deleted"}, profile : Profile]
ASSUME ConstantsAssumption ==
  /\ NoUser \notin User /\ Profile # {}
  /\ RowLife \in Nat /\ TokenLife \in Nat /\ Latency \in Nat
  /\ MaxTime \in Nat /\ MaxRequests \in Nat
(* The assumption under which a row never outlives its token; .env gives   *)
(* an hour to the token.                                                   *)
ASSUME LifeAssumption == RowLife + Latency <= TokenLife

VARIABLES
  now,            \* the clock of the process and of the database
  synchronized,   \* the schema was built by TypeORM (IS_LOCAL), not by migrations
  users,          \* table users
  roleless,       \* users whose account has no live role
  resets,         \* table reset_password, in the order of insertion
  req,            \* the requests in flight and the documents they hold
  requests,       \* how many requests have started
  mails           \* the reset mails emitted

vars == <<now, synchronized, users, roleless, resets, req, requests, mails>>
Tables == <<users, roleless, resets>>

----------------------------------------------------------------------------
Step == {"idle", "email", "row", "entity", "load", "commit", "mail",
         "verify", "user", "confirmed-row"}
Answer == {"none", "201", "400", "401", "404", "500"}

NoDocument == [profile |-> CHOOSE p \in Profile : TRUE, role |-> FALSE, signed |-> 0, exp |-> 0,
               sought |-> 0, columns |-> {}]
(* sought and stale are history: how many rows there were when the request *)
(* looked for one; its user has changed since it was read.                 *)
Idle == [step |-> "idle", answer |-> "none", user |-> NoUser, document |-> NoDocument,
         stale |-> FALSE]

Busy(c) == req[c].step # "idle"
Goto(c, step) == req' = [req EXCEPT ![c].step = step]
Respond(c, code) == req' = [req EXCEPT ![c] = [Idle EXCEPT !.answer = code]]
HasRead(c, u) == req[c].user = u /\ req[c].step \in {"row", "entity", "load", "commit"}
Unchanged == UNCHANGED <<now, synchronized, Tables, requests, mails>>

Begin(c, q) ==
  /\ ~Busy(c)
  /\ requests < MaxRequests
  /\ req' = [req EXCEPT ![c] = q]
  /\ requests' = requests + 1
  /\ UNCHANGED <<now, synchronized, Tables, mails>>

(* Fault: a row counts for as long again.                                  *)
FreshTwiceAsLong(r) == now < r.created + 2 * RowLife

(* createdAt: MoreThan(now - 30 min).                                      *)
Fresh(r) == now < r.created + RowLife

(* Fault: the comparison is turned round.                                  *)
StaleRowsOf(u) == {i \in DOMAIN resets : resets[i].user = u /\ ~Fresh(resets[i])}

FreshRowsOf(u) == {i \in DOMAIN resets : resets[i].user = u /\ Fresh(resets[i])}
Accepted(exp) == now < exp

----------------------------------------------------------------------------
(* reset-password-send-email.                                              *)

StartSendEmail(c) == \E u \in User : Begin(c, [Idle EXCEPT !.step = "email", !.user = u])

FindUserByEmail(c) ==
  LET u == req[c].user IN
  /\ req[c].step = "email"
  /\ IF users[u].row = "deleted"
       THEN Respond(c, "404")
       ELSE req' = [req EXCEPT ![c].step = "row", ![c].document.profile = users[u].profile,
                               ![c].document.role = u \notin roleless]
  /\ Unchanged

(* findOne takes any of several.                                           *)
FindReset(c) ==
  LET fresh == FreshRowsOf(req[c].user) IN
  /\ req[c].step = "row"
  /\ \/ \E i \in fresh :
          req' = [req EXCEPT ![c] = [Idle EXCEPT !.step = "mail", !.user = req[c].user,
                                                 !.document.exp = resets[i].exp]]
     \/ /\ fresh = {}
        /\ req' = [req EXCEPT ![c].step = "entity", ![c].document.sought = Len(resets)]
  /\ Unchanged

(* Fault: the token is signed for as long as the row counts.               *)
SignAsLongAsRow(c) ==
  /\ req[c].step = "entity" /\ req[c].document.role
  /\ req' = [req EXCEPT ![c].step = "load", ![c].document.signed = now,
                          ![c].document.exp = now + RowLife]
  /\ Unchanged

(* ResetPasswordEntity holds the user as read, and the schema of its       *)
(* account asks for a role.                                                *)
SignAndBuild(c) ==
  /\ req[c].step = "entity"
  /\ IF req[c].document.role
       THEN req' = [req EXCEPT ![c].step = "load", ![c].document.signed = now,
                               ![c].document.exp = now + TokenLife]
       ELSE Respond(c, "400")
  /\ Unchanged

(* The columns in which the user's row differs from the document.          *)
Changed(u, d) ==
  (IF users[u].row = "deleted" THEN {"deletedAt"} ELSE {})
    \cup (IF users[u].profile # d.profile THEN {"profile"} ELSE {})

LoadReset(c) ==
  /\ req[c].step = "load"
  /\ req' = [req EXCEPT ![c].document.columns = Changed(req[c].user, req[c].document), ![c].step = "commit"]
  /\ Unchanged

(* Fault: the document carries an empty profile, which is written over.    *)
RestoredEmpty(u, d) == [row |-> "live", profile |-> CHOOSE p \in Profile : TRUE]

(* The cascade: the columns found to differ take the document's values.    *)
Restored(u, d) ==
  [row |-> IF "deletedAt" \in d.columns THEN "live" ELSE users[u].row,
   profile |-> IF "profile" \in d.columns THEN d.profile ELSE users[u].profile]

(* The migrations point FK_reset_password_account at accounts, the schema  *)
(* at users: in a schema the migrations built the insert is rejected, and  *)
(* the transaction takes the cascade back with it.                         *)
SaveReset(c) ==
  LET q == req[c] IN
  /\ q.step = "commit"
  /\ IF synchronized
       THEN /\ resets' = Append(resets, [user |-> q.user, exp |-> q.document.exp, created |-> now,
                                         sought |-> q.document.sought])
            /\ users' = [users EXCEPT ![q.user] = Restored(q.user, q.document)]
            /\ req' = [d \in Caller |->
                 IF d = c THEN [Idle EXCEPT !.step = "mail", !.user = q.user, !.document.exp = q.document.exp]
                 ELSE [req[d] EXCEPT !.stale = @ \/ (HasRead(d, q.user) /\ users' # users)]]
       ELSE /\ Respond(c, "500")
            /\ UNCHANGED <<resets, users>>
  /\ UNCHANGED <<now, synchronized, roleless, requests, mails>>

(* Fault: the mail goes out first and the row is saved after it.           *)
MailFirst(c) ==
  /\ req[c].step \in {"load", "mail"}
  /\ mails' = mails \cup {[user |-> req[c].user, exp |-> req[c].document.exp]}
  /\ IF req[c].step = "load" THEN Goto(c, "commit") ELSE Respond(c, "201")
  /\ UNCHANGED <<now, synchronized, Tables, requests>>

(* The event is emitted without waiting for the mail.                      *)
SendMail(c) ==
  /\ req[c].step = "mail"
  /\ mails' = mails \cup {[user |-> req[c].user, exp |-> req[c].document.exp]}
  /\ Respond(c, "201")
  /\ UNCHANGED <<now, synchronized, Tables, requests>>

----------------------------------------------------------------------------
(* reset-password-confirm.                                                 *)

(* Two passwords that differ are refused before anything is looked at.     *)
ConfirmDiffering(c) == Begin(c, [Idle EXCEPT !.answer = "400"])

StartConfirm(c) ==
  \E m \in mails :
    Begin(c, [Idle EXCEPT !.step = "verify", !.user = m.user, !.document.exp = m.exp])

VerifyToken(c) ==
  /\ req[c].step = "verify"
  /\ IF Accepted(req[c].document.exp) THEN Goto(c, "user") ELSE Respond(c, "401")
  /\ Unchanged

FindUserToConfirm(c) ==
  /\ req[c].step = "user"
  /\ IF users[req[c].user].row = "live" THEN Goto(c, "confirmed-row") ELSE Respond(c, "404")
  /\ Unchanged

(* A fresh row of the user will do, the token is not compared.  The        *)
(* password relation is not loaded, so UserPasswordEntity has nothing to   *)
(* hold and every confirmation that gets here fails: nothing is saved, no  *)
(* mail sent, no row removed.                                              *)
ConfirmEnds(c) ==
  /\ req[c].step = "confirmed-row"
  /\ Respond(c, IF FreshRowsOf(req[c].user) = {} THEN "401" ELSE "500")
  /\ Unchanged

----------------------------------------------------------------------------
(* What may happen between two steps.                                      *)

(* A round trip fails, or the process stops.                               *)
Dropped(c) ==
  /\ Busy(c)
  /\ \E code \in {"500", "none"} : Respond(c, code)
  /\ Unchanged

Holding(c) == req[c].step \in {"load", "commit"}
Tick ==
  /\ now < MaxTime
  /\ \A c \in Caller : Holding(c) => now < req[c].document.signed + Latency
  /\ now' = now + 1
  /\ UNCHANGED <<synchronized, Tables, req, requests, mails>>

(* user-update and user-delete; a stale user-update brings a user back.    *)
UserChanges(u) ==
  /\ \E r \in UserRow \ {users[u]} :
       /\ users' = [users EXCEPT ![u] = r]
  /\ req' = [c \in Caller |-> [req[c] EXCEPT !.stale = @ \/ HasRead(c, u)]]
  /\ UNCHANGED <<now, synchronized, roleless, resets, requests, mails>>

(* role-delete.                                                            *)
RolesGo(u) ==
  /\ u \notin roleless
  /\ roleless' = roleless \cup {u}
  /\ UNCHANGED <<now, synchronized, users, resets, req, requests, mails>>

Init ==
  /\ now = 0
  /\ synchronized \in BOOLEAN
  /\ users \in [User -> [row : {"live"}, profile : {CHOOSE p \in Profile : TRUE}]]
  /\ roleless = {}
  /\ resets = <<>>
  /\ req = [c \in Caller |-> Idle]
  /\ requests = 0
  /\ mails = {}

SendEmail(c) ==
  \/ StartSendEmail(c) \/ FindUserByEmail(c) \/ FindReset(c) \/ SignAndBuild(c)
  \/ LoadReset(c) \/ SaveReset(c) \/ SendMail(c)
Confirm(c) ==
  \/ ConfirmDiffering(c) \/ StartConfirm(c) \/ VerifyToken(c) \/ FindUserToConfirm(c) \/ ConfirmEnds(c)

Next ==
  \/ \E c \in Caller : SendEmail(c) \/ Confirm(c) \/ Dropped(c)
  \/ \E u \in User : UserChanges(u) \/ RolesGo(u)
  \/ Tick

Spec == Init /\ [][Next]_vars
----------------------------------------------------------------------------
(* Types.                                                                  *)

Document == [profile : Profile, role : BOOLEAN, signed : Nat, exp : Nat, sought : Nat,
             columns : SUBSET {"deletedAt", "profile"}]
Request == [step : Step, answer : Answer, user : User \cup {NoUser}, document : Document,
            stale : BOOLEAN]
ResetRow == [user : User, exp : Nat, created : Nat, sought : Nat]

(* Every variable keeps its type; a request that has begun has a user.     *)
TypeOK ==
  /\ now \in 0..MaxTime
  /\ synchronized \in BOOLEAN
  /\ users \in [User -> UserRow]
  /\ roleless \subseteq User
  /\ resets \in Seq(ResetRow)
  /\ req \in [Caller -> Request]
  /\ \A c \in Caller : Busy(c) => req[c].user \in User
  /\ requests \in 0..MaxRequests
  /\ mails \subseteq [user : User, exp : Nat]

----------------------------------------------------------------------------
(* Properties.                                                             *)

(* FreshRowsAreUsable: as long as findByIdUserId finds a row, the token in *)
(* it is accepted, so a repeated request never mails a dead token and      *)
(* confirm never refuses one it would find the row of.  The row counts     *)
(* from its insertion, the token from its signature, before it             *)
(* (reset-password-send-email.ts:45-48, repository.ts:18).                 *)
FreshRowsAreUsable == \A i \in DOMAIN resets : Fresh(resets[i]) => Accepted(resets[i].exp)

(* MailedTokensAreKept: every token mailed is the token of a row of that   *)
(* user which stands, whatever failed or overlapped; no mail goes out      *)
(* where the insert is rejected.                                           *)
MailedTokensAreKept ==
  \A m \in mails : \E i \in DOMAIN resets : resets[i].user = m.user /\ resets[i].exp = m.exp

(* OnlyOverlapDuplicates: when a user gets a second row while the first    *)
(* still counts, the request that made the second had looked before the    *)
(* first was inserted.  Requests one after the other share one token, also *)
(* when the first was dropped before its mail.                             *)
OnlyOverlapDuplicates ==
  \A i, j \in DOMAIN resets :
    i < j /\ resets[i].user = resets[j].user /\ resets[j].created < resets[i].created + RowLife =>
      resets[j].sought < i

(* IInv: the inductive strengthening: what a request that holds a document *)
(* knows of the tables.                                                    *)
HoldsToken(c) ==
  req[c].step \in {"load", "commit"} =>
    /\ now <= req[c].document.signed + Latency
    /\ req[c].document.exp = req[c].document.signed + TokenLife
FoundRow(c) ==
  req[c].step = "mail" =>
    \E i \in DOMAIN resets : resets[i].user = req[c].user /\ resets[i].exp = req[c].document.exp
FoundNone(c) ==
  req[c].step \in {"entity", "load", "commit"} =>
    /\ req[c].document.sought <= Len(resets)
    /\ \A i \in DOMAIN resets :
         resets[i].user = req[c].user /\ Fresh(resets[i]) => req[c].document.sought < i
IInv ==
  /\ TypeOK
  /\ \A i \in DOMAIN resets :
       resets[i].created <= now /\ resets[i].created + RowLife <= resets[i].exp
  /\ MailedTokensAreKept /\ OnlyOverlapDuplicates
  /\ \A c \in Caller : HoldsToken(c) /\ FoundRow(c) /\ FoundNone(c)

(* OnlyStaleResetsRevert: saving a reset changes the user only if another  *)
(* request has changed the user since it was read; the cascade then takes  *)
(* that change back and may undo a deletion (schemas/reset-password.ts,    *)
(* cascade).                                                               *)
OnlyStaleResetsRevert ==
  [][\A c \in Caller : req[c].step = "commit" /\ req'[c].step = "mail" =>
       (users' # users => req[c].stale)]_vars
=============================================================================
