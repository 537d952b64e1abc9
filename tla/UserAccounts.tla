--------------------------- MODULE UserAccounts ---------------------------
(***************************************************************************)
(* Accounts and the users entered on them: the use cases user-create,      *)
(* user-update, user-delete and user-change-password of core/user, with    *)
(* the account and user repositories they save through, and                *)
(* reset-password-send-email, which saves the user it has read along with  *)
(* its reset (PasswordReset has the rest of it).                           *)
(*                                                                         *)
(* As in AccessControl a request runs in steps, one per database round     *)
(* trip, and any other request may run between two of them.  user-create   *)
(* saves the account and then the user, in two transactions.  Any round    *)
(* trip may fail, and the process may stop, between two steps (Dropped).   *)
(***************************************************************************)
EXTENDS Naturals, Sequences, FiniteSets

CONSTANTS
  Account, User,         \* row ids; the sets bound how many rows exist
  Email, Username,
  Role,                  \* roles by name; AccessControl changes which are live
  Column, Value,         \* the columns of a user, and what they may hold
  Required,              \* the columns that are not null; user-create sends no other
  Null,                  \* the value of a column that is null
  RoleList,              \* the role lists user-create is sent; one may repeat a role
  Caller,                \* requests in flight at the same time, at most
  MaxRequests,           \* requests in a behaviour, at most
  Coordinated,           \* TRUE: no two requests in flight work on one user
  SeedAccounts, SeedUsers,   \* rows the migrations insert
  NoName, NoId

Reserved == "reserved"      \* in place of a user: an account has the e-mail, no user yet

NoProfile == [k \in Column |-> Null]
NoAccount == [email |-> NoName, username |-> NoName, roles |-> {}]
NoUser == [row |-> "absent", account |-> NoId, profile |-> NoProfile]
AccountRow == [email : Email, username : Username, roles : (SUBSET Role) \ {{}}]
UserRow == [row : {"live", "deleted"},    \* deleted: deletedAt is set
            account : Account, profile : [Column -> Value]]

ASSUME ConstantsAssumption ==
  /\ NoName \notin Email \cup Username
  /\ NoId \notin Account \cup User /\ Reserved \notin User
  /\ Null \in Value /\ Required \subseteq Column /\ "deletedAt" \notin Column
  /\ RoleList \subseteq Seq(Role) \ {<<>>}
  /\ MaxRequests \in Nat
  /\ Coordinated \in BOOLEAN

(* Every seeded account has one user, and every user its account.          *)
ASSUME SeedAssumption ==
  /\ SeedAccounts \in [Account -> AccountRow \cup {NoAccount}]
  /\ SeedUsers \in [User -> UserRow \cup {NoUser}]
  /\ \A a, b \in Account :
       /\ SeedAccounts[a] # NoAccount
       /\ \/ SeedAccounts[a].email = SeedAccounts[b].email
          \/ SeedAccounts[a].username = SeedAccounts[b].username
       => a = b
  /\ \A u \in User : SeedUsers[u] # NoUser => SeedAccounts[SeedUsers[u].account] # NoAccount
  /\ \A u, v \in User : SeedUsers[u] # NoUser /\ SeedUsers[u].account = SeedUsers[v].account => u = v
  /\ \A a \in Account : SeedAccounts[a] # NoAccount => \E u \in User : SeedUsers[u].account = a

VARIABLES
  accounts,    \* table accounts, with its join table accounts_roles
  users,       \* table users
  liveRoles,   \* the roles whose row is not soft-deleted
  req,         \* the handlers in flight and the documents they hold
  requests,    \* how many requests have started
  abandoned,   \* history: accounts whose request was dropped before it saved a user
  welcomed     \* history: e-mails a welcome mail was sent to

vars == <<accounts, users, liveRoles, req, requests, abandoned, welcomed>>
Tables == <<accounts, users>>
History == <<requests, abandoned, welcomed>>

----------------------------------------------------------------------------
(* What a handler holds while it runs.                                     *)

Op == {"user-create", "user-update", "user-delete", "user-change-password",
       "reset-password-send-email"}
Step == {"idle", "roles", "email", "username", "account", "user", "welcome",
         "read", "row", "load", "commit", "reread", "remove"}
Answer == {"none", "200", "201", "400", "404", "409", "500"}

(* stale is history: another request has changed the user since it was     *)
(* read.                                                                   *)
Idle == [op |-> "none", step |-> "idle", answer |-> "none", account |-> NoId, user |-> NoId,
         email |-> NoName, username |-> NoName, roles |-> {},
         sent |-> {}, profile |-> NoProfile, columns |-> {}, stale |-> FALSE]

Busy(c) == req[c].step # "idle"
Goto(c, step) == req' = [req EXCEPT ![c].step = step]
Respond(c, code) == req' = [req EXCEPT ![c] = [Idle EXCEPT !.answer = code]]

AccountExists(a) == accounts[a] # NoAccount
UserExists(u) == users[u] # NoUser
(* Fault: finds return soft-deleted rows.                                  *)
StoredUser(u) == UserExists(u)
LiveUser(u) == users[u].row = "live"
LiveRolesOf(u) == accounts[users[u].account].roles \cap liveRoles
HasLiveRole(u) == LiveRolesOf(u) # {}

(* Who holds the user u as it was when it was read.                        *)
Holds(c, u) == req[c].user = u /\ req[c].step \in {"row", "load", "commit"}

(* The request of c goes on as q, and has made its user this row.          *)
Writes(c, row, q) ==
  LET u == req[c].user IN
  /\ users' = [users EXCEPT ![u] = row]
  /\ req' = [d \in Caller |->
       IF d = c THEN q ELSE [req[d] EXCEPT !.stale = @ \/ (Holds(d, u) /\ users[u] # row)]]

(* UUIDs: ids no row and no request in flight has.                         *)
FreshAccount == {a \in Account : ~AccountExists(a) /\ \A c \in Caller : req[c].account # a}
FreshUser == {u \in User : ~UserExists(u) /\ \A c \in Caller : req[c].user # u}

(* The discipline under which a change of a user is not overwritten.       *)
MayStart(s) == Coordinated => \A d \in Caller : Busy(d) => req[d].user # s.user

Begin(c, s) ==
  /\ ~Busy(c)
  /\ requests < MaxRequests
  /\ MayStart(s)
  /\ req' = [req EXCEPT ![c] = s]
  /\ requests' = requests + 1
  /\ UNCHANGED <<Tables, liveRoles, abandoned, welcomed>>

----------------------------------------------------------------------------
(* user-create.                                                            *)

Entered(columns) == {x \in [Column -> Value] : \A k \in Column : x[k] # Null => k \in columns}
Complete(x, columns) == \A k \in columns \cap Required : x[k] # Null

StartUserCreate(c) ==
  \E a \in FreshAccount, u \in FreshUser, e \in Email, n \in Username, x \in Entered(Required) :
    /\ Complete(x, Required)
    /\ Begin(c, [Idle EXCEPT !.op = "user-create", !.step = "roles", !.account = a, !.user = u,
                             !.email = e, !.username = n, !.profile = x])

(* Fault: the roles found are not counted.                                 *)
FindRolesUncounted(c) ==
  /\ req[c].step = "roles"
  /\ \E asked \in RoleList :
       req' = [req EXCEPT ![c].step = "email",
                          ![c].roles = {asked[i] : i \in DOMAIN asked} \cap liveRoles]
  /\ UNCHANGED <<Tables, liveRoles, History>>

(* findIn returns each live role once, however often the input names it,   *)
(* and the handler compares lengths.                                       *)
FindRoles(c) ==
  /\ req[c].step = "roles"
  /\ \E asked \in RoleList :
       LET found == {asked[i] : i \in DOMAIN asked} \cap liveRoles IN
       IF Cardinality(found) < Len(asked)
         THEN Respond(c, "404")
         ELSE req' = [req EXCEPT ![c].step = "email", ![c].roles = found]
  /\ UNCHANGED <<Tables, liveRoles, History>>

FindEmail(c) ==
  /\ req[c].step = "email"
  /\ IF \E a \in Account : accounts[a].email = req[c].email
       THEN Respond(c, "409")
       ELSE Goto(c, "username")
  /\ UNCHANGED <<Tables, liveRoles, History>>

FindUsername(c) ==
  /\ req[c].step = "username"
  /\ IF \E a \in Account : accounts[a].username = req[c].username
       THEN Respond(c, "409")
       ELSE Goto(c, "account")
  /\ UNCHANGED <<Tables, liveRoles, History>>

(* Fault: the e-mail is not unique in the table.                           *)
TakenUsername(q) == \E a \in Account : accounts[a].username = q.username

(* UNIQUE (email), UNIQUE (username).                                      *)
Taken(q) == \E a \in Account : accounts[a].email = q.email \/ accounts[a].username = q.username

(* Fault: the welcome mail goes out with the account.                      *)
InsertAccountAndWelcome(c) ==
  LET q == req[c] IN
  /\ q.step = "account" /\ ~Taken(q)
  /\ accounts' = [accounts EXCEPT ![q.account] =
                    [email |-> q.email, username |-> q.username, roles |-> q.roles]]
  /\ Goto(c, "user")
  /\ welcomed' = welcomed \cup {q.email}
  /\ UNCHANGED <<users, liveRoles, requests, abandoned>>

InsertAccount(c) ==
  LET q == req[c] IN
  /\ q.step = "account" /\ ~Taken(q)
  /\ accounts' = [accounts EXCEPT ![q.account] =
                    [email |-> q.email, username |-> q.username, roles |-> q.roles]]
  /\ Goto(c, "user")
  /\ UNCHANGED <<users, liveRoles, History>>

(* Fault: the rejection is caught and the request goes on.                 *)
AccountRejectedUnnoticed(c) ==
  /\ req[c].step = "account" /\ Taken(req[c])
  /\ Goto(c, "user")
  /\ UNCHANGED <<Tables, liveRoles, History>>

AccountRejected(c) ==
  /\ req[c].step = "account" /\ Taken(req[c])
  /\ Respond(c, "500")
  /\ UNCHANGED <<Tables, liveRoles, History>>

InsertUser(c) ==
  LET q == req[c] IN
  /\ q.step = "user"
  /\ users' = [users EXCEPT ![q.user] = [row |-> "live", account |-> q.account, profile |-> q.profile]]
  /\ Goto(c, "welcome")
  /\ UNCHANGED <<accounts, liveRoles, History>>

(* The event is emitted without waiting for the mail.                      *)
Welcome(c) ==
  /\ req[c].step = "welcome"
  /\ welcomed' = welcomed \cup {req[c].email}
  /\ Respond(c, "200")
  /\ UNCHANGED <<Tables, liveRoles, requests, abandoned>>

----------------------------------------------------------------------------
(* user-update, user-delete, user-change-password, and the reset.          *)

StartUserUpdate(c) ==
  \E u \in User, columns \in SUBSET Column : \E x \in Entered(columns) :
    /\ Complete(x, columns)
    /\ Begin(c, [Idle EXCEPT !.op = "user-update", !.step = "read", !.user = u,
                             !.sent = columns, !.profile = x])

StartUserDelete(c) ==
  \E u \in User : Begin(c, [Idle EXCEPT !.op = "user-delete", !.step = "read", !.user = u])

StartChangePassword(c) ==
  \E u \in User : Begin(c, [Idle EXCEPT !.op = "user-change-password", !.step = "read", !.user = u])

StartSendEmail(c) ==
  \E u \in User : Begin(c, [Idle EXCEPT !.op = "reset-password-send-email", !.step = "read", !.user = u])

UserNotFound(c) ==
  /\ req[c].step = "read" /\ ~LiveUser(req[c].user)
  /\ Respond(c, "404")
  /\ UNCHANGED <<Tables, liveRoles, History>>

(* AccountEntitySchema asks for a role: UserEntity cannot hold this user.  *)
UserWithoutRole(c) ==
  LET q == req[c] IN
  /\ q.step = "read" /\ q.op \in {"user-update", "user-delete"}
  /\ LiveUser(q.user) /\ ~HasLiveRole(q.user)
  /\ Respond(c, "400")
  /\ UNCHANGED <<Tables, liveRoles, History>>

(* Fault: the input alone is saved.                                        *)
OverNothing(row, q) == q.profile

(* The document: the row as read, the columns sent over it.                *)
Over(row, q) == [k \in Column |-> IF k \in q.sent THEN q.profile[k] ELSE row.profile[k]]
ReadForUpdate(c) ==
  LET q == req[c] IN
  /\ q.step = "read" /\ q.op = "user-update"
  /\ LiveUser(q.user) /\ HasLiveRole(q.user)
  /\ req' = [req EXCEPT ![c].step = "load", ![c].profile = Over(users[q.user], q)]
  /\ UNCHANGED <<Tables, liveRoles, History>>

(* The user is found, live, by the e-mail of its account.                  *)
ReadForReset(c) ==
  LET q == req[c] IN
  /\ q.step = "read" /\ q.op = "reset-password-send-email"
  /\ LiveUser(q.user)
  /\ req' = [req EXCEPT ![c].step = "row", ![c].profile = users[q.user].profile,
                         ![c].roles = LiveRolesOf(q.user)]
  /\ UNCHANGED <<Tables, liveRoles, History>>

(* A reset there is already is mailed again; ResetPasswordEntity refuses a *)
(* user whose account has no role.                                         *)
FindReset(c) ==
  /\ req[c].step = "row"
  /\ \/ Respond(c, "201")
     \/ req[c].roles = {} /\ Respond(c, "400")
     \/ req[c].roles # {} /\ Goto(c, "load")
  /\ UNCHANGED <<Tables, liveRoles, History>>

(* The columns in which the row differs from the document, whose deletedAt *)
(* is null as it was read.                                                 *)
Changed(row, q) ==
  {k \in Column : row.profile[k] # q.profile[k]}
    \cup (IF row.row = "deleted" THEN {"deletedAt"} ELSE {})

LoadUser(c) ==
  LET q == req[c] IN
  /\ q.step = "load"
  /\ req' = [req EXCEPT ![c].step = "commit", ![c].columns = Changed(users[q.user], q)]
  /\ UNCHANGED <<Tables, liveRoles, History>>

(* Fault: the changed columns of the profile are not written.              *)
ReviveOnly(row, q) == [row EXCEPT !.row = "live"]

(* Only the columns found to differ are written.                           *)
Written(row, q) ==
  [row EXCEPT !.row = IF "deletedAt" \in q.columns THEN "live" ELSE @,
              !.profile = [k \in Column |-> IF k \in q.columns THEN q.profile[k] ELSE @[k]]]

SaveUser(c) ==
  LET q == req[c] IN
  /\ q.step = "commit" /\ q.op = "user-update"
  /\ Writes(c, Written(users[q.user], q), [q EXCEPT !.step = "reread"])
  /\ UNCHANGED <<accounts, liveRoles, History>>

(* The relation to the user cascades: the insert of the reset also writes  *)
(* the user it holds.                                                      *)
SaveReset(c) ==
  LET q == req[c] IN
  /\ q.step = "commit" /\ q.op = "reset-password-send-email"
  /\ Writes(c, Written(users[q.user], q), [Idle EXCEPT !.answer = "201"])
  /\ UNCHANGED <<accounts, liveRoles, History>>

(* findOne gives null for a user deleted since, and a document UserEntity  *)
(* refuses for an account whose roles are gone: the save stands all the    *)
(* same.                                                                   *)
Reread(c) ==
  /\ req[c].step = "reread"
  /\ Respond(c, IF ~LiveUser(req[c].user) THEN "500"
                ELSE IF ~HasLiveRole(req[c].user) THEN "400" ELSE "200")
  /\ UNCHANGED <<Tables, liveRoles, History>>

ReadForDelete(c) ==
  LET q == req[c] IN
  /\ q.step = "read" /\ q.op = "user-delete"
  /\ LiveUser(q.user) /\ HasLiveRole(q.user)
  /\ Goto(c, "remove")
  /\ UNCHANGED <<Tables, liveRoles, History>>

(* softRemove sets deletedAt; the account stays.                           *)
SoftRemove(c) ==
  /\ req[c].step = "remove"
  /\ Writes(c, [users[req[c].user] EXCEPT !.row = "deleted"], [Idle EXCEPT !.answer = "200"])
  /\ UNCHANGED <<accounts, liveRoles, History>>

(* The relation account.password is not eager and not asked for, so there  *)
(* is nothing for UserPasswordEntity to hold: every user found ends here.  *)
ChangePasswordFails(c) ==
  /\ req[c].step = "read" /\ req[c].op = "user-change-password"
  /\ LiveUser(req[c].user)
  /\ Respond(c, "500")
  /\ UNCHANGED <<Tables, liveRoles, History>>

----------------------------------------------------------------------------
(* What may happen between two steps.                                      *)

(* A round trip fails (500; in a schema the migrations built every insert  *)
(* of a reset does), or the process stops (no answer).  Nothing undoes the *)
(* saves already made.                                                     *)
Dropped(c) ==
  /\ Busy(c)
  /\ \E code \in {"500", "none"} : Respond(c, code)
  /\ abandoned' = IF req[c].step = "user" THEN abandoned \cup {req[c].account} ELSE abandoned
  /\ UNCHANGED <<Tables, liveRoles, requests, welcomed>>

(* role-delete, and the saves that bring a deleted role back.              *)
RoleChanges(r) ==
  /\ liveRoles' = IF r \in liveRoles THEN liveRoles \ {r} ELSE liveRoles \cup {r}
  /\ UNCHANGED <<Tables, req, History>>

Init ==
  /\ accounts = SeedAccounts
  /\ users = SeedUsers
  /\ liveRoles = Role
  /\ req = [c \in Caller |-> Idle]
  /\ requests = 0
  /\ abandoned = {}
  /\ welcomed = {}

Start(c) ==
  \/ StartUserCreate(c) \/ StartUserUpdate(c) \/ StartUserDelete(c) \/ StartChangePassword(c)
  \/ StartSendEmail(c)
Create(c) ==
  \/ FindRoles(c) \/ FindEmail(c) \/ FindUsername(c)
  \/ InsertAccount(c) \/ AccountRejected(c) \/ InsertUser(c) \/ Welcome(c)
Change(c) ==
  \/ UserNotFound(c) \/ UserWithoutRole(c) \/ ReadForUpdate(c) \/ ReadForReset(c) \/ FindReset(c)
  \/ LoadUser(c) \/ SaveUser(c) \/ SaveReset(c)
  \/ Reread(c) \/ ReadForDelete(c) \/ SoftRemove(c) \/ ChangePasswordFails(c)

Next ==
  \/ \E c \in Caller : Start(c) \/ Create(c) \/ Change(c) \/ Dropped(c)
  \/ \E r \in Role : RoleChanges(r)

Spec == Init /\ [][Next]_vars

----------------------------------------------------------------------------
(* Types.                                                                  *)

Request == [op : Op \cup {"none"}, step : Step, answer : Answer,
            account : Account \cup {NoId}, user : User \cup {NoId},
            email : Email \cup {NoName}, username : Username \cup {NoName},
            roles : SUBSET Role, sent : SUBSET Column, profile : [Column -> Value],
            columns : SUBSET (Column \cup {"deletedAt"}), stale : BOOLEAN]

(* Every variable keeps its type; an account row has an e-mail, a username *)
(* and a role, a user row an account.                                      *)
TypeOK ==
  /\ accounts \in [Account -> AccountRow \cup {NoAccount}]
  /\ users \in [User -> UserRow \cup {NoUser}]
  /\ liveRoles \subseteq Role
  /\ req \in [Caller -> Request]
  /\ requests \in 0..MaxRequests
  /\ abandoned \subseteq Account
  /\ welcomed \subseteq Email

----------------------------------------------------------------------------
(* Properties.                                                             *)

(* OneUserPerAccount: a user is on an account that exists, no two users    *)
(* are on one account (no constraint of the table says so), and an account *)
(* without a user is one whose request is about to save it, or was dropped *)
(* between the two saves of user-create.                                   *)
OneUserPerAccount ==
  /\ \A u \in User : UserExists(u) => AccountExists(users[u].account)
  /\ \A u, v \in User : UserExists(u) /\ users[u].account = users[v].account => u = v
  /\ \A a \in Account : AccountExists(a) =>
       \/ \E u \in User : users[u].account = a
       \/ \E c \in Caller : req[c].step = "user" /\ req[c].account = a
       \/ a \in abandoned

(* WelcomeIsForUsers: whoever was sent a welcome mail has an account with  *)
(* a user on it, even when the request was dropped or lost a race for the  *)
(* e-mail (user-create.ts, the emit after both saves).                     *)
WelcomeIsForUsers ==
  \A e \in welcomed : \E u \in User : UserExists(u) /\ accounts[users[u].account].email = e

(* IInv: the inductive strengthening behind OneUserPerAccount and          *)
(* WelcomeIsForUsers.  DocumentOf: which of the two rows of a user-create  *)
(* exist at each of its steps, and that the ids of its rows are its own.   *)
CreateDocument(q) ==
  /\ q.op = "user-create"
  /\ q.step \in {"roles", "email", "username", "account", "user", "welcome"}
  /\ q.account \in Account /\ q.user \in User /\ q.email \in Email /\ q.username \in Username
  /\ q.step # "roles" => q.roles # {}
  /\ AccountExists(q.account) <=> q.step \in {"user", "welcome"}
  /\ UserExists(q.user) <=> q.step = "welcome"
  /\ q.step \in {"user", "welcome"} => accounts[q.account].email = q.email
  /\ q.step = "user" => \A u \in User : users[u].account # q.account
  /\ q.step = "welcome" => users[q.user].account = q.account
ChangeDocument(q) ==
  /\ q.op \in Op \ {"user-create"}
  /\ q.step \in {"read", "row", "load", "commit", "reread", "remove"}
  /\ q.account = NoId /\ q.user \in User
  /\ q.step # "read" => UserExists(q.user)
  /\ q.op = "reset-password-send-email" => q.sent = {}
DocumentOf(q) ==
  \/ q.op = "none" /\ q.step = "idle"
  \/ CreateDocument(q)
  \/ ChangeDocument(q)
OwnRows ==
  \A c, d \in Caller : req[c].op = "user-create" /\ req[d].op = "user-create" /\ c # d =>
    req[c].account # req[d].account /\ req[c].user # req[d].user
IInv ==
  /\ TypeOK
  /\ OneUserPerAccount
  /\ WelcomeIsForUsers
  /\ \A c \in Caller : DocumentOf(req[c])
  /\ OwnRows

(* CInv: what coordinated requests keep besides IInv, and the inductive    *)
(* strengthening behind AnswersTell and Promise: no two accounts have one  *)
(* e-mail, no two requests work on one user, a user-create finds what it   *)
(* has saved as it was sent, and a change knows its row as it is, but for  *)
(* the columns it was sent (user-update.ts, the document read and saved    *)
(* whole).                                                                 *)
EmailsUnique ==
  \A a, b \in Account : accounts[a].email = accounts[b].email /\ AccountExists(a) => a = b
OwnUser == \A c, d \in Caller : Busy(c) /\ Busy(d) /\ req[c].user = req[d].user => c = d
EnteredAsAsked(q) ==
  /\ q.step \in {"user", "welcome"} =>
       accounts[q.account] = [email |-> q.email, username |-> q.username, roles |-> q.roles]
  /\ q.step = "welcome" =>
       users[q.user] = [row |-> "live", account |-> q.account, profile |-> q.profile]
UpToDate(q) ==
  /\ q.step \in {"load", "commit"} => q.op \in {"user-update", "reset-password-send-email"}
  /\ q.step = "row" => q.op = "reset-password-send-email"
  /\ q.step = "reread" => q.op = "user-update"
  /\ q.step = "remove" => q.op = "user-delete"
  /\ q.step \in {"row", "load", "commit", "reread", "remove"} => LiveUser(q.user)
  /\ q.step \in {"row", "load", "commit"} =>
       \A k \in Column \ q.sent : q.profile[k] = users[q.user].profile[k]
  /\ q.step = "commit" =>
       q.columns = {k \in Column : users[q.user].profile[k] # q.profile[k]}
  /\ q.step = "reread" => \A k \in q.sent : users[q.user].profile[k] = q.profile[k]
CInv ==
  /\ Coordinated /\ IInv
  /\ EmailsUnique /\ OwnUser
  /\ \A c \in Caller : EnteredAsAsked(req[c]) /\ UpToDate(req[c])

(* OnlyStaleSavesUndelete: a deleted user nobody has read stays deleted,   *)
(* and no request gets hold of it again: only a user-update or a reset     *)
(* that had read the user while it was live undoes the deletion (both save *)
(* the whole document, deletedAt included: user-update.ts:35 and the       *)
(* cascade of schemas/reset-password.ts:23).                               *)
DeletionIsFinal ==
  \A u \in User : users[u].row = "deleted" /\ ~(\E c \in Caller : Holds(c, u)) =>
    users'[u].row = "deleted" /\ ~(\E c \in Caller : Holds(c, u))'
OnlyStaleSavesUndelete == [][DeletionIsFinal]_vars

(* A request answered in this step, with one of these codes.               *)
Ends(c, op, codes) ==
  req[c].op = op /\ req'[c].step = "idle" /\ req'[c].answer \in codes

(* OnlyStaleSavesTakeBack: when a user-update or a reset saves a user no   *)
(* other request has changed since it was read, the columns sent take the  *)
(* values sent, a reset sends none, and all others keep what they have in  *)
(* the table at that moment.  What a save takes back from another request  *)
(* it had read before that request saved (user-update.ts:35,               *)
(* reset-password-send-email.ts:48).                                       *)
TakesWhatWasSent ==
  \A c \in Caller :
    LET q == req[c] IN
    q.step = "commit" /\ ~q.stale
      /\ (req'[c].step = "reread" \/ Ends(c, "reset-password-send-email", {"201"})) =>
      users'[q.user] = [users[q.user] EXCEPT !.profile =
                          [k \in Column |-> IF k \in q.sent THEN q.profile[k] ELSE @[k]]]
OnlyStaleSavesTakeBack == [][TakesWhatWasSent]_vars

(* AnswersTell: a user-create answered 200 has entered the user, live,     *)
(* under the e-mail it was sent and with the roles found; one answered 404 *)
(* or 409 has left no account.  After a user-update answered 200 the row   *)
(* is live and bears what was sent, after a user-delete it is not live.    *)
(* Coordinated requests only.                                              *)
AnswerIsTrue ==
  \A c \in Caller : LET q == req[c] IN
    /\ Ends(c, "user-create", {"200"}) =>
         /\ users'[q.user].row = "live" /\ users'[q.user].profile = q.profile
         /\ accounts'[users'[q.user].account] =
              [email |-> q.email, username |-> q.username, roles |-> q.roles]
    /\ Ends(c, "user-create", {"404", "409"}) => accounts'[q.account] = NoAccount
    /\ Ends(c, "user-update", {"200"}) =>
         /\ users'[q.user].row = "live"
         /\ \A k \in q.sent : users'[q.user].profile[k] = q.profile[k]
    /\ Ends(c, "user-delete", {"200"}) => users'[q.user].row # "live"
AnswersTell == [][AnswerIsTrue]_vars

(* Promise: coordinated requests implement UserDirectory.                  *)
EnteredUnder(u, e) == UserExists(u) /\ accounts[users[u].account].email = e
OwnerOf(e) ==
  IF \E u \in User : EnteredUnder(u, e) THEN CHOOSE u \in User : EnteredUnder(u, e)
  ELSE IF \E a \in Account : accounts[a].email = e THEN Reserved ELSE NoId
Directory == INSTANCE UserDirectory WITH
  Nobody <- NoId,
  owner <- [e \in Email |-> OwnerOf(e)],
  listed <- {u \in User : LiveUser(u)},
  profile <- [u \in User |-> users[u].profile]
Promise == Directory!Spec
=============================================================================
