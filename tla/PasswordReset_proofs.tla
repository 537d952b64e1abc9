----------------------- MODULE PasswordReset_proofs -----------------------
(***************************************************************************)
(* In every behaviour of PasswordReset, for any users, requests, lifetimes *)
(* and clocks for which LifeAssumption holds, a row that counts has a token*)
(* that is accepted, every token mailed has its row, and only requests     *)
(* that overlap give a user two rows.  IInv is inductive: it is a fact     *)
(* about the tables and one about every request (Sound).                   *)
(***************************************************************************)
EXTENDS PasswordReset, SequenceTheorems, TLAPS

(* What IInv says of one request, and of the tables. *)
Sound(q) ==
  /\ q \in Request
  /\ q.step # "idle" => q.user \in User
  /\ q.step \in {"load", "commit"} =>
       /\ now <= q.document.signed + Latency
       /\ q.document.exp = q.document.signed + TokenLife
  /\ q.step = "mail" =>
       \E i \in DOMAIN resets : resets[i].user = q.user /\ resets[i].exp = q.document.exp
  /\ q.step \in {"entity", "load", "commit"} =>
       /\ q.document.sought <= Len(resets)
       /\ \A i \in DOMAIN resets :
            resets[i].user = q.user /\ Fresh(resets[i]) => q.document.sought < i
Kept ==
  /\ now \in 0..MaxTime
  /\ synchronized \in BOOLEAN
  /\ users \in [User -> UserRow]
  /\ roleless \subseteq User
  /\ resets \in Seq(ResetRow)
  /\ requests \in 0..MaxRequests
  /\ mails \subseteq [user : User, exp : Nat]
  /\ \A i \in DOMAIN resets :
       resets[i].created <= now /\ resets[i].created + RowLife <= resets[i].exp
  /\ MailedTokensAreKept /\ OnlyOverlapDuplicates

LEMMA Split == IInv <=> Kept /\ req \in [Caller -> Request] /\ \A c \in Caller : Sound(req[c])
<1>1. IInv => Kept /\ req \in [Caller -> Request]
  BY DEF IInv, TypeOK, Kept
<1>2. ASSUME IInv, NEW c \in Caller PROVE Sound(req[c])
  BY <1>2 DEF IInv, TypeOK, HoldsToken, FoundRow, FoundNone, Busy, Sound
<1>3. ASSUME Kept, req \in [Caller -> Request], \A c \in Caller : Sound(req[c])
      PROVE  IInv
  <2>1. TypeOK
    BY <1>3 DEF TypeOK, Kept, Sound, Busy
  <2>2. \A c \in Caller : HoldsToken(c) /\ FoundRow(c) /\ FoundNone(c)
    BY <1>3 DEF HoldsToken, FoundRow, FoundNone, Sound
  <2> QED BY <1>3, <2>1, <2>2 DEF IInv, Kept
<1> QED BY <1>1, <1>2, <1>3

LEMMA SplitNext ==
  ASSUME Kept', req' \in [Caller -> Request], \A c \in Caller : Sound(req[c])'
  PROVE  IInv'
<1>1. TypeOK'
  BY DEF TypeOK, Kept, Sound, Busy
<1>2. \A c \in Caller : (HoldsToken(c) /\ FoundRow(c) /\ FoundNone(c))'
  BY DEF HoldsToken, FoundRow, FoundNone, Sound
<1> QED BY <1>1, <1>2 DEF IInv, Kept

LEMMA IdleFacts ==
  /\ NoDocument \in Document /\ NoDocument.sought = 0
  /\ Idle \in Request /\ Idle.step = "idle" /\ Idle.document = NoDocument
  /\ Idle.user = NoUser /\ Idle.answer = "none" /\ Idle.stale = FALSE
<1>1. (CHOOSE p \in Profile : TRUE) \in Profile
  BY ConstantsAssumption
<1> QED BY <1>1 DEF NoDocument, Document, Idle, Request, Step, Answer

(* A request that has been answered is sound whatever it was. *)
LEMMA AnsweredIsSound ==
  ASSUME NEW code \in Answer
  PROVE  Sound([Idle EXCEPT !.answer = code])
<1> DEFINE q == [Idle EXCEPT !.answer = code]
<1>1. q \in Request /\ q.step = "idle"
  BY IdleFacts DEF Request
<1> HIDE DEF q
<1>2. Sound(q)
  BY <1>1 DEF Sound
<1> QED BY <1>2 DEF q

(* A step that replaces one request by a sound one and leaves the clock    *)
(* and the tables alone keeps IInv.                                        *)
LEMMA RequestMoves ==
  ASSUME IInv, NEW c \in Caller, NEW q, Sound(q),
         req' = [req EXCEPT ![c] = q],
         requests' \in 0..MaxRequests,
         UNCHANGED <<now, synchronized, Tables, mails>>
  PROVE  IInv'
<1>1. Kept /\ req \in [Caller -> Request] /\ \A d \in Caller : Sound(req[d])
  BY Split
<1>2. UNCHANGED <<now, synchronized, users, roleless, resets, mails>>
  BY DEF Tables
<1>3. Kept'
  BY <1>1, <1>2 DEF Kept, MailedTokensAreKept, OnlyOverlapDuplicates
<1>4. req' \in [Caller -> Request]
  BY <1>1 DEF Sound
<1>5. \A d \in Caller : Sound(req'[d])
  BY <1>1
<1>6. \A d \in Caller : Sound(req[d])'
  BY <1>2, <1>5 DEF Sound, Fresh
<1> QED BY <1>3, <1>4, <1>6, SplitNext

LEMMA Responds ==
  ASSUME IInv, NEW c \in Caller, NEW code \in Answer, Respond(c, code),
         requests' \in 0..MaxRequests,
         UNCHANGED <<now, synchronized, Tables, mails>>
  PROVE  IInv'
BY AnsweredIsSound, RequestMoves DEF Respond

LEMMA Begins ==
  ASSUME IInv, NEW c \in Caller, NEW q, Sound(q), Begin(c, q)
  PROVE  IInv'
<1>1. requests' \in 0..MaxRequests
  BY ConstantsAssumption DEF Begin, IInv, TypeOK
<1> QED BY <1>1, RequestMoves DEF Begin

LEMMA InitIInv == Init => IInv
<1> SUFFICES ASSUME Init PROVE IInv
  OBVIOUS
<1>1. Kept
  <2>1. (CHOOSE p \in Profile : TRUE) \in Profile
    BY ConstantsAssumption
  <2>2. users \in [User -> UserRow]
    BY <2>1 DEF Init, UserRow
  <2>3. resets = <<>> /\ mails = {} /\ now = 0 /\ requests = 0 /\ roleless = {} /\ synchronized \in BOOLEAN
    BY DEF Init
  <2> QED BY <2>2, <2>3, ConstantsAssumption DEF Kept, MailedTokensAreKept, OnlyOverlapDuplicates
<1>2. req \in [Caller -> Request]
  BY IdleFacts DEF Init
<1>3. \A c \in Caller : Sound(req[c])
  BY IdleFacts DEF Init, Sound
<1> QED BY <1>1, <1>2, <1>3, Split

----------------------------------------------------------------------------
(* Sending the mail. *)

LEMMA StartSendEmailStep == ASSUME IInv, NEW c \in Caller, StartSendEmail(c) PROVE IInv'
<1> PICK u \in User : Begin(c, [Idle EXCEPT !.step = "email", !.user = u])
  BY DEF StartSendEmail
<1> DEFINE q == [Idle EXCEPT !.step = "email", !.user = u]
<1>1. q \in Request /\ q.step = "email" /\ q.user \in User
  BY IdleFacts DEF Request, Step
<1>2. Begin(c, q)
  OBVIOUS
<1> HIDE DEF q
<1>3. Sound(q)
  BY <1>1 DEF Sound
<1> QED BY <1>2, <1>3, Begins

LEMMA FindUserByEmailStep == ASSUME IInv, NEW c \in Caller, FindUserByEmail(c) PROVE IInv'
<1> DEFINE r == req[c]
           q == [r EXCEPT !.step = "row", !.document.profile = users[r.user].profile,
                          !.document.role = r.user \notin roleless]
<1>1. Kept /\ r \in Request /\ Sound(r) /\ r.step = "email" /\ requests' \in 0..MaxRequests
      /\ UNCHANGED <<now, synchronized, Tables, mails>>
  BY Split DEF FindUserByEmail, Unchanged, Kept
<1>2. CASE users[r.user].row = "deleted"
  BY <1>1, <1>2, Responds DEF FindUserByEmail, Answer
<1>3. CASE users[r.user].row # "deleted"
  <2>1. req' = [req EXCEPT ![c] = q]
    BY <1>3, Split DEF FindUserByEmail
  <2>2. r.user \in User /\ users[r.user].profile \in Profile
    BY <1>1 DEF Sound, Kept, UserRow
  <2>3. q \in Request /\ q.step = "row" /\ q.user = r.user
    BY <1>1, <2>2 DEF Request, Step, Document
  <2> HIDE DEF q
  <2>4. Sound(q)
    BY <2>2, <2>3 DEF Sound
  <2> QED BY <1>1, <2>1, <2>4, RequestMoves
<1> QED BY <1>2, <1>3

LEMMA FindResetStep == ASSUME IInv, NEW c \in Caller, FindReset(c) PROVE IInv'
<1> DEFINE r == req[c]
<1>1. Kept /\ r \in Request /\ Sound(r) /\ r.step = "row" /\ requests' \in 0..MaxRequests
      /\ r.user \in User /\ UNCHANGED <<now, synchronized, Tables, mails>>
  BY Split DEF FindReset, Unchanged, Kept, Sound
<1>2. CASE \E i \in FreshRowsOf(r.user) :
             req' = [req EXCEPT ![c] = [Idle EXCEPT !.step = "mail", !.user = r.user,
                                                    !.document.exp = resets[i].exp]]
  <2> PICK i \in FreshRowsOf(r.user) :
             req' = [req EXCEPT ![c] = [Idle EXCEPT !.step = "mail", !.user = r.user,
                                                    !.document.exp = resets[i].exp]]
    BY <1>2
  <2> DEFINE q == [Idle EXCEPT !.step = "mail", !.user = r.user, !.document.exp = resets[i].exp]
  <2>1. i \in DOMAIN resets /\ resets[i].user = r.user /\ resets[i] \in ResetRow
    BY <1>1 DEF FreshRowsOf, Kept
  <2>2. q \in Request /\ q.step = "mail" /\ q.user = r.user /\ q.document.exp = resets[i].exp
    BY <1>1, <2>1, IdleFacts DEF Request, Step, Document, ResetRow
  <2>3. req' = [req EXCEPT ![c] = q]
    OBVIOUS
  <2> HIDE DEF q
  <2>4. Sound(q)
    BY <1>1, <2>1, <2>2 DEF Sound
  <2> QED BY <1>1, <2>3, <2>4, RequestMoves
<1>3. CASE FreshRowsOf(r.user) = {} /\ req' = [req EXCEPT ![c].step = "entity", ![c].document.sought = Len(resets)]
  <2> DEFINE q == [r EXCEPT !.step = "entity", !.document.sought = Len(resets)]
  <2>1. req' = [req EXCEPT ![c] = q]
    BY <1>3, Split
  <2>2. Len(resets) \in Nat
    BY <1>1, LenProperties DEF Kept
  <2>3. q \in Request /\ q.step = "entity" /\ q.user = r.user /\ q.document.sought = Len(resets)
    BY <1>1, <2>2 DEF Request, Step, Document
  <2>4. \A i \in DOMAIN resets : ~(resets[i].user = r.user /\ Fresh(resets[i]))
    BY <1>3 DEF FreshRowsOf
  <2> HIDE DEF q
  <2>5. Sound(q)
    BY <1>1, <2>2, <2>3, <2>4 DEF Sound
  <2> QED BY <1>1, <2>1, <2>5, RequestMoves
<1> QED BY <1>2, <1>3 DEF FindReset

LEMMA SignAndBuildStep == ASSUME IInv, NEW c \in Caller, SignAndBuild(c) PROVE IInv'
<1> DEFINE r == req[c]
           q == [r EXCEPT !.step = "load", !.document.signed = now, !.document.exp = now + TokenLife]
<1>1. Kept /\ r \in Request /\ Sound(r) /\ r.step = "entity" /\ requests' \in 0..MaxRequests
      /\ UNCHANGED <<now, synchronized, Tables, mails>>
  BY Split DEF SignAndBuild, Unchanged, Kept
<1>2. CASE ~r.document.role
  BY <1>1, <1>2, Responds DEF SignAndBuild, Answer
<1>3. CASE r.document.role
  <2>1. req' = [req EXCEPT ![c] = q]
    BY <1>3, Split DEF SignAndBuild
  <2>2. now \in Nat /\ now + TokenLife \in Nat /\ now <= now + Latency
    BY <1>1, ConstantsAssumption DEF Kept
  <2>3. q \in Request /\ q.step = "load" /\ q.user = r.user /\ q.document.sought = r.document.sought
        /\ q.document.signed = now /\ q.document.exp = now + TokenLife
    BY <1>1, <2>2 DEF Request, Step, Document
  <2> HIDE DEF q
  <2>4. Sound(q)
    BY <1>1, <2>2, <2>3 DEF Sound
  <2> QED BY <1>1, <2>1, <2>4, RequestMoves
<1> QED BY <1>2, <1>3

LEMMA LoadResetStep == ASSUME IInv, NEW c \in Caller, LoadReset(c) PROVE IInv'
<1> DEFINE r == req[c]
           q == [r EXCEPT !.document.columns = Changed(r.user, r.document), !.step = "commit"]
<1>1. Kept /\ r \in Request /\ Sound(r) /\ r.step = "load" /\ requests' \in 0..MaxRequests
      /\ UNCHANGED <<now, synchronized, Tables, mails>>
  BY Split DEF LoadReset, Unchanged, Kept
<1>2. req' = [req EXCEPT ![c] = q]
  BY Split DEF LoadReset
<1>3. Changed(r.user, r.document) \in SUBSET {"deletedAt", "profile"}
  BY DEF Changed
<1>4. q \in Request /\ q.step = "commit" /\ q.user = r.user /\ q.document.sought = r.document.sought
      /\ q.document.signed = r.document.signed /\ q.document.exp = r.document.exp
  BY <1>1, <1>3 DEF Request, Step, Document
<1> HIDE DEF q
<1>5. Sound(q)
  BY <1>1, <1>4 DEF Sound
<1> QED BY <1>1, <1>2, <1>5, RequestMoves

(* The row inserted counts from now; the token was signed no longer than   *)
(* Latency ago.  Whoever else looks for a row has looked at fewer.         *)
LEMMA SaveResetStep == ASSUME IInv, NEW c \in Caller, SaveReset(c) PROVE IInv'
<1> DEFINE r == req[c]
           row == [user |-> r.user, exp |-> r.document.exp, created |-> now,
                   sought |-> r.document.sought]
           q == [Idle EXCEPT !.step = "mail", !.user = r.user, !.document.exp = r.document.exp]
<1>1. Kept /\ req \in [Caller -> Request] /\ (\A d \in Caller : Sound(req[d]))
      /\ r \in Request /\ Sound(r) /\ r.step = "commit" /\ r.user \in User
  BY Split DEF SaveReset, Sound
<1>2. UNCHANGED <<now, synchronized, roleless, requests, mails>>
  BY DEF SaveReset
<1>3. CASE ~synchronized
  <2>1. Respond(c, "500") /\ UNCHANGED <<resets, users>>
    BY <1>3 DEF SaveReset
  <2>2. requests' \in 0..MaxRequests /\ UNCHANGED <<now, synchronized, Tables, mails>>
    BY <1>1, <1>2, <2>1 DEF Kept, Tables
  <2> QED BY <2>1, <2>2, Responds DEF Answer
<1>4. CASE synchronized
  <2>1. resets' = Append(resets, row) /\ users' = [users EXCEPT ![r.user] = Restored(r.user, r.document)]
    BY <1>4 DEF SaveReset
  <2>2. /\ req' \in [Caller -> Request]
        /\ req'[c] = q
        /\ \A d \in Caller \ {c} :
             req'[d].step = req[d].step /\ req'[d].user = req[d].user /\ req'[d].document = req[d].document
    <3>1. req' = [d \in Caller |->
                 IF d = c THEN q
                 ELSE [req[d] EXCEPT !.stale = @ \/ (HasRead(d, r.user) /\ users' # users)]]
      BY <1>4 DEF SaveReset
    <3>2. q \in Request
      BY <1>1, IdleFacts DEF Request, Step, Document
    <3> HIDE DEF q
    <3>3. \A d \in Caller \ {c} : (req[d].stale \/ (HasRead(d, r.user) /\ users' # users)) \in BOOLEAN
      OBVIOUS
    <3> QED BY <1>1, <3>1, <3>2, <3>3 DEF Request
  <2>3. row \in ResetRow
    BY <1>1 DEF Request, Document, ResetRow, Kept
  <2>4. /\ resets' \in Seq(ResetRow) /\ Len(resets) \in Nat /\ Len(resets') = Len(resets) + 1
        /\ DOMAIN resets = 1..Len(resets) /\ DOMAIN resets' = 1..Len(resets)+1
        /\ \A i \in DOMAIN resets : i \in DOMAIN resets' /\ resets'[i] = resets[i]
        /\ Len(resets) + 1 \in DOMAIN resets' /\ resets'[Len(resets) + 1] = row
    BY <1>1, <2>1, <2>3, AppendProperties, LenProperties DEF Kept
  <2>5. users' \in [User -> UserRow]
    <3>1. Restored(r.user, r.document) \in UserRow
      BY <1>1 DEF Restored, UserRow, Kept, Request, Document
    <3> QED BY <1>1, <2>1, <3>1 DEF Kept
  <2>6. row.created <= now /\ row.created + RowLife <= row.exp
    BY <1>1, <2>3, ConstantsAssumption, LifeAssumption DEF Sound, Kept, Request, Document
  <2>7. \A i \in DOMAIN resets :
          resets[i].user = r.user /\ Fresh(resets[i]) => r.document.sought < i
    BY <1>1 DEF Sound
  <2> HIDE DEF row
  <2>8. (\A i \in DOMAIN resets :
          resets[i].created <= now /\ resets[i].created + RowLife <= resets[i].exp)'
    BY <1>1, <1>2, <2>4, <2>6 DEF Kept
  <2>9. MailedTokensAreKept'
    BY <1>1, <1>2, <2>4 DEF Kept, MailedTokensAreKept
  <2>10. OnlyOverlapDuplicates'
    <3> SUFFICES ASSUME NEW i \in DOMAIN resets', NEW j \in DOMAIN resets', i < j,
                        resets'[i].user = resets'[j].user,
                        resets'[j].created < resets'[i].created + RowLife
                 PROVE  resets'[j].sought < i
      BY DEF OnlyOverlapDuplicates
    <3>1. i \in DOMAIN resets
      BY <2>4
    <3>2. CASE j \in DOMAIN resets
      BY <1>1, <2>4, <3>1, <3>2 DEF Kept, OnlyOverlapDuplicates
    <3>3. CASE j = Len(resets) + 1
      <4>1. resets[i].user = r.user /\ now < resets[i].created + RowLife
            /\ resets'[j].sought = r.document.sought
        BY <2>4, <3>1, <3>3 DEF row
      <4> QED BY <2>7, <3>1, <4>1 DEF Fresh
    <3> QED BY <2>4, <3>2, <3>3
  <2>11. Kept'
    BY <1>1, <1>2, <2>4, <2>5, <2>8, <2>9, <2>10 DEF Kept
  <2>12. Sound(req[c])'
    <3>1. q.step = "mail" /\ q.user = r.user /\ q.document.exp = r.document.exp
      BY IdleFacts DEF Request, Document
    <3>2. resets'[Len(resets) + 1].user = r.user /\ resets'[Len(resets) + 1].exp = r.document.exp
      BY <2>4 DEF row
    <3> QED BY <1>1, <2>2, <2>4, <3>1, <3>2 DEF Sound
  <2>13. ASSUME NEW d \in Caller \ {c} PROVE Sound(req[d])'
    <3>1. Sound(req[d]) /\ req[d] \in Request
      BY <1>1
    <3>2. req[d].document.sought \in Nat
      BY <3>1 DEF Request, Document
    <3>3. req'[d] \in Request
      BY <2>2
    <3> QED BY <1>2, <2>2, <2>4, <3>1, <3>2, <3>3 DEF Sound, Fresh
  <2> QED BY <2>2, <2>11, <2>12, <2>13, SplitNext
<1> QED BY <1>3, <1>4

LEMMA SendMailStep == ASSUME IInv, NEW c \in Caller, SendMail(c) PROVE IInv'
<1> DEFINE r == req[c]
           mail == [user |-> r.user, exp |-> r.document.exp]
<1>1. Kept /\ req \in [Caller -> Request] /\ (\A d \in Caller : Sound(req[d]))
      /\ r \in Request /\ r.step = "mail" /\ r.user \in User
      /\ mails' = mails \cup {mail} /\ Respond(c, "201")
      /\ UNCHANGED <<now, synchronized, Tables, requests>>
  BY Split DEF SendMail, Sound
<1>2. UNCHANGED <<now, synchronized, users, roleless, resets, requests>>
  BY <1>1 DEF Tables
<1>3. mail \in [user : User, exp : Nat]
  BY <1>1 DEF Request, Document
<1>4. \E i \in DOMAIN resets : resets[i].user = r.user /\ resets[i].exp = r.document.exp
  BY <1>1 DEF Sound
<1>5. MailedTokensAreKept'
  BY <1>1, <1>2, <1>4 DEF Kept, MailedTokensAreKept
<1>6. Kept'
  BY <1>1, <1>2, <1>3, <1>5 DEF Kept, OnlyOverlapDuplicates
<1>7. Sound([Idle EXCEPT !.answer = "201"])
  BY AnsweredIsSound DEF Answer
<1> DEFINE q == [Idle EXCEPT !.answer = "201"]
<1>8. req' = [req EXCEPT ![c] = q] /\ Sound(q)
  BY <1>1, <1>7 DEF Respond
<1> HIDE DEF q
<1>9. \A d \in Caller : Sound(req'[d])
  BY <1>1, <1>8
<1>10. \A d \in Caller : Sound(req[d])'
  BY <1>2, <1>9 DEF Sound, Fresh
<1>11. req' \in [Caller -> Request]
  BY <1>1, <1>8 DEF Sound
<1> QED BY <1>6, <1>10, <1>11, SplitNext

----------------------------------------------------------------------------
(* Confirming. *)

LEMMA ConfirmDifferingStep == ASSUME IInv, NEW c \in Caller, ConfirmDiffering(c) PROVE IInv'
<1>1. Sound([Idle EXCEPT !.answer = "400"])
  BY AnsweredIsSound DEF Answer
<1> QED BY <1>1, Begins DEF ConfirmDiffering

LEMMA StartConfirmStep == ASSUME IInv, NEW c \in Caller, StartConfirm(c) PROVE IInv'
<1> PICK m \in mails :
      Begin(c, [Idle EXCEPT !.step = "verify", !.user = m.user, !.document.exp = m.exp])
  BY DEF StartConfirm
<1> DEFINE q == [Idle EXCEPT !.step = "verify", !.user = m.user, !.document.exp = m.exp]
<1>1. m.user \in User /\ m.exp \in Nat
  BY Split DEF Kept
<1>2. q \in Request /\ q.step = "verify" /\ q.user \in User
  BY <1>1, IdleFacts DEF Request, Step, Document
<1>3. Begin(c, q)
  OBVIOUS
<1> HIDE DEF q
<1>4. Sound(q)
  BY <1>2 DEF Sound
<1> QED BY <1>3, <1>4, Begins

(* A request that goes on to look for the user or the row of a confirmation*)
(* knows nothing of the tables yet.                                        *)
LEMMA GoesOn ==
  ASSUME IInv, NEW c \in Caller, NEW step \in {"user", "confirmed-row"}, Busy(c), Goto(c, step), Unchanged
  PROVE  IInv'
<1> DEFINE q == [req[c] EXCEPT !.step = step]
<1>1. Kept /\ req[c] \in Request /\ req[c].user \in User
  BY Split DEF Sound, Busy
<1>2. req' = [req EXCEPT ![c] = q]
  BY Split DEF Goto
<1>3. q \in Request /\ q.step = step /\ q.user \in User
  BY <1>1 DEF Request, Step
<1> HIDE DEF q
<1>4. Sound(q)
  BY <1>3 DEF Sound
<1> QED BY <1>1, <1>2, <1>4, RequestMoves DEF Unchanged, Kept

LEMMA Ends ==
  ASSUME IInv, NEW c \in Caller, NEW code \in Answer, Respond(c, code), Unchanged
  PROVE  IInv'
BY Responds DEF Unchanged, IInv, TypeOK

LEMMA VerifyTokenStep == ASSUME IInv, NEW c \in Caller, VerifyToken(c) PROVE IInv'
<1>1. CASE Accepted(req[c].document.exp)
  BY <1>1, GoesOn DEF VerifyToken, Busy
<1>2. CASE ~Accepted(req[c].document.exp)
  BY <1>2, Ends DEF VerifyToken, Answer
<1> QED BY <1>1, <1>2

LEMMA FindUserToConfirmStep == ASSUME IInv, NEW c \in Caller, FindUserToConfirm(c) PROVE IInv'
<1>1. CASE users[req[c].user].row = "live"
  BY <1>1, GoesOn DEF FindUserToConfirm, Busy
<1>2. CASE users[req[c].user].row # "live"
  BY <1>2, Ends DEF FindUserToConfirm, Answer
<1> QED BY <1>1, <1>2

LEMMA ConfirmEndsStep == ASSUME IInv, NEW c \in Caller, ConfirmEnds(c) PROVE IInv'
BY Ends DEF ConfirmEnds, Answer

----------------------------------------------------------------------------
(* What comes between two steps. *)

LEMMA DroppedStep == ASSUME IInv, NEW c \in Caller, Dropped(c) PROVE IInv'
BY Ends DEF Dropped, Answer

(* The clock waits for a token that is being saved; a row that counts after*)
(* a tick counted before it.                                               *)
LEMMA TickStep == ASSUME IInv, Tick PROVE IInv'
<1>1. Kept /\ req \in [Caller -> Request] /\ \A d \in Caller : Sound(req[d])
  BY Split
<1>2. now \in Nat /\ now' = now + 1 /\ now < MaxTime
      /\ UNCHANGED <<synchronized, users, roleless, resets, req, requests, mails>>
  BY <1>1, ConstantsAssumption DEF Tick, Tables, Kept
<1>3. \A i \in DOMAIN resets : resets[i] \in ResetRow
  BY <1>1 DEF Kept
<1>4. Kept'
  <2>1. now' \in 0..MaxTime
    BY <1>2, ConstantsAssumption
  <2>2. (\A i \in DOMAIN resets :
          resets[i].created <= now /\ resets[i].created + RowLife <= resets[i].exp)'
    BY <1>1, <1>2, <1>3 DEF Kept, ResetRow
  <2> QED BY <1>1, <1>2, <2>1, <2>2 DEF Kept, MailedTokensAreKept, OnlyOverlapDuplicates
<1>5. \A i \in DOMAIN resets : now' < resets[i].created + RowLife => Fresh(resets[i])
  BY <1>2, <1>3, ConstantsAssumption DEF ResetRow, Fresh
<1>6. ASSUME NEW d \in Caller PROVE Sound(req[d])'
  <2>1. Sound(req[d]) /\ req[d] \in Request
    BY <1>1
  <2>2. req[d].step \in {"load", "commit"} => now' <= req[d].document.signed + Latency
    BY <1>2, <2>1, ConstantsAssumption DEF Tick, Holding, Request, Document
  <2> QED BY <1>2, <1>5, <2>1, <2>2 DEF Sound, Fresh
<1> QED BY <1>1, <1>2, <1>4, <1>6, SplitNext

LEMMA UserChangesStep == ASSUME IInv, NEW u \in User, UserChanges(u) PROVE IInv'
<1>1. Kept /\ req \in [Caller -> Request] /\ \A d \in Caller : Sound(req[d])
  BY Split
<1>2. UNCHANGED <<now, synchronized, roleless, resets, requests, mails>>
  BY DEF UserChanges
<1>3. PICK r \in UserRow : users' = [users EXCEPT ![u] = r]
  BY DEF UserChanges
<1>4. Kept'
  BY <1>1, <1>2, <1>3 DEF Kept, MailedTokensAreKept, OnlyOverlapDuplicates
<1>5. req' = [c \in Caller |-> [req[c] EXCEPT !.stale = @ \/ HasRead(c, u)]]
  BY DEF UserChanges
<1>6. \A d \in Caller : /\ req'[d] \in Request /\ req'[d].step = req[d].step
                        /\ req'[d].user = req[d].user /\ req'[d].document = req[d].document
  <2>1. \A d \in Caller : (req[d].stale \/ HasRead(d, u)) \in BOOLEAN
    OBVIOUS
  <2> QED BY <1>1, <1>5, <2>1 DEF Request
<1>7. ASSUME NEW d \in Caller PROVE Sound(req[d])'
  BY <1>1, <1>2, <1>6 DEF Sound, Fresh
<1>8. req' \in [Caller -> Request]
  BY <1>5, <1>6
<1> QED BY <1>4, <1>7, <1>8, SplitNext

(* Neither the clock, nor a row, nor a request moves. *)
LEMMA NothingMoves ==
  ASSUME IInv, roleless' \subseteq User,
         UNCHANGED <<now, synchronized, users, resets, req, requests, mails>>
  PROVE  IInv'
<1>1. Kept /\ req \in [Caller -> Request] /\ \A d \in Caller : Sound(req[d])
  BY Split
<1>2. Kept'
  BY <1>1 DEF Kept, MailedTokensAreKept, OnlyOverlapDuplicates
<1>3. \A d \in Caller : Sound(req[d])'
  BY <1>1 DEF Sound, Fresh
<1> QED BY <1>1, <1>2, <1>3, SplitNext

LEMMA RolesGoStep == ASSUME IInv, NEW u \in User, RolesGo(u) PROVE IInv'
BY NothingMoves DEF RolesGo, IInv, TypeOK

LEMMA StepKeepsIInv == IInv /\ [Next]_vars => IInv'
<1> SUFFICES ASSUME IInv, [Next]_vars PROVE IInv'
  OBVIOUS
<1>1. ASSUME NEW c \in Caller, SendEmail(c) PROVE IInv'
  BY <1>1, StartSendEmailStep, FindUserByEmailStep, FindResetStep, SignAndBuildStep, LoadResetStep,
     SaveResetStep, SendMailStep DEF SendEmail
<1>2. ASSUME NEW c \in Caller, Confirm(c) PROVE IInv'
  BY <1>2, ConfirmDifferingStep, StartConfirmStep, VerifyTokenStep, FindUserToConfirmStep,
     ConfirmEndsStep DEF Confirm
<1>3. ASSUME NEW c \in Caller, Dropped(c) PROVE IInv'
  BY <1>3, DroppedStep
<1>4. ASSUME NEW u \in User, UserChanges(u) \/ RolesGo(u) PROVE IInv'
  BY <1>4, UserChangesStep, RolesGoStep
<1>5. CASE Tick
  BY <1>5, TickStep
<1>6. CASE UNCHANGED vars
  BY <1>6, NothingMoves DEF vars, Tables, IInv, TypeOK
<1> QED BY <1>1, <1>2, <1>3, <1>4, <1>5, <1>6 DEF Next

(* IInv holds in every state of every behaviour. *)
THEOREM Inductive == Spec => []IInv
<1>1. Init => IInv
  BY InitIInv
<1>2. IInv /\ [Next]_vars => IInv'
  BY StepKeepsIInv
<1> QED BY <1>1, <1>2, PTL DEF Spec

(* Every variable keeps its type. *)
THEOREM TypeCorrect == Spec => []TypeOK
<1>1. IInv => TypeOK
  BY DEF IInv
<1> QED BY <1>1, Inductive, PTL

(* The token of a row that still counts is accepted: the row outlives      *)
(* neither its token nor the time the token was held before it was saved.  *)
THEOREM CountedTokensWork == Spec => []FreshRowsAreUsable
<1>1. IInv => FreshRowsAreUsable
  <2> SUFFICES ASSUME IInv, NEW i \in DOMAIN resets, Fresh(resets[i]) PROVE Accepted(resets[i].exp)
    BY DEF FreshRowsAreUsable
  <2>1. resets[i] \in ResetRow /\ now \in Nat
    BY ConstantsAssumption DEF IInv, TypeOK
  <2>2. resets[i].created + RowLife <= resets[i].exp /\ now < resets[i].created + RowLife
    BY DEF IInv, Fresh
  <2> QED BY <2>1, <2>2, ConstantsAssumption DEF ResetRow, Accepted
<1> QED BY <1>1, Inductive, PTL

(* Every token mailed has a row of its user, whatever failed.              *)
THEOREM MailsHaveRows == Spec => []MailedTokensAreKept
<1>1. IInv => MailedTokensAreKept
  BY DEF IInv
<1> QED BY <1>1, Inductive, PTL

(* Two rows of one user count at the same time only if the second request  *)
(* had looked before the first row was inserted.                           *)
THEOREM DuplicatesOverlap == Spec => []OnlyOverlapDuplicates
<1>1. IInv => OnlyOverlapDuplicates
  BY DEF IInv
<1> QED BY <1>1, Inductive, PTL

----------------------------------------------------------------------------
(* What a request that has read its user, and whose user has not changed   *)
(* since, knows of the user's row: saving finds no column that differs.    *)

Current(q) ==
  q.step \in {"row", "entity", "load", "commit"} /\ ~q.stale =>
    /\ users[q.user].row = "live"
    /\ users[q.user].profile = q.document.profile
    /\ q.step = "commit" => q.document.columns = {}
AllCurrent == \A c \in Caller : Current(req[c])

LEMMA OthersCurrent ==
  ASSUME IInv, AllCurrent, NEW c \in Caller, NEW q, Current(q), req' = [req EXCEPT ![c] = q], users' = users
  PROVE  AllCurrent'
<1>1. \A d \in Caller : Current(req'[d])
  BY Split DEF AllCurrent
<1> QED BY <1>1 DEF AllCurrent, Current

LEMMA RespondCurrent ==
  ASSUME IInv, AllCurrent, NEW c \in Caller, NEW code \in Answer, Respond(c, code), users' = users
  PROVE  AllCurrent'
<1> DEFINE q == [Idle EXCEPT !.answer = code]
<1>1. q.step = "idle" /\ req' = [req EXCEPT ![c] = q]
  BY IdleFacts DEF Request, Respond
<1> HIDE DEF q
<1> QED BY <1>1, OthersCurrent DEF Current

LEMMA SendEmailCurrent == ASSUME IInv, AllCurrent, NEW c \in Caller, SendEmail(c) PROVE AllCurrent'
<1> DEFINE r == req[c]
<1>1. r \in Request /\ (r.step # "idle" => r.user \in User) /\ users \in [User -> UserRow] /\ Current(r)
      /\ Len(resets) \in Nat
  BY Split, LenProperties DEF Sound, Kept, AllCurrent
<1>2. CASE StartSendEmail(c)
  <2> PICK u \in User : Begin(c, [Idle EXCEPT !.step = "email", !.user = u])
    BY <1>2 DEF StartSendEmail
  <2> DEFINE q == [Idle EXCEPT !.step = "email", !.user = u]
  <2>1. q.step = "email" /\ req' = [req EXCEPT ![c] = q] /\ users' = users
    BY IdleFacts DEF Request, Begin, Tables
  <2> HIDE DEF q
  <2> QED BY <2>1, OthersCurrent DEF Current
<1>3. CASE FindUserByEmail(c)
  <2>0. users' = users /\ r.step = "email" /\ r.user \in User
    BY <1>1, <1>3 DEF FindUserByEmail, Unchanged, Tables
  <2>1. CASE users[r.user].row = "deleted"
    BY <1>3, <2>0, <2>1, RespondCurrent DEF FindUserByEmail, Answer
  <2>2. CASE users[r.user].row # "deleted"
    <3> DEFINE q == [r EXCEPT !.step = "row", !.document.profile = users[r.user].profile,
                              !.document.role = r.user \notin roleless]
    <3>1. req' = [req EXCEPT ![c] = q]
      BY <1>3, <2>2, Split DEF FindUserByEmail
    <3>2. q.step = "row" /\ q.user = r.user /\ q.document.profile = users[r.user].profile
      BY <1>1 DEF Request, Document
    <3>3. users[r.user].row = "live"
      BY <1>1, <2>0, <2>2 DEF UserRow
    <3> HIDE DEF q
    <3> QED BY <2>0, <3>1, <3>2, <3>3, OthersCurrent DEF Current
  <2> QED BY <2>1, <2>2
<1>4. CASE FindReset(c)
  <2>0. users' = users /\ r.step = "row"
    BY <1>4 DEF FindReset, Unchanged, Tables
  <2>1. ASSUME NEW i \in FreshRowsOf(r.user),
               req' = [req EXCEPT ![c] = [Idle EXCEPT !.step = "mail", !.user = r.user,
                                                      !.document.exp = resets[i].exp]]
        PROVE  AllCurrent'
    <3> DEFINE q == [Idle EXCEPT !.step = "mail", !.user = r.user, !.document.exp = resets[i].exp]
    <3>1. q.step = "mail" /\ req' = [req EXCEPT ![c] = q]
      BY <2>1, IdleFacts DEF Request
    <3> HIDE DEF q
    <3> QED BY <2>0, <3>1, OthersCurrent DEF Current
  <2>2. CASE req' = [req EXCEPT ![c].step = "entity", ![c].document.sought = Len(resets)]
    <3> DEFINE q == [r EXCEPT !.step = "entity", !.document.sought = Len(resets)]
    <3>1. req' = [req EXCEPT ![c] = q]
      BY <2>2, Split
    <3>2. q.step = "entity" /\ q.user = r.user /\ q.document.profile = r.document.profile /\ q.stale = r.stale
      BY <1>1 DEF Request, Document
    <3> HIDE DEF q
    <3> QED BY <1>1, <2>0, <3>1, <3>2, OthersCurrent DEF Current
  <2> QED BY <1>4, <2>1, <2>2 DEF FindReset
<1>5. CASE SignAndBuild(c)
  <2>0. users' = users /\ r.step = "entity"
    BY <1>5 DEF SignAndBuild, Unchanged, Tables
  <2>1. CASE ~r.document.role
    BY <1>5, <2>0, <2>1, RespondCurrent DEF SignAndBuild, Answer
  <2>2. CASE r.document.role
    <3> DEFINE q == [r EXCEPT !.step = "load", !.document.signed = now, !.document.exp = now + TokenLife]
    <3>1. req' = [req EXCEPT ![c] = q]
      BY <1>5, <2>2, Split DEF SignAndBuild
    <3>2. q.step = "load" /\ q.user = r.user /\ q.document.profile = r.document.profile /\ q.stale = r.stale
      BY <1>1 DEF Request, Document
    <3> HIDE DEF q
    <3> QED BY <1>1, <2>0, <3>1, <3>2, OthersCurrent DEF Current
  <2> QED BY <2>1, <2>2
<1>6. CASE LoadReset(c)
  <2> DEFINE q == [r EXCEPT !.document.columns = Changed(r.user, r.document), !.step = "commit"]
  <2>0. users' = users /\ r.step = "load"
    BY <1>6 DEF LoadReset, Unchanged, Tables
  <2>1. req' = [req EXCEPT ![c] = q]
    BY <1>6, Split DEF LoadReset
  <2>2. q.step = "commit" /\ q.user = r.user /\ q.document.profile = r.document.profile /\ q.stale = r.stale
        /\ q.document.columns = Changed(r.user, r.document)
    BY <1>1 DEF Request, Document
  <2>3. ~r.stale => Changed(r.user, r.document) = {}
    BY <1>1, <2>0 DEF Current, Changed
  <2> HIDE DEF q
  <2> QED BY <1>1, <2>0, <2>1, <2>2, <2>3, OthersCurrent DEF Current
<1>7. CASE SaveReset(c)
  <2>1. CASE ~synchronized
    BY <1>7, <2>1, RespondCurrent DEF SaveReset, Answer
  <2>2. CASE synchronized
    <3> DEFINE q == [Idle EXCEPT !.step = "mail", !.user = r.user, !.document.exp = r.document.exp]
    <3>1. req' = [d \in Caller |->
             IF d = c THEN q
             ELSE [req[d] EXCEPT !.stale = @ \/ (HasRead(d, r.user) /\ users' # users)]]
      BY <1>7, <2>2 DEF SaveReset
    <3>2. q.step = "mail"
      BY IdleFacts DEF Request
    <3>3. users' = [users EXCEPT ![r.user] = Restored(r.user, r.document)] /\ r.user \in User
      BY <1>1, <1>7, <2>2 DEF SaveReset
    <3> HIDE DEF q
    <3>4. ASSUME NEW d \in Caller \ {c} PROVE Current(req[d])'
      <4>1. req[d] \in Request /\ Current(req[d]) /\ (req[d].step # "idle" => req[d].user \in User)
        BY Split DEF AllCurrent, Sound
      <4> DEFINE s == req[d].stale \/ (HasRead(d, r.user) /\ users' # users)
      <4>2. req'[d] = [req[d] EXCEPT !.stale = s]
        BY <3>1
      <4> HIDE DEF s
      <4>3. req'[d].step = req[d].step /\ req'[d].user = req[d].user
            /\ req'[d].document = req[d].document /\ req'[d].stale = s
        BY <4>1, <4>2 DEF Request
      <4>4. ~s /\ req[d].step \in {"row", "entity", "load", "commit"} =>
              ~req[d].stale /\ users'[req[d].user] = users[req[d].user]
        BY <1>1, <3>3, <4>1 DEF HasRead, s
      <4> QED BY <4>1, <4>3, <4>4 DEF Current
    <3>5. Current(req[c])'
      BY <3>1, <3>2 DEF Current
    <3> QED BY <3>4, <3>5 DEF AllCurrent
  <2> QED BY <2>1, <2>2
<1>8. CASE SendMail(c)
  BY <1>8, RespondCurrent DEF SendMail, Tables, Answer
<1> QED BY <1>2, <1>3, <1>4, <1>5, <1>6, <1>7, <1>8 DEF SendEmail

LEMMA GotoCurrent ==
  ASSUME IInv, AllCurrent, NEW c \in Caller, NEW step \in {"user", "confirmed-row"}, Goto(c, step), users' = users
  PROVE  AllCurrent'
<1> DEFINE q == [req[c] EXCEPT !.step = step]
<1>1. req' = [req EXCEPT ![c] = q] /\ q.step = step
  BY Split DEF Goto, Request
<1> HIDE DEF q
<1> QED BY <1>1, OthersCurrent DEF Current

LEMMA ConfirmCurrent == ASSUME IInv, AllCurrent, NEW c \in Caller, Confirm(c) PROVE AllCurrent'
<1>0. users' = users
  BY DEF Confirm, ConfirmDiffering, StartConfirm, VerifyToken, FindUserToConfirm, ConfirmEnds,
         Begin, Unchanged, Tables
<1>1. CASE ConfirmDiffering(c)
  BY <1>0, <1>1, RespondCurrent DEF ConfirmDiffering, Begin, Respond, Answer
<1>2. CASE StartConfirm(c)
  <2> PICK m \in mails :
        Begin(c, [Idle EXCEPT !.step = "verify", !.user = m.user, !.document.exp = m.exp])
    BY <1>2 DEF StartConfirm
  <2> DEFINE q == [Idle EXCEPT !.step = "verify", !.user = m.user, !.document.exp = m.exp]
  <2>1. q.step = "verify" /\ req' = [req EXCEPT ![c] = q]
    BY IdleFacts DEF Request, Begin
  <2> HIDE DEF q
  <2> QED BY <1>0, <2>1, OthersCurrent DEF Current
<1>3. CASE VerifyToken(c)
  BY <1>0, <1>3, GotoCurrent, RespondCurrent DEF VerifyToken, Answer
<1>4. CASE FindUserToConfirm(c)
  BY <1>0, <1>4, GotoCurrent, RespondCurrent DEF FindUserToConfirm, Answer
<1>5. CASE ConfirmEnds(c)
  BY <1>0, <1>5, RespondCurrent DEF ConfirmEnds, Answer
<1> QED BY <1>1, <1>2, <1>3, <1>4, <1>5 DEF Confirm

LEMMA UserChangesCurrent == ASSUME IInv, AllCurrent, NEW u \in User, UserChanges(u) PROVE AllCurrent'
<1> SUFFICES ASSUME NEW d \in Caller PROVE Current(req[d])'
  BY DEF AllCurrent
<1> DEFINE s == req[d].stale \/ HasRead(d, u)
<1>1. req[d] \in Request /\ Current(req[d]) /\ (req[d].step # "idle" => req[d].user \in User)
      /\ users \in [User -> UserRow]
  BY Split DEF AllCurrent, Sound, Kept
<1>2. req'[d] = [req[d] EXCEPT !.stale = s]
  BY DEF UserChanges
<1>3. PICK r \in UserRow : users' = [users EXCEPT ![u] = r]
  BY DEF UserChanges
<1> HIDE DEF s
<1>4. req'[d].step = req[d].step /\ req'[d].user = req[d].user
      /\ req'[d].document = req[d].document /\ req'[d].stale = s
  BY <1>1, <1>2 DEF Request
<1>5. ~s /\ req[d].step \in {"row", "entity", "load", "commit"} =>
        ~req[d].stale /\ users'[req[d].user] = users[req[d].user]
  BY <1>1, <1>3 DEF HasRead, s
<1> QED BY <1>1, <1>4, <1>5 DEF Current

LEMMA StepKeepsCurrent == IInv /\ AllCurrent /\ [Next]_vars => AllCurrent'
<1> SUFFICES ASSUME IInv, AllCurrent, [Next]_vars PROVE AllCurrent'
  OBVIOUS
<1>1. ASSUME NEW c \in Caller, SendEmail(c) \/ Confirm(c) PROVE AllCurrent'
  BY <1>1, SendEmailCurrent, ConfirmCurrent
<1>2. ASSUME NEW c \in Caller, Dropped(c) PROVE AllCurrent'
  BY <1>2, RespondCurrent DEF Dropped, Unchanged, Tables, Answer
<1>3. ASSUME NEW u \in User, UserChanges(u) PROVE AllCurrent'
  BY <1>3, UserChangesCurrent
<1>4. CASE UNCHANGED <<users, req>>
  BY <1>4 DEF AllCurrent, Current
<1> QED BY <1>1, <1>2, <1>3, <1>4 DEF Next, RolesGo, Tick, Tables, vars

LEMMA InitCurrent == Init => AllCurrent
BY IdleFacts DEF Init, AllCurrent, Current

(* A reset that is saved changes its user only if the user had changed     *)
(* since it was read: with no such change the cascade has nothing to write.*)
THEOREM CascadeOnlyTakesBack == Spec => OnlyStaleResetsRevert
<1> DEFINE A == \A c \in Caller : req[c].step = "commit" /\ req'[c].step = "mail" =>
                  (users' # users => req[c].stale)
<1>1. IInv /\ AllCurrent /\ [Next]_vars => [A]_vars
  <2> SUFFICES ASSUME IInv, AllCurrent, Next, NEW c \in Caller, req[c].step = "commit",
                      req'[c].step = "mail", ~req[c].stale
               PROVE  users' = users
    OBVIOUS
  <2>1. Kept /\ req \in [Caller -> Request] /\ req[c].user \in User /\ Current(req[c])
    BY Split DEF Sound, AllCurrent
  <2>2. CASE SaveReset(c)
    <3>1. req[c].document.columns = {}
      BY <2>1 DEF Current
    <3>2. Restored(req[c].user, req[c].document) = users[req[c].user]
      BY <2>1, <3>1 DEF Restored, Kept, UserRow
    <3> QED BY <2>1, <2>2, <3>2 DEF SaveReset, Kept
  <2>3. ASSUME NEW d \in Caller, d # c, SaveReset(d) PROVE FALSE
    <3>1. req'[c].step = req[c].step
      BY <2>1, <2>3, IdleFacts DEF SaveReset, Respond, Request
    <3> QED BY <3>1
  <2>4. ASSUME NEW u \in User, UserChanges(u) PROVE FALSE
    <3>1. req'[c].step = req[c].step
      BY <2>1, <2>4 DEF UserChanges, Request
    <3> QED BY <3>1
  <2>5. ASSUME NEW d \in Caller, SendEmail(d) \/ Confirm(d) \/ Dropped(d), ~SaveReset(d)
        PROVE  users' = users
    BY <2>5 DEF SendEmail, Confirm, Dropped, StartSendEmail, FindUserByEmail, FindReset, SignAndBuild,
       LoadReset, SendMail, ConfirmDiffering, StartConfirm, VerifyToken, FindUserToConfirm,
       ConfirmEnds, Begin, Unchanged, Tables
  <2>6. ASSUME NEW u \in User, RolesGo(u) PROVE users' = users
    BY <2>6 DEF RolesGo
  <2>7. CASE Tick
    BY <2>7 DEF Tick, Tables
  <2> QED BY <2>2, <2>3, <2>4, <2>5, <2>6, <2>7 DEF Next
<1>2. Spec => []AllCurrent
  BY InitCurrent, StepKeepsCurrent, Inductive, PTL DEF Spec
<1>3. Spec => [][A]_vars
  BY <1>1, <1>2, Inductive, PTL DEF Spec
<1> QED BY <1>3 DEF OnlyStaleResetsRevert
=============================================================================
