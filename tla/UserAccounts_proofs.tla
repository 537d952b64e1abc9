------------------------ MODULE UserAccounts_proofs ------------------------
(***************************************************************************)
(* In every behaviour of UserAccounts, coordinated or not and however many *)
(* requests are dropped, a user has an account of its own and a welcome    *)
(* mail a user to greet.  IInv is inductive: most actions only advance a   *)
(* request and share the lemma RequestAdvances; those that write a table   *)
(* have a lemma each.                                                      *)
(*                                                                         *)
(* A request that holds a user nobody has changed since it was read knows  *)
(* it as it is (AllCurrent, inductive with IInv), so that its save takes   *)
(* nothing back.  When moreover no two requests in flight work on one user *)
(* (CInv, inductive too), answers are true and all requests together       *)
(* implement UserDirectory.                                                *)
(***************************************************************************)
EXTENDS UserAccounts, FiniteSetTheorems, TLAPS

LEMMA RowFacts ==
  /\ NoAccount \notin AccountRow /\ NoUser \notin UserRow
  /\ NoUser.row = "absent" /\ NoUser.account = NoId
  /\ NoAccount.email = NoName
BY ConstantsAssumption DEF NoAccount, NoUser, AccountRow, UserRow

LEMMA IdleFacts ==
  /\ Idle \in Request /\ Idle.op = "none" /\ Idle.step = "idle"
  /\ \A code \in Answer : [Idle EXCEPT !.answer = code] \in Request
BY ConstantsAssumption DEF Idle, Request, NoProfile, Step, Answer

(* The seeds of the migrations satisfy the invariant. *)
LEMMA InitIInv == Init => IInv
<1> SUFFICES ASSUME Init PROVE IInv
  OBVIOUS
<1> USE ConstantsAssumption, SeedAssumption, IdleFacts DEF Init
<1>1. TypeOK
  BY DEF TypeOK
<1>2. OneUserPerAccount
  BY DEF OneUserPerAccount, UserExists, AccountExists
<1>3. WelcomeIsForUsers /\ OwnRows /\ \A c \in Caller : DocumentOf(req[c])
  BY DEF WelcomeIsForUsers, OwnRows, DocumentOf
<1> QED BY <1>1, <1>2, <1>3 DEF IInv

(* A step that leaves the tables alone and replaces one caller's request   *)
(* keeps the invariant when the new one is well formed, its rows are its   *)
(* own, and an account it leaves without a user is on record.              *)
LEMMA RequestAdvances ==
  ASSUME IInv, NEW c \in Caller, NEW q \in Request,
         req' = [req EXCEPT ![c] = q],
         UNCHANGED <<accounts, users, liveRoles>>,
         requests' \in 0..MaxRequests,
         DocumentOf(q),
         q.op = "user-create" =>
           \/ req[c].op = "user-create" /\ q.account = req[c].account /\ q.user = req[c].user
           \/ q.account \in FreshAccount /\ q.user \in FreshUser,
         abandoned \subseteq abandoned', abandoned' \subseteq Account,
         req[c].step = "user" => req[c].account \in abandoned',
         welcomed' \subseteq Email,
         \A e \in welcomed' \ welcomed :
            \E u \in User : UserExists(u) /\ accounts[users[u].account].email = e
  PROVE IInv'
<1>1. TypeOK'
  BY DEF IInv, TypeOK
<1>2. OneUserPerAccount'
  BY DEF IInv, TypeOK, OneUserPerAccount, UserExists, AccountExists
<1>3. WelcomeIsForUsers'
  BY DEF IInv, WelcomeIsForUsers, UserExists
<1>4. (\A d \in Caller : DocumentOf(req[d]))'
  <2> SUFFICES ASSUME NEW d \in Caller PROVE DocumentOf(req[d])'
    OBVIOUS
  <2>1. req'[d] = IF d = c THEN q ELSE req[d]
    BY DEF IInv, TypeOK
  <2>2. DocumentOf(req'[d])
    BY <2>1 DEF IInv
  <2> QED BY <2>2 DEF DocumentOf, CreateDocument, ChangeDocument, AccountExists, UserExists
<1>5. OwnRows'
  BY DEF IInv, TypeOK, OwnRows, FreshAccount, FreshUser
<1> QED BY <1>1, <1>2, <1>3, <1>4, <1>5 DEF IInv

LEMMA RespondKeeps ==
  ASSUME IInv, NEW c \in Caller, NEW code \in Answer, Respond(c, code), req[c].step # "user",
         UNCHANGED <<accounts, users, liveRoles, requests, abandoned, welcomed>>
  PROVE IInv'
<1>1. DocumentOf([Idle EXCEPT !.answer = code]) /\ [Idle EXCEPT !.answer = code].op = "none"
  BY DEF DocumentOf, Idle
<1>2. abandoned \subseteq Account /\ welcomed \subseteq Email /\ requests \in 0..MaxRequests
  BY DEF IInv, TypeOK
<1> QED BY <1>1, <1>2, IdleFacts, RequestAdvances DEF Respond

LEMMA StartKeeps ==
  ASSUME IInv, NEW c \in Caller, Start(c) PROVE IInv'
<1> USE ConstantsAssumption
<1>1. \E s \in Request : /\ Begin(c, s) /\ DocumentOf(s)
                         /\ s.op = "user-create" => s.account \in FreshAccount /\ s.user \in FreshUser
  <2>1. CASE StartUserCreate(c)
    <3>1. PICK a \in FreshAccount, u \in FreshUser, e \in Email, n \in Username, x \in Entered(Required) :
            Begin(c, [Idle EXCEPT !.op = "user-create", !.step = "roles", !.account = a, !.user = u,
                                  !.email = e, !.username = n, !.profile = x])
      BY <2>1 DEF StartUserCreate
    <3> DEFINE s == [Idle EXCEPT !.op = "user-create", !.step = "roles", !.account = a, !.user = u,
                                 !.email = e, !.username = n, !.profile = x]
    <3>2. s \in Request
      BY IdleFacts DEF Idle, Request, FreshAccount, FreshUser, Entered, Op, Step
    <3>3. DocumentOf(s) /\ s.account = a /\ s.user = u
      BY DEF Idle, DocumentOf, CreateDocument, FreshAccount, FreshUser
    <3> QED BY <3>1, <3>2, <3>3
  <2>2. CASE StartUserUpdate(c)
    <3>1. PICK u \in User, columns \in SUBSET Column : \E x \in Entered(columns) :
            Begin(c, [Idle EXCEPT !.op = "user-update", !.step = "read", !.user = u,
                                  !.sent = columns, !.profile = x])
      BY <2>2 DEF StartUserUpdate
    <3>2. PICK x \in Entered(columns) :
            Begin(c, [Idle EXCEPT !.op = "user-update", !.step = "read", !.user = u,
                                  !.sent = columns, !.profile = x])
      BY <3>1
    <3> DEFINE s == [Idle EXCEPT !.op = "user-update", !.step = "read", !.user = u,
                                 !.sent = columns, !.profile = x]
    <3>3. s \in Request
      BY IdleFacts DEF Idle, Request, Entered, Op, Step
    <3>4. DocumentOf(s) /\ s.op # "user-create"
      BY DEF Idle, DocumentOf, ChangeDocument, Op
    <3> QED BY <3>2, <3>3, <3>4
  <2>3. CASE StartUserDelete(c) \/ StartChangePassword(c) \/ StartSendEmail(c)
    <3>1. PICK u \in User, op \in {"user-delete", "user-change-password", "reset-password-send-email"} :
            Begin(c, [Idle EXCEPT !.op = op, !.step = "read", !.user = u])
      BY <2>3 DEF StartUserDelete, StartChangePassword, StartSendEmail
    <3> DEFINE s == [Idle EXCEPT !.op = op, !.step = "read", !.user = u]
    <3>0. /\ s \in Request /\ s.op = op /\ s.step = "read" /\ s.user = u /\ s.account = NoId
          /\ s.sent = {}
      BY IdleFacts DEF Idle, Request, Op, Step
    <3> HIDE DEF s
    <3>2. s \in Request /\ DocumentOf(s) /\ s.op # "user-create"
      BY <3>0 DEF Op, DocumentOf, ChangeDocument
    <3> QED BY <3>1, <3>2 DEF s
  <2> QED BY <2>1, <2>2, <2>3 DEF Start
<1>2. PICK s \in Request : /\ Begin(c, s) /\ DocumentOf(s)
                           /\ s.op = "user-create" => s.account \in FreshAccount /\ s.user \in FreshUser
  BY <1>1
<1>3. /\ req[c].step = "idle" /\ req' = [req EXCEPT ![c] = s]
      /\ UNCHANGED <<accounts, users, liveRoles, abandoned, welcomed>>
      /\ requests' \in 0..MaxRequests /\ abandoned \subseteq Account /\ welcomed \subseteq Email
  BY <1>2 DEF Begin, Busy, Tables, IInv, TypeOK
<1> QED BY <1>2, <1>3, RequestAdvances

(* The reads of user-create advance its document. *)
LEMMA LookupKeeps ==
  ASSUME IInv, NEW c \in Caller, FindRoles(c) \/ FindEmail(c) \/ FindUsername(c) \/ AccountRejected(c)
  PROVE IInv'
<1>1. CreateDocument(req[c]) /\ req[c].step # "user" /\ req[c] \in Request
  BY DEF FindRoles, FindEmail, FindUsername, AccountRejected, IInv, TypeOK, DocumentOf, ChangeDocument
<1>2. UNCHANGED <<accounts, users, liveRoles, requests, abandoned, welcomed>>
  BY DEF FindRoles, FindEmail, FindUsername, AccountRejected, Tables, History
<1>3. abandoned \subseteq Account /\ welcomed \subseteq Email /\ requests \in 0..MaxRequests
      /\ liveRoles \subseteq Role
  BY DEF IInv, TypeOK
<1>4. CASE \E code \in Answer : Respond(c, code)
  BY <1>1, <1>2, <1>4, RespondKeeps
<1>5. ASSUME NEW found \in SUBSET Role, found # {}, req[c].step = "roles",
             req' = [req EXCEPT ![c].step = "email", ![c].roles = found]
      PROVE IInv'
  <2> DEFINE q == [req[c] EXCEPT !.step = "email", !.roles = found]
  <2>1. req' = [req EXCEPT ![c] = q] /\ q \in Request
    BY <1>1, <1>5 DEF Request, Step, IInv, TypeOK
  <2>2. DocumentOf(q) /\ q.account = req[c].account /\ q.user = req[c].user /\ req[c].op = "user-create"
    BY <1>1, <1>5 DEF DocumentOf, CreateDocument, Request
  <2> QED BY <1>1, <1>2, <1>3, <2>1, <2>2, RequestAdvances
<1>6. ASSUME NEW step \in {"username", "account"}, req[c].step \in {"email", "username"},
             Goto(c, step)
      PROVE IInv'
  <2> DEFINE q == [req[c] EXCEPT !.step = step]
  <2>1. req' = [req EXCEPT ![c] = q] /\ q \in Request
    BY <1>1, <1>6 DEF Goto, Request, Step, IInv, TypeOK
  <2>2. DocumentOf(q) /\ q.account = req[c].account /\ q.user = req[c].user /\ req[c].op = "user-create"
    BY <1>1, <1>6 DEF DocumentOf, CreateDocument, Request
  <2> QED BY <1>1, <1>2, <1>3, <2>1, <2>2, RequestAdvances
<1>7. CASE FindRoles(c)
  <2>1. PICK asked \in RoleList :
          LET found == {asked[i] : i \in DOMAIN asked} \cap liveRoles IN
          IF Cardinality(found) < Len(asked)
            THEN Respond(c, "404")
            ELSE req' = [req EXCEPT ![c].step = "email", ![c].roles = found]
    BY <1>7 DEF FindRoles
  <2> DEFINE found == {asked[i] : i \in DOMAIN asked} \cap liveRoles
  <2>2. asked \in Seq(Role) /\ asked # <<>>
    BY ConstantsAssumption
  <2>3. Len(asked) \in Nat /\ Len(asked) > 0
    BY <2>2
  <2>4. CASE Cardinality(found) < Len(asked)
    BY <1>4, <2>1, <2>4 DEF Answer
  <2>5. CASE ~(Cardinality(found) < Len(asked))
    <3>1. Cardinality({}) = 0
      BY FS_EmptySet
    <3>2. found # {}
      BY <2>3, <2>5, <3>1
    <3> QED BY <1>3, <1>5, <1>7, <2>1, <2>5, <3>2 DEF FindRoles
  <2> QED BY <2>4, <2>5
<1>8. CASE FindEmail(c) \/ FindUsername(c) \/ AccountRejected(c)
  BY <1>4, <1>6, <1>8 DEF FindEmail, FindUsername, AccountRejected, Answer
<1> QED BY <1>7, <1>8

(* What a running user-create knows of its rows. *)
LEMMA CreatingRequest ==
  ASSUME IInv, NEW c \in Caller, req[c].step \in {"account", "user", "welcome"}
  PROVE CreateDocument(req[c]) /\ req[c] \in Request
BY DEF IInv, TypeOK, DocumentOf, ChangeDocument

LEMMA InsertAccountKeeps ==
  ASSUME IInv, NEW c \in Caller, InsertAccount(c) PROVE IInv'
<1> DEFINE q == req[c]
<1> USE RowFacts
<1>1. CreateDocument(q) /\ q \in Request /\ q.step = "account"
  BY CreatingRequest DEF InsertAccount
<1>2. /\ accounts' = [accounts EXCEPT ![q.account] =
                        [email |-> q.email, username |-> q.username, roles |-> q.roles]]
      /\ req' = [req EXCEPT ![c].step = "user"]
      /\ UNCHANGED <<users, liveRoles, requests, abandoned, welcomed>>
  BY DEF InsertAccount, Goto, History
<1>3. /\ q.account \in Account /\ accounts[q.account] = NoAccount
      /\ [email |-> q.email, username |-> q.username, roles |-> q.roles] \in AccountRow
  BY <1>1 DEF CreateDocument, AccountExists, AccountRow, Request
<1>4. req'[c] = [q EXCEPT !.step = "user"] /\ \A d \in Caller \ {c} : req'[d] = req[d]
  BY <1>2 DEF IInv, TypeOK
<1>5. [q EXCEPT !.step = "user"] \in Request
  BY <1>1 DEF Request, Step
<1>6. TypeOK'
  BY <1>2, <1>3, <1>5 DEF IInv, TypeOK
<1>7. \A u \in User : users[u].account # q.account
  BY <1>3, ConstantsAssumption DEF IInv, TypeOK, OneUserPerAccount, UserExists, AccountExists, UserRow
<1>8. \A a \in Account : a # q.account => accounts'[a] = accounts[a]
  BY <1>2 DEF IInv, TypeOK
<1>9. OneUserPerAccount'
  <2>1. ASSUME NEW u \in User, UserExists(u)' PROVE AccountExists(users[u].account)'
    BY <1>2, <1>7, <1>8, <2>1 DEF IInv, TypeOK, OneUserPerAccount, UserExists, AccountExists, UserRow
  <2>2. ASSUME NEW a \in Account, AccountExists(a)', a # q.account
        PROVE \/ \E u \in User : users'[u].account = a
              \/ \E d \in Caller : req'[d].step = "user" /\ req'[d].account = a
              \/ a \in abandoned'
    BY <1>1, <1>2, <1>4, <1>8, <2>2 DEF IInv, OneUserPerAccount, AccountExists
  <2>3. req'[c].step = "user" /\ req'[c].account = q.account
    BY <1>1, <1>4 DEF Request
  <2> QED BY <1>2, <2>1, <2>2, <2>3 DEF IInv, OneUserPerAccount, UserExists
<1>10. WelcomeIsForUsers'
  BY <1>2, <1>7, <1>8 DEF IInv, TypeOK, WelcomeIsForUsers, UserExists, UserRow
<1>11. ASSUME NEW d \in Caller PROVE DocumentOf(req[d])'
  <2>1. CASE d = c
    <3>1. accounts'[q.account].email = q.email /\ accounts'[q.account] # NoAccount
      BY <1>2, <1>3 DEF IInv, TypeOK
    <3> QED BY <1>1, <1>2, <1>4, <1>7, <2>1, <3>1
            DEF DocumentOf, CreateDocument, AccountExists, UserExists, Request
  <2>2. CASE d # c /\ req[d].op = "user-create"
    <3>1. req[d].account # q.account /\ CreateDocument(req[d])
      BY <1>1, <2>2 DEF IInv, OwnRows, CreateDocument, DocumentOf, ChangeDocument
    <3> QED BY <1>2, <1>4, <1>8, <2>2, <3>1 DEF DocumentOf, CreateDocument, AccountExists, UserExists
  <2>3. CASE d # c /\ req[d].op # "user-create"
    BY <1>2, <1>4, <2>3 DEF IInv, DocumentOf, CreateDocument, ChangeDocument, UserExists
  <2> QED BY <2>1, <2>2, <2>3
<1>12. OwnRows'
  BY <1>1, <1>4 DEF IInv, OwnRows, Request
<1> QED BY <1>6, <1>9, <1>10, <1>11, <1>12 DEF IInv

LEMMA InsertUserKeeps ==
  ASSUME IInv, NEW c \in Caller, InsertUser(c) PROVE IInv'
<1> DEFINE q == req[c]
<1> DEFINE row == [row |-> "live", account |-> q.account, profile |-> q.profile]
<1> USE RowFacts
<1>1. CreateDocument(q) /\ q \in Request /\ q.step = "user"
  BY CreatingRequest DEF InsertUser
<1>2. /\ users' = [users EXCEPT ![q.user] = row]
      /\ req' = [req EXCEPT ![c].step = "welcome"]
      /\ UNCHANGED <<accounts, liveRoles, requests, abandoned, welcomed>>
  BY DEF InsertUser, Goto, History
<1>3. /\ q.user \in User /\ users[q.user] = NoUser /\ row \in UserRow
      /\ q.account \in Account /\ AccountExists(q.account)
      /\ \A u \in User : users[u].account # q.account
  BY <1>1 DEF CreateDocument, UserExists, UserRow, Request
<1>4. req'[c] = [q EXCEPT !.step = "welcome"] /\ \A d \in Caller \ {c} : req'[d] = req[d]
  BY <1>2 DEF IInv, TypeOK
<1>5. [q EXCEPT !.step = "welcome"] \in Request
  BY <1>1 DEF Request, Step
<1>6. TypeOK'
  BY <1>2, <1>3, <1>5 DEF IInv, TypeOK
<1>7. users'[q.user] = row /\ \A u \in User : u # q.user => users'[u] = users[u]
  BY <1>2, <1>3 DEF IInv, TypeOK
<1>8. OneUserPerAccount'
  <2>1. ASSUME NEW u \in User, UserExists(u)' PROVE AccountExists(users[u].account)'
    BY <1>2, <1>3, <1>7, <2>1 DEF IInv, OneUserPerAccount, UserExists, AccountExists
  <2>2. ASSUME NEW u \in User, NEW v \in User, UserExists(u)', users'[u].account = users'[v].account
        PROVE u = v
    BY <1>3, <1>7, <2>2 DEF IInv, OneUserPerAccount, UserExists
  <2>3. ASSUME NEW a \in Account, AccountExists(a)'
        PROVE \/ \E u \in User : users'[u].account = a
              \/ \E d \in Caller : req'[d].step = "user" /\ req'[d].account = a
              \/ a \in abandoned'
    <3>1. CASE a = q.account
      BY <1>3, <1>7, <3>1
    <3>2. CASE \E u \in User : users[u].account = a
      <4>1. PICK u \in User : users[u].account = a
        BY <3>2
      <4> QED BY <1>3, <1>7, <4>1, ConstantsAssumption
    <3>3. CASE a # q.account /\ ~\E u \in User : users[u].account = a
      BY <1>2, <1>4, <2>3, <3>3 DEF IInv, OneUserPerAccount, AccountExists
    <3> QED BY <3>1, <3>2, <3>3
  <2> QED BY <2>1, <2>2, <2>3 DEF OneUserPerAccount
<1>9. WelcomeIsForUsers'
  BY <1>2, <1>3, <1>7 DEF IInv, WelcomeIsForUsers, UserExists
<1>10. ASSUME NEW d \in Caller PROVE DocumentOf(req[d])'
  <2>1. CASE d = c
    BY <1>1, <1>2, <1>4, <1>7, <2>1 DEF DocumentOf, CreateDocument, AccountExists, UserExists, Request
  <2>2. CASE d # c /\ req[d].op = "user-create"
    <3>1. /\ req[d].account # q.account /\ req[d].user # q.user /\ CreateDocument(req[d])
      BY <1>1, <2>2 DEF IInv, OwnRows, CreateDocument, DocumentOf, ChangeDocument
    <3> QED BY <1>2, <1>4, <1>7, <2>2, <3>1 DEF DocumentOf, CreateDocument, AccountExists, UserExists
  <2>3. CASE d # c /\ req[d].op # "user-create"
    BY <1>3, <1>4, <1>7, <2>3 DEF IInv, DocumentOf, CreateDocument, ChangeDocument, UserExists
  <2> QED BY <2>1, <2>2, <2>3
<1>11. OwnRows'
  BY <1>1, <1>4 DEF IInv, OwnRows, Request
<1> QED BY <1>6, <1>8, <1>9, <1>10, <1>11 DEF IInv

LEMMA WelcomeKeeps ==
  ASSUME IInv, NEW c \in Caller, Welcome(c) PROVE IInv'
<1> DEFINE q == [Idle EXCEPT !.answer = "200"]
<1>1. /\ req' = [req EXCEPT ![c] = q] /\ welcomed' = welcomed \cup {req[c].email}
      /\ UNCHANGED <<accounts, users, liveRoles, requests, abandoned>>
  BY DEF Welcome, Respond, Tables
<1>2. q \in Request /\ q.op = "none" /\ DocumentOf(q)
  BY IdleFacts DEF Answer, DocumentOf, Idle
<1>3. CreateDocument(req[c]) /\ req[c].step = "welcome"
  BY CreatingRequest DEF Welcome
<1>4. /\ req[c].email \in Email /\ req[c].user \in User /\ UserExists(req[c].user)
      /\ accounts[users[req[c].user].account].email = req[c].email
  BY <1>3 DEF CreateDocument
<1>5. abandoned \subseteq Account /\ welcomed \subseteq Email /\ requests \in 0..MaxRequests
  BY DEF IInv, TypeOK
<1> QED BY <1>1, <1>2, <1>3, <1>4, <1>5, RequestAdvances

(* A request whose user another one has written is the same but for the    *)
(* note that it has been.                                                  *)
Alike(r, q) ==
  /\ r.op = q.op /\ r.step = q.step /\ r.answer = q.answer
  /\ r.account = q.account /\ r.user = q.user /\ r.email = q.email /\ r.username = q.username
  /\ r.roles = q.roles /\ r.sent = q.sent /\ r.profile = q.profile /\ r.columns = q.columns

LEMMA Notes ==
  ASSUME IInv, NEW c \in Caller, NEW row, NEW q \in Request, Writes(c, row, q)
  PROVE /\ users' = [users EXCEPT ![req[c].user] = row]
        /\ req' \in [Caller -> Request] /\ req'[c] = q
        /\ \A d \in Caller \ {c} :
             /\ Alike(req'[d], req[d])
             /\ req'[d].stale <=> req[d].stale \/ (Holds(d, req[c].user) /\ users[req[c].user] # row)
<1> DEFINE note(d) == Holds(d, req[c].user) /\ users[req[c].user] # row
<1>1. /\ users' = [users EXCEPT ![req[c].user] = row]
      /\ req' = [d \in Caller |-> IF d = c THEN q ELSE [req[d] EXCEPT !.stale = @ \/ note(d)]]
  BY DEF Writes
<1> HIDE DEF note
<1>2. ASSUME NEW d \in Caller \ {c}
      PROVE /\ req'[d] \in Request /\ Alike(req'[d], req[d])
            /\ req'[d].stale <=> req[d].stale \/ note(d)
  <2>1. req[d] \in Request /\ req'[d] = [req[d] EXCEPT !.stale = req[d].stale \/ note(d)]
    BY <1>1 DEF IInv, TypeOK
  <2> DEFINE b == req[d].stale \/ note(d)
  <2>2. b \in BOOLEAN
    OBVIOUS
  <2> HIDE DEF b
  <2>3. req'[d] \in Request /\ Alike(req'[d], req[d]) /\ req'[d].stale = b
    BY <2>1, <2>2 DEF b, Request, Alike
  <2> QED BY <2>3 DEF b
<1> QED BY <1>1, <1>2 DEF note

(* A write that keeps a user on its account keeps the invariant. *)
LEMMA UserWriteKeeps ==
  ASSUME IInv, NEW c \in Caller, NEW q \in Request, NEW row \in UserRow, Writes(c, row, q),
         req[c].op # "user-create", req[c].user \in User,
         (q.op = "none" /\ q.step = "idle") \/ ChangeDocument(q),
         UserExists(req[c].user), row.account = users[req[c].user].account,
         UNCHANGED <<accounts, liveRoles, requests, abandoned, welcomed>>
  PROVE IInv'
<1> USE RowFacts
<1> DEFINE u == req[c].user
<1>0. users' = [users EXCEPT ![u] = row]
  BY Notes
<1>1. /\ \A v \in User : UserExists(v)' <=> UserExists(v)
      /\ \A v \in User : users'[v].account = users[v].account
  BY <1>0 DEF UserExists, IInv, TypeOK
<1>2. /\ req' \in [Caller -> Request] /\ req'[c] = q
      /\ \A d \in Caller \ {c} : Alike(req'[d], req[d])
  BY Notes
<1>3. TypeOK'
  BY <1>0, <1>2 DEF IInv, TypeOK
<1>4. OneUserPerAccount'
  <2>1. req[c].step # "user"
    BY DEF IInv, DocumentOf, CreateDocument, ChangeDocument
  <2> QED BY <1>1, <1>2, <2>1 DEF IInv, OneUserPerAccount, AccountExists, Alike
<1>5. WelcomeIsForUsers'
  BY <1>1 DEF IInv, WelcomeIsForUsers
<1>6. ASSUME NEW d \in Caller PROVE DocumentOf(req[d])'
  <2>1. CASE d = c
    BY <1>1, <1>2, <2>1 DEF DocumentOf, ChangeDocument
  <2>2. CASE d # c
    <3>1. Alike(req'[d], req[d]) /\ DocumentOf(req[d])
      BY <1>2, <2>2 DEF IInv
    <3> QED BY <1>1, <3>1 DEF Alike, DocumentOf, CreateDocument, ChangeDocument, AccountExists
  <2> QED BY <2>1, <2>2
<1>7. OwnRows'
  BY <1>2 DEF IInv, OwnRows, ChangeDocument, Alike
<1> QED BY <1>3, <1>4, <1>5, <1>6, <1>7 DEF IInv

(* What a running change of a user knows. *)
LEMMA ChangingRequest ==
  ASSUME IInv, NEW c \in Caller,
         req[c].step \in {"read", "row", "load", "commit", "reread", "remove"}
  PROVE ChangeDocument(req[c]) /\ req[c] \in Request /\ req[c].op # "user-create"
BY DEF IInv, TypeOK, DocumentOf, CreateDocument, ChangeDocument

LEMMA WrittenRow ==
  ASSUME NEW row \in UserRow, NEW q \in Request
  PROVE /\ Written(row, q) \in UserRow /\ Written(row, q).account = row.account
        /\ Written(row, q).row = IF "deletedAt" \in q.columns THEN "live" ELSE row.row
        /\ Written(row, q).profile =
             [k \in Column |-> IF k \in q.columns THEN q.profile[k] ELSE row.profile[k]]
<1> DEFINE new == [k \in Column |-> IF k \in q.columns THEN q.profile[k] ELSE row.profile[k]]
<1>1. new \in [Column -> Value]
  BY DEF UserRow, Request
<1>2. Written(row, q) = [row EXCEPT !.row = IF "deletedAt" \in q.columns THEN "live" ELSE @, !.profile = new]
  BY DEF Written
<1> HIDE DEF new
<1>3. /\ Written(row, q) \in UserRow /\ Written(row, q).account = row.account
      /\ Written(row, q).row = IF "deletedAt" \in q.columns THEN "live" ELSE row.row
      /\ Written(row, q).profile = new
  BY <1>1, <1>2 DEF UserRow
<1> QED BY <1>3 DEF new

(* The three writes of a user that exists, and what they leave of their request. *)
LEMMA UserWrites ==
  ASSUME IInv, NEW c \in Caller, SaveUser(c) \/ SaveReset(c) \/ SoftRemove(c)
  PROVE /\ req[c].op # "user-create" /\ req[c].user \in User /\ UserExists(req[c].user)
        /\ users[req[c].user] \in UserRow
        /\ \E row \in UserRow, q \in Request :
             /\ Writes(c, row, q) /\ row.account = users[req[c].user].account
             /\ (q.op = "none" /\ q.step = "idle") \/ ChangeDocument(q)
             /\ SaveUser(c) => row = Written(users[req[c].user], req[c]) /\ q = [req[c] EXCEPT !.step = "reread"]
             /\ SaveReset(c) => row = Written(users[req[c].user], req[c]) /\ q = [Idle EXCEPT !.answer = "201"]
             /\ SoftRemove(c) => row = [users[req[c].user] EXCEPT !.row = "deleted"] /\ q.step = "idle"
        /\ UNCHANGED <<accounts, liveRoles, requests, abandoned, welcomed>>
<1> DEFINE p == req[c]
<1> USE RowFacts
<1>1. ChangeDocument(p) /\ p \in Request /\ p.op # "user-create" /\ p.step # "read"
  BY ChangingRequest DEF SaveUser, SaveReset, SoftRemove
<1>2. p.user \in User /\ UserExists(p.user) /\ users[p.user] \in UserRow
  BY <1>1 DEF ChangeDocument, UserExists, IInv, TypeOK
<1>3. UNCHANGED <<accounts, liveRoles, requests, abandoned, welcomed>>
  BY DEF SaveUser, SaveReset, SoftRemove, History
<1>4. CASE SaveUser(c)
  <2> DEFINE q == [p EXCEPT !.step = "reread"]
  <2>1. q \in Request /\ ChangeDocument(q)
    BY <1>1, <1>2 DEF Request, Step, ChangeDocument
  <2>2. ~SaveReset(c) /\ ~SoftRemove(c) /\ Writes(c, Written(users[p.user], p), q)
    BY <1>4 DEF SaveUser, SaveReset, SoftRemove
  <2> HIDE DEF q
  <2>3. /\ Written(users[p.user], p) \in UserRow
        /\ Written(users[p.user], p).account = users[p.user].account
    BY <1>1, <1>2, WrittenRow
  <2> QED BY <1>1, <1>2, <1>3, <2>1, <2>2, <2>3 DEF q
<1>5. CASE SaveReset(c)
  <2> DEFINE q == [Idle EXCEPT !.answer = "201"]
  <2>1. q \in Request /\ q.op = "none" /\ q.step = "idle"
    BY IdleFacts DEF Idle, Answer
  <2>2. ~SaveUser(c) /\ ~SoftRemove(c) /\ Writes(c, Written(users[p.user], p), q)
    BY <1>5 DEF SaveUser, SaveReset, SoftRemove
  <2> HIDE DEF q
  <2>3. /\ Written(users[p.user], p) \in UserRow
        /\ Written(users[p.user], p).account = users[p.user].account
    BY <1>1, <1>2, WrittenRow
  <2> QED BY <1>1, <1>2, <1>3, <2>1, <2>2, <2>3 DEF q
<1>6. CASE SoftRemove(c)
  <2> DEFINE q == [Idle EXCEPT !.answer = "200"]
  <2> DEFINE row == [users[p.user] EXCEPT !.row = "deleted"]
  <2>1. q \in Request /\ q.op = "none" /\ q.step = "idle"
    BY IdleFacts DEF Idle, Answer
  <2>2. ~SaveUser(c) /\ ~SaveReset(c) /\ Writes(c, row, q)
    BY <1>6 DEF SaveUser, SaveReset, SoftRemove
  <2>3. row \in UserRow /\ row.account = users[p.user].account
    BY <1>2 DEF UserRow
  <2> HIDE DEF q
  <2> QED BY <1>1, <1>2, <1>3, <2>1, <2>2, <2>3
<1> QED BY <1>4, <1>5, <1>6

LEMMA ChangeKeeps ==
  ASSUME IInv, NEW c \in Caller, Change(c) PROVE IInv'
<1> DEFINE q == req[c]
<1> USE RowFacts
<1>1. ChangeDocument(q) /\ q \in Request /\ q.op # "user-create" /\ q.step # "user"
  BY ChangingRequest DEF Change, UserNotFound, UserWithoutRole, ReadForUpdate, ReadForReset, FindReset,
     LoadUser, SaveUser, SaveReset, Reread, ReadForDelete, SoftRemove, ChangePasswordFails, ChangeDocument
<1>2. /\ abandoned \subseteq Account /\ welcomed \subseteq Email /\ requests \in 0..MaxRequests
      /\ liveRoles \subseteq Role
  BY DEF IInv, TypeOK
<1>3. users \in [User -> UserRow \cup {NoUser}] /\ req \in [Caller -> Request]
  BY DEF IInv, TypeOK
<1>4. CASE \E code \in Answer : Respond(c, code) /\ UNCHANGED <<Tables, liveRoles, History>>
  BY <1>1, <1>4, RespondKeeps DEF Tables, History
<1>5. ASSUME NEW doc \in Request, req' = [req EXCEPT ![c] = doc], ChangeDocument(doc),
             UNCHANGED <<Tables, liveRoles, History>>
      PROVE IInv'
  <2>1. DocumentOf(doc) /\ doc.op # "user-create"
    BY <1>5 DEF DocumentOf, ChangeDocument
  <2> QED BY <1>1, <1>2, <1>5, <2>1, RequestAdvances DEF Tables, History
<1>6. CASE UserNotFound(c) \/ UserWithoutRole(c) \/ Reread(c) \/ ChangePasswordFails(c)
  BY <1>4, <1>6 DEF UserNotFound, UserWithoutRole, Reread, ChangePasswordFails, Answer
<1>7. CASE ReadForUpdate(c)
  <2> DEFINE doc == [q EXCEPT !.step = "load", !.profile = Over(users[q.user], q)]
  <2>1. req' = [req EXCEPT ![c] = doc] /\ UserExists(q.user)
    BY <1>1, <1>3, <1>7 DEF ReadForUpdate, LiveUser, UserExists, ChangeDocument
  <2>2. Over(users[q.user], q) \in [Column -> Value]
    BY <1>1, <1>3, <2>1 DEF Over, UserRow, Request, UserExists, ChangeDocument
  <2>3. doc \in Request /\ ChangeDocument(doc)
    BY <1>1, <2>1, <2>2 DEF Request, Step, ChangeDocument
  <2> QED BY <1>5, <1>7, <2>1, <2>3 DEF ReadForUpdate
<1>8. CASE ReadForReset(c)
  <2> DEFINE doc == [q EXCEPT !.step = "row", !.profile = users[q.user].profile,
                              !.roles = LiveRolesOf(q.user)]
  <2>1. req' = [req EXCEPT ![c] = doc] /\ UserExists(q.user)
    BY <1>1, <1>3, <1>8 DEF ReadForReset, LiveUser, UserExists, ChangeDocument
  <2>2. users[q.user].profile \in [Column -> Value] /\ LiveRolesOf(q.user) \in SUBSET Role
    BY <1>1, <1>2, <1>3, <2>1 DEF UserRow, UserExists, ChangeDocument, LiveRolesOf
  <2>3. doc \in Request /\ ChangeDocument(doc)
    BY <1>1, <2>1, <2>2 DEF Request, Step, ChangeDocument
  <2> QED BY <1>5, <1>8, <2>1, <2>3 DEF ReadForReset
<1>9. CASE FindReset(c)
  <2> DEFINE doc == [q EXCEPT !.step = "load"]
  <2>1. CASE Goto(c, "load")
    <3>1. req' = [req EXCEPT ![c] = doc] /\ q.step = "row"
      BY <1>1, <1>3, <1>9, <2>1 DEF FindReset, Goto
    <3>2. doc \in Request /\ ChangeDocument(doc)
      BY <1>1, <3>1 DEF Request, Step, ChangeDocument
    <3> QED BY <1>5, <1>9, <3>1, <3>2 DEF FindReset
  <2> QED BY <1>4, <1>9, <2>1 DEF FindReset, Answer
<1>10. CASE LoadUser(c)
  <2> DEFINE doc == [q EXCEPT !.step = "commit", !.columns = Changed(users[q.user], q)]
  <2>1. req' = [req EXCEPT ![c] = doc]
    BY <1>1, <1>3, <1>10 DEF LoadUser
  <2>2. Changed(users[q.user], q) \subseteq Column \cup {"deletedAt"}
    BY DEF Changed
  <2>3. doc \in Request /\ ChangeDocument(doc)
    BY <1>1, <1>10, <2>1, <2>2 DEF Request, Step, ChangeDocument, LoadUser
  <2> QED BY <1>5, <1>10, <2>1, <2>3 DEF LoadUser
<1>11. CASE ReadForDelete(c)
  <2> DEFINE doc == [q EXCEPT !.step = "remove"]
  <2>1. req' = [req EXCEPT ![c] = doc] /\ UserExists(q.user)
    BY <1>1, <1>3, <1>11 DEF ReadForDelete, LiveUser, UserExists, Goto, ChangeDocument
  <2>2. doc \in Request /\ ChangeDocument(doc)
    BY <1>1, <2>1 DEF Request, Step, ChangeDocument
  <2> QED BY <1>5, <1>11, <2>1, <2>2 DEF ReadForDelete
<1>12. CASE SaveUser(c) \/ SaveReset(c) \/ SoftRemove(c)
  BY <1>12, UserWrites, UserWriteKeeps
<1> QED BY <1>6, <1>7, <1>8, <1>9, <1>10, <1>11, <1>12 DEF Change

(* A dropped user-create that has saved its account puts it on record. *)
LEMMA DroppedKeeps ==
  ASSUME IInv, NEW c \in Caller, Dropped(c) PROVE IInv'
<1>1. PICK code \in {"500", "none"} : Respond(c, code)
  BY DEF Dropped
<1> DEFINE q == [Idle EXCEPT !.answer = code]
<1>2. /\ req' = [req EXCEPT ![c] = q]
      /\ UNCHANGED <<accounts, users, liveRoles, requests, welcomed>>
      /\ abandoned' = IF req[c].step = "user" THEN abandoned \cup {req[c].account} ELSE abandoned
  BY <1>1 DEF Dropped, Respond, Tables
<1>3. q \in Request /\ q.op = "none" /\ DocumentOf(q)
  BY IdleFacts DEF Answer, DocumentOf, Idle
<1>4. req[c].step = "user" => req[c].account \in Account
  BY CreatingRequest DEF CreateDocument
<1>5. abandoned \subseteq Account /\ welcomed \subseteq Email /\ requests \in 0..MaxRequests
  BY DEF IInv, TypeOK
<1>6. abandoned \subseteq abandoned' /\ abandoned' \subseteq Account
      /\ (req[c].step = "user" => req[c].account \in abandoned')
  BY <1>2, <1>4, <1>5
<1>7. /\ req' = [req EXCEPT ![c] = q] /\ UNCHANGED <<accounts, users, liveRoles>>
      /\ requests' \in 0..MaxRequests /\ welcomed' \subseteq Email /\ welcomed' \ welcomed = {}
      /\ q.op # "user-create"
  BY <1>2, <1>3, <1>5
<1> QED BY <1>3, <1>6, <1>7, RequestAdvances

LEMMA RoleChangesKeep ==
  ASSUME IInv, NEW r \in Role, RoleChanges(r) PROVE IInv'
<1>1. UNCHANGED <<accounts, users, req, requests, abandoned, welcomed>> /\ liveRoles' \subseteq Role
  BY DEF RoleChanges, Tables, History, IInv, TypeOK
<1> QED BY <1>1 DEF IInv, TypeOK, OneUserPerAccount, WelcomeIsForUsers, DocumentOf, CreateDocument,
           ChangeDocument, OwnRows, AccountExists, UserExists

LEMMA NextKeeps == IInv /\ [Next]_vars => IInv'
<1> SUFFICES ASSUME IInv, [Next]_vars PROVE IInv'
  OBVIOUS
<1>1. CASE UNCHANGED vars
  BY <1>1 DEF vars, IInv, TypeOK, OneUserPerAccount, WelcomeIsForUsers, DocumentOf, CreateDocument,
     ChangeDocument, OwnRows, AccountExists, UserExists
<1>2. ASSUME NEW c \in Caller, Start(c) \/ Create(c) \/ Change(c) \/ Dropped(c) PROVE IInv'
  <2>1. CASE Create(c)
    BY <2>1, LookupKeeps, InsertAccountKeeps, InsertUserKeeps, WelcomeKeeps DEF Create
  <2> QED BY <1>2, <2>1, StartKeeps, ChangeKeeps, DroppedKeeps
<1> QED BY <1>1, <1>2, RoleChangesKeep DEF Next

(* Whatever requests overlap, fail or lose their process, which rows of a  *)
(* user-create exist follows from its step and from nothing else           *)
(* (user-create.ts, the two saves and the emit).                           *)
THEOREM Inductive == Spec => []IInv
BY InitIInv, NextKeeps, PTL DEF Spec

(* Every account row has an e-mail, a username and a role. *)
THEOREM TypeCorrect == Spec => []TypeOK
BY Inductive, PTL DEF IInv

(* No user without an account, no two users on one, and an account without *)
(* a user only by a request dropped between the saves of user-create.      *)
THEOREM UsersHaveAccounts == Spec => []OneUserPerAccount
BY Inductive, PTL DEF IInv

(* The welcome mail goes to people who have become users. *)
THEOREM WelcomedAreUsers == Spec => []WelcomeIsForUsers
BY Inductive, PTL DEF IInv

----------------------------------------------------------------------------
(* A step is one request's own.                                            *)

Acts(c) == Start(c) \/ Create(c) \/ Change(c) \/ Dropped(c)
WritesUser(c) == SaveUser(c) \/ SaveReset(c) \/ SoftRemove(c)
Reading(c) == ReadForUpdate(c) \/ ReadForReset(c) \/ FindReset(c) \/ LoadUser(c)

LEMMA Starts ==
  ASSUME NEW c \in Caller, Start(c) PROVE \E s : Begin(c, s) /\ s.step \in {"roles", "read"}
<1>1. CASE StartUserCreate(c)
  <2>1. PICK a \in FreshAccount, u \in FreshUser, e \in Email, n \in Username, x \in Entered(Required) :
          Begin(c, [Idle EXCEPT !.op = "user-create", !.step = "roles", !.account = a, !.user = u,
                                !.email = e, !.username = n, !.profile = x])
    BY <1>1 DEF StartUserCreate
  <2> DEFINE s == [Idle EXCEPT !.op = "user-create", !.step = "roles", !.account = a, !.user = u,
                               !.email = e, !.username = n, !.profile = x]
  <2>2. s.step = "roles"
    BY DEF Idle
  <2> QED BY <2>1, <2>2
<1>2. CASE StartUserUpdate(c)
  <2>1. PICK u \in User, columns \in SUBSET Column : \E x \in Entered(columns) :
          Begin(c, [Idle EXCEPT !.op = "user-update", !.step = "read", !.user = u,
                                !.sent = columns, !.profile = x])
    BY <1>2 DEF StartUserUpdate
  <2>2. PICK x \in Entered(columns) :
          Begin(c, [Idle EXCEPT !.op = "user-update", !.step = "read", !.user = u,
                                !.sent = columns, !.profile = x])
    BY <2>1
  <2> DEFINE s == [Idle EXCEPT !.op = "user-update", !.step = "read", !.user = u,
                               !.sent = columns, !.profile = x]
  <2>3. s.step = "read"
    BY DEF Idle
  <2> QED BY <2>2, <2>3
<1>3. CASE StartUserDelete(c) \/ StartChangePassword(c) \/ StartSendEmail(c)
  <2>1. PICK u \in User, op \in {"user-delete", "user-change-password", "reset-password-send-email"} :
          Begin(c, [Idle EXCEPT !.op = op, !.step = "read", !.user = u])
    BY <1>3 DEF StartUserDelete, StartChangePassword, StartSendEmail
  <2> DEFINE s == [Idle EXCEPT !.op = op, !.step = "read", !.user = u]
  <2>2. s.step = "read"
    BY DEF Idle
  <2> QED BY <2>1, <2>2
<1> QED BY <1>1, <1>2, <1>3 DEF Start

(* Only a write of a user touches other requests, and only their notes. *)
LEMMA OthersStay ==
  ASSUME IInv, NEW c \in Caller, Acts(c), NEW d \in Caller, d # c
  PROVE Alike(req'[d], req[d]) /\ (~WritesUser(c) => req'[d] = req[d])
<1>1. CASE WritesUser(c)
  BY <1>1, UserWrites, Notes DEF WritesUser
<1>2. CASE ~WritesUser(c)
  <2>1. req'[d] = req[d]
    BY <1>2, Starts DEF IInv, TypeOK, Acts, WritesUser, Begin, Create, FindRoles, FindEmail,
       FindUsername, InsertAccount, AccountRejected, InsertUser, Welcome, Change, UserNotFound,
       UserWithoutRole, ReadForUpdate, ReadForReset, FindReset, LoadUser, Reread, ReadForDelete,
       ChangePasswordFails, Dropped, Respond, Goto
  <2> QED BY <2>1 DEF Alike
<1> QED BY <1>1, <1>2

LEMMA OwnStep ==
  ASSUME IInv, [Next]_vars, NEW c \in Caller, ~Alike(req'[c], req[c]) PROVE Acts(c)
BY OthersStay DEF Next, RoleChanges, Acts, Alike, vars

(* What a request holds after it has read. *)
LEMMA Reads ==
  ASSUME IInv, NEW c \in Caller, NEW q, q = req[c], Reading(c)
  PROVE /\ ChangeDocument(q) /\ q \in Request /\ UNCHANGED <<accounts, users>>
        /\ \A d \in Caller \ {c} : req'[d] = req[d]
        /\ req'[c].step # "idle" =>
             req'[c].op = q.op /\ req'[c].user = q.user /\ req'[c].sent = q.sent /\ req'[c].stale = q.stale
        /\ ReadForUpdate(c) => /\ LiveUser(q.user) /\ q.op = "user-update"
                               /\ req'[c].step = "load" /\ req'[c].profile = Over(users[q.user], q)
        /\ ReadForReset(c) => /\ LiveUser(q.user) /\ q.op = "reset-password-send-email"
                              /\ req'[c].step = "row" /\ req'[c].profile = users[q.user].profile
        /\ FindReset(c) => /\ q.step = "row"
                           /\ \/ req'[c].step = "idle"
                              \/ req'[c].step = "load" /\ req'[c].profile = q.profile
        /\ LoadUser(c) => /\ q.step = "load"
                          /\ req'[c].step = "commit" /\ req'[c].profile = q.profile
                          /\ req'[c].columns = Changed(users[q.user], q)
<1>1. req \in [Caller -> Request] /\ q \in Request
  BY DEF IInv, TypeOK
<1>2. ChangeDocument(q) /\ UNCHANGED <<accounts, users>>
  BY ChangingRequest DEF Reading, ReadForUpdate, ReadForReset, FindReset, LoadUser, Tables
<1>3. \A d \in Caller \ {c} : req'[d] = req[d]
  BY <1>1 DEF Reading, ReadForUpdate, ReadForReset, FindReset, LoadUser, Respond, Goto
<1>4. CASE ReadForUpdate(c)
  <2>1. req'[c] = [q EXCEPT !.step = "load", !.profile = Over(users[q.user], q)]
        /\ LiveUser(q.user) /\ q.op = "user-update" /\ q.step = "read"
    BY <1>1, <1>4 DEF ReadForUpdate
  <2> QED BY <1>1, <1>2, <1>3, <2>1 DEF Request, ReadForReset, FindReset, LoadUser
<1>5. CASE ReadForReset(c)
  <2>1. req'[c] = [q EXCEPT !.step = "row", !.profile = users[q.user].profile,
                            !.roles = LiveRolesOf(q.user)]
        /\ LiveUser(q.user) /\ q.op = "reset-password-send-email" /\ q.step = "read"
    BY <1>1, <1>5 DEF ReadForReset
  <2> QED BY <1>1, <1>2, <1>3, <2>1 DEF Request, ReadForUpdate, FindReset, LoadUser
<1>6. CASE FindReset(c)
  <2>1. (req'[c].step = "idle" \/ req'[c] = [q EXCEPT !.step = "load"]) /\ q.step = "row"
    BY <1>1, <1>6 DEF FindReset, Respond, Goto, Idle
  <2> QED BY <1>1, <1>2, <1>3, <2>1 DEF Request, ReadForUpdate, ReadForReset, LoadUser
<1>7. CASE LoadUser(c)
  <2>1. req'[c] = [q EXCEPT !.step = "commit", !.columns = Changed(users[q.user], q)] /\ q.step = "load"
    BY <1>1, <1>7 DEF LoadUser
  <2> QED BY <1>1, <1>2, <1>3, <2>1 DEF Request, ReadForUpdate, ReadForReset, FindReset
<1> QED BY <1>4, <1>5, <1>6, <1>7 DEF Reading

(* No other step lets a request hold a user. *)
LEMMA HoldersRead ==
  ASSUME IInv, NEW c \in Caller, Acts(c), ~Reading(c)
  PROVE req'[c].step \notin {"row", "load", "commit"}
<1>0. req \in [Caller -> Request]
  BY DEF IInv, TypeOK
<1> DEFINE after == {"idle", "read", "roles", "email", "username", "account", "user", "welcome",
                     "reread", "remove"}
<1>1. \A step \in {"username", "account", "user", "welcome", "remove"} :
        Goto(c, step) => req'[c].step \in after
  BY <1>0 DEF Goto, Request
<1>2. \A code : Respond(c, code) => req'[c].step \in after
  BY <1>0 DEF Respond, Idle
<1>3. CASE Start(c)
  <2>1. PICK s : Begin(c, s) /\ s.step \in {"roles", "read"}
    BY <1>3, Starts
  <2>2. req'[c] = s
    BY <1>0, <2>1 DEF Begin
  <2> QED BY <2>1, <2>2
<1>4. CASE FindRoles(c)
  <2>1. req'[c].step \in {"idle", "email"}
    BY <1>0, <1>4 DEF FindRoles, Respond, Idle, Request
  <2> QED BY <2>1
<1>5. CASE WritesUser(c)
  <2>1. PICK row \in UserRow, q \in Request :
          /\ Writes(c, row, q)
          /\ SaveUser(c) => q = [req[c] EXCEPT !.step = "reread"]
          /\ SaveReset(c) => q = [Idle EXCEPT !.answer = "201"]
          /\ SoftRemove(c) => q.step = "idle"
    BY <1>5, UserWrites DEF WritesUser
  <2>2. req'[c] = q
    BY <2>1, Notes
  <2> QED BY <1>0, <1>5, <2>1, <2>2 DEF WritesUser, Request, Idle
<1>6. CASE ~Start(c) /\ ~FindRoles(c) /\ ~WritesUser(c)
  <2> HIDE DEF after
  <2>1. req'[c].step \in after
    BY <1>1, <1>2, <1>6 DEF Acts, WritesUser, Reading, Create, FindEmail, FindUsername, InsertAccount,
       AccountRejected, InsertUser, Welcome, Change, UserNotFound, UserWithoutRole, Reread,
       ReadForDelete, ChangePasswordFails, Dropped
  <2> QED BY <2>1 DEF after
<1> QED BY <1>3, <1>4, <1>5, <1>6

(* The rows a step may write: new ones, and a user that exists, on its account. *)
LEMMA SavedUser ==
  ASSUME IInv, NEW c \in Caller, WritesUser(c)
  PROVE LET q == req[c] IN
        /\ q.user \in User /\ UserExists(q.user) /\ UNCHANGED accounts
        /\ users[q.user] \in UserRow /\ users'[q.user] \in UserRow
        /\ users'[q.user].account = users[q.user].account
        /\ SaveUser(c) \/ SaveReset(c) =>
             /\ q.step = "commit" /\ users'[q.user] = Written(users[q.user], q)
             /\ q.op = IF SaveUser(c) THEN "user-update" ELSE "reset-password-send-email"
        /\ SoftRemove(c) => users'[q.user] = [users[q.user] EXCEPT !.row = "deleted"]
        /\ \A u \in User \ {q.user} : users'[u] = users[u]
<1> DEFINE p == req[c]
<1>1. PICK row \in UserRow, q \in Request :
        /\ Writes(c, row, q) /\ row.account = users[p.user].account
        /\ SaveUser(c) => row = Written(users[p.user], p)
        /\ SaveReset(c) => row = Written(users[p.user], p)
        /\ SoftRemove(c) => row = [users[p.user] EXCEPT !.row = "deleted"]
  BY UserWrites DEF WritesUser
<1>2. users' = [users EXCEPT ![p.user] = row] /\ users \in [User -> UserRow \cup {NoUser}]
  BY <1>1, Notes DEF IInv, TypeOK
<1>3. p.user \in User /\ UserExists(p.user) /\ UNCHANGED accounts /\ users[p.user] \in UserRow
  BY UserWrites DEF WritesUser
<1>4. SaveUser(c) \/ SaveReset(c) =>
        /\ p.step = "commit"
        /\ p.op = IF SaveUser(c) THEN "user-update" ELSE "reset-password-send-email"
  BY DEF SaveUser, SaveReset
<1> QED BY <1>1, <1>2, <1>3, <1>4

LEMMA InsertedRows ==
  ASSUME IInv, NEW c \in Caller
  PROVE /\ InsertAccount(c) =>
             /\ req[c].account \in Account /\ ~AccountExists(req[c].account) /\ UNCHANGED users
             /\ accounts'[req[c].account] = [email |-> req[c].email, username |-> req[c].username,
                                             roles |-> req[c].roles]
             /\ \A a \in Account \ {req[c].account} : accounts'[a] = accounts[a]
        /\ InsertUser(c) =>
             /\ req[c].user \in User /\ ~UserExists(req[c].user) /\ UNCHANGED accounts
             /\ users'[req[c].user].account = req[c].account
             /\ \A u \in User \ {req[c].user} : users'[u] = users[u]
<1>1. accounts \in [Account -> AccountRow \cup {NoAccount}] /\ users \in [User -> UserRow \cup {NoUser}]
  BY DEF IInv, TypeOK
<1>2. InsertAccount(c) \/ InsertUser(c) => CreateDocument(req[c])
  BY CreatingRequest DEF InsertAccount, InsertUser
<1>3. CASE InsertAccount(c)
  <2>1. req[c].account \in Account /\ ~AccountExists(req[c].account) /\ req[c].step # "user"
    BY <1>2, <1>3 DEF CreateDocument, InsertAccount
  <2> QED BY <1>1, <1>3, <2>1 DEF InsertAccount, InsertUser
<1>4. CASE InsertUser(c)
  <2>1. req[c].user \in User /\ ~UserExists(req[c].user) /\ req[c].step # "account"
    BY <1>2, <1>4 DEF CreateDocument, InsertUser
  <2> QED BY <1>1, <1>4, <2>1 DEF InsertAccount, InsertUser
<1> QED BY <1>3, <1>4

(* Every step but these leaves the tables alone. *)
LEMMA TableSteps ==
  ASSUME [Next]_vars, ~(\E c \in Caller : InsertAccount(c) \/ InsertUser(c) \/ WritesUser(c))
  PROVE UNCHANGED <<accounts, users>>
<1>1. ASSUME NEW c \in Caller, Start(c) PROVE UNCHANGED <<accounts, users>>
  BY <1>1, Starts DEF Begin, Tables
<1>2. ASSUME NEW c \in Caller, Create(c) PROVE UNCHANGED <<accounts, users>>
  BY <1>2 DEF Create, FindRoles, FindEmail, FindUsername, AccountRejected, Welcome, Tables
<1>3. ASSUME NEW c \in Caller, Change(c) PROVE UNCHANGED <<accounts, users>>
  BY <1>3 DEF WritesUser, Change, UserNotFound, UserWithoutRole, ReadForUpdate, ReadForReset,
     FindReset, LoadUser, Reread, ReadForDelete, ChangePasswordFails, Tables
<1>4. (\E c \in Caller : Dropped(c)) \/ (\E r \in Role : RoleChanges(r)) => UNCHANGED <<accounts, users>>
  BY DEF Dropped, RoleChanges, Tables
<1> QED BY <1>1, <1>2, <1>3, <1>4 DEF Next, vars

(* A deletion is final unless a user-update or a reset read the user while *)
(* it was live: no other save writes deletedAt back to null                *)
(* (user-update.ts:35, the cascade of schemas/reset-password.ts:23).       *)
THEOREM DeletionsAreFinal == Spec => OnlyStaleSavesUndelete
<1>1. ASSUME IInv, [Next]_vars, NEW u \in User, users[u].row = "deleted",
             \A c \in Caller : ~Holds(c, u)
      PROVE users'[u].row = "deleted"
  <2>0. UserExists(u)
    BY <1>1, RowFacts DEF UserExists
  <2>1. ASSUME NEW c \in Caller, WritesUser(c) PROVE users'[u].row = "deleted"
    <3>1. CASE req[c].user = u
      <4>1. SoftRemove(c) /\ users[u] \in UserRow
        BY <1>1, <2>1, <3>1, SavedUser DEF WritesUser, Holds
      <4> QED BY <1>1, <2>1, <3>1, <4>1, SavedUser DEF UserRow
    <3>2. CASE req[c].user # u
      BY <1>1, <2>1, <3>2, SavedUser
    <3> QED BY <3>1, <3>2
  <2>2. ASSUME NEW c \in Caller, InsertAccount(c) \/ InsertUser(c) PROVE users'[u].row = "deleted"
    BY <1>1, <2>0, <2>2, InsertedRows
  <2> QED BY <1>1, <2>1, <2>2, TableSteps
<1>2. ASSUME IInv, [Next]_vars, NEW u \in User, users[u].row = "deleted",
             \A c \in Caller : ~Holds(c, u), NEW c \in Caller, Holds(c, u)'
      PROVE FALSE
  <2>1. Acts(c)
    BY <1>2, OwnStep DEF Holds, Alike
  <2>2. Reading(c)
    BY <1>2, <2>1, HoldersRead DEF Holds
  <2>3. req[c].user = u
    BY <1>2, <2>2, Reads DEF Holds
  <2> QED BY <1>2, <2>2, <2>3, Reads DEF Reading, Holds, LiveUser
<1>3. IInv /\ [Next]_vars => [DeletionIsFinal]_vars
  BY <1>1, <1>2 DEF DeletionIsFinal
<1> QED BY <1>3, Inductive, PTL DEF OnlyStaleSavesUndelete, Spec

----------------------------------------------------------------------------
(* A user held and not changed by another request since it was read is     *)
(* known as it is: it is live, and the document differs from the row in no *)
(* column but those sent.                                                  *)
Current(q) ==
  q.step \in {"row", "load", "commit"} /\ ~q.stale =>
    /\ LiveUser(q.user)
    /\ \A k \in Column \ q.sent : q.profile[k] = users[q.user].profile[k]
    /\ q.step = "commit" => q.columns = {k \in Column : users[q.user].profile[k] # q.profile[k]}
AllCurrent == \A c \in Caller : Current(req[c])

LEMMA ReadsAreCurrent ==
  ASSUME IInv, AllCurrent, NEW c \in Caller, Reading(c) PROVE Current(req[c])'
<1> DEFINE q == req[c]
<1>1. /\ ChangeDocument(q) /\ q \in Request /\ UNCHANGED <<accounts, users>>
      /\ req'[c].step # "idle" => req'[c].user = q.user /\ req'[c].sent = q.sent /\ req'[c].stale = q.stale
  BY Reads
<1>2. Current(q)
  BY DEF AllCurrent
<1>3. CASE ReadForUpdate(c)
  <2>1. /\ LiveUser(q.user) /\ req'[c].step = "load"
        /\ req'[c].profile = Over(users[q.user], q)
    BY <1>3, Reads
  <2>2. \A k \in Column \ q.sent : Over(users[q.user], q)[k] = users[q.user].profile[k]
    BY DEF Over
  <2> QED BY <1>1, <2>1, <2>2 DEF Current, LiveUser
<1>4. CASE ReadForReset(c)
  <2>1. LiveUser(q.user) /\ req'[c].step = "row" /\ req'[c].profile = users[q.user].profile
    BY <1>4, Reads
  <2> QED BY <1>1, <2>1 DEF Current, LiveUser
<1>5. CASE FindReset(c)
  <2>1. \/ req'[c].step = "idle"
        \/ req'[c].step = "load" /\ req'[c].profile = q.profile /\ q.step = "row"
    BY <1>5, Reads
  <2> QED BY <1>1, <1>2, <2>1 DEF Current, LiveUser
<1>6. CASE LoadUser(c)
  <2>1. /\ req'[c].step = "commit" /\ req'[c].profile = q.profile /\ q.step = "load"
        /\ req'[c].columns = Changed(users[q.user], q)
    BY <1>6, Reads
  <2>2. LiveUser(q.user) =>
          Changed(users[q.user], q) = {k \in Column : users[q.user].profile[k] # q.profile[k]}
    BY DEF Changed, LiveUser
  <2> QED BY <1>1, <1>2, <2>1, <2>2 DEF Current, LiveUser
<1> QED BY <1>3, <1>4, <1>5, <1>6 DEF Reading

LEMMA CurrentStays == IInv /\ AllCurrent /\ [Next]_vars => AllCurrent'
<1> SUFFICES ASSUME IInv, AllCurrent, [Next]_vars, NEW d \in Caller PROVE Current(req[d])'
  BY DEF AllCurrent
<1>0. Current(req[d]) /\ req \in [Caller -> Request]
  BY DEF AllCurrent, IInv, TypeOK
<1>1. CASE Acts(d)
  <2>1. CASE ~Reading(d)
    <3>1. req'[d].step \notin {"row", "load", "commit"}
      BY <1>1, <2>1, HoldersRead
    <3> QED BY <3>1 DEF Current
  <2> QED BY <2>1, ReadsAreCurrent
<1>2. CASE UNCHANGED <<users, req>>
  BY <1>0, <1>2 DEF Current, LiveUser
<1>3. ASSUME NEW c \in Caller, c # d, Acts(c) PROVE Current(req[d])'
  <2>1. CASE WritesUser(c)
    <3>1. /\ req[c].user \in User
          /\ \A u \in User \ {req[c].user} : users'[u] = users[u]
      BY <2>1, SavedUser
    <3>2. /\ Alike(req'[d], req[d])
          /\ req'[d].stale <=> req[d].stale
                               \/ (Holds(d, req[c].user) /\ users[req[c].user] # users'[req[c].user])
      <4>1. PICK row \in UserRow, q \in Request : Writes(c, row, q)
        BY <2>1, UserWrites DEF WritesUser
      <4>2. users'[req[c].user] = row
        BY <3>1, <4>1, Notes DEF IInv, TypeOK
      <4> QED BY <1>3, <4>1, <4>2, Notes
    <3>3. CASE req[d].step \in {"row", "load", "commit"} /\ ~req'[d].stale
      <4>1. req[d].user \in User /\ ~req[d].stale
        BY <3>2, <3>3, ChangingRequest DEF ChangeDocument
      <4>2. users'[req[d].user] = users[req[d].user]
        BY <3>1, <3>2, <3>3, <4>1 DEF Holds
      <4> QED BY <1>0, <3>2, <4>1, <4>2 DEF Current, LiveUser, Alike
    <3>4. CASE ~(req[d].step \in {"row", "load", "commit"} /\ ~req'[d].stale)
      BY <3>2, <3>4 DEF Current, Alike
    <3> QED BY <3>3, <3>4
  <2>2. CASE ~WritesUser(c)
    <3>1. req'[d] = req[d]
      BY <1>3, <2>2, OthersStay
    <3>2. CASE req[d].step \in {"row", "load", "commit"}
      <4>0. ChangeDocument(req[d])
        BY <3>2, ChangingRequest
      <4>1. req[d].user \in User /\ UserExists(req[d].user)
        BY <3>2, <4>0 DEF ChangeDocument
      <4>2. CASE InsertUser(c)
        <5>0. ~UserExists(req[c].user) /\ \A u \in User \ {req[c].user} : users'[u] = users[u]
          BY <4>2, InsertedRows
        <5>1. users'[req[d].user] = users[req[d].user]
          BY <4>1, <5>0 DEF UserExists
        <5> QED BY <1>0, <3>1, <5>1 DEF Current, LiveUser
      <4>3. CASE ~InsertUser(c)
        <5>1. UNCHANGED users
          BY <1>3, <2>2, <4>3, Starts, InsertedRows DEF Acts, WritesUser, Begin, Create, FindRoles,
             FindEmail, FindUsername, InsertAccount, AccountRejected, Welcome, Change, UserNotFound,
             UserWithoutRole, ReadForUpdate, ReadForReset, FindReset, LoadUser, Reread, ReadForDelete,
             ChangePasswordFails, Dropped, Tables
        <5> QED BY <1>0, <3>1, <5>1 DEF Current, LiveUser
      <4> QED BY <4>2, <4>3
    <3>3. CASE req[d].step \notin {"row", "load", "commit"}
      BY <3>1, <3>3 DEF Current
    <3> QED BY <3>2, <3>3
  <2> QED BY <2>1, <2>2
<1> QED BY <1>1, <1>2, <1>3 DEF Next, Acts, RoleChanges, Tables, vars

(* The step from commit that saves is the save of one of the two handlers. *)
LEMMA Saves ==
  ASSUME IInv, NEW c \in Caller, Acts(c), req[c].step = "commit",
         req'[c].step = "reread" \/ Ends(c, "reset-password-send-email", {"201"})
  PROVE SaveUser(c) \/ SaveReset(c)
<1>1. ~Dropped(c)
  BY DEF Dropped, Respond, Idle, IInv, TypeOK, Ends
<1>2. ~Start(c)
  BY Starts DEF Begin, Busy
<1> QED BY <1>1, <1>2 DEF Acts, Create, FindRoles, FindEmail, FindUsername, InsertAccount,
   AccountRejected, InsertUser, Welcome, Change, UserNotFound, UserWithoutRole, ReadForUpdate,
   ReadForReset, FindReset, LoadUser, Reread, ReadForDelete, SoftRemove, ChangePasswordFails

(* What a save takes back from another request it had read before that     *)
(* request saved; a save of what nobody else has changed overwrites the    *)
(* columns sent and no others (user-update.ts:35, reset-password-send-     *)
(* email.ts:48).                                                           *)
THEOREM SavesTakeNothingBack == Spec => OnlyStaleSavesTakeBack
<1>1. ASSUME IInv, AllCurrent, Next PROVE TakesWhatWasSent
  <2> SUFFICES ASSUME NEW c \in Caller, NEW q, q = req[c], q.step = "commit", ~q.stale,
                      req'[c].step = "reread" \/ Ends(c, "reset-password-send-email", {"201"})
               PROVE users'[q.user] = [users[q.user] EXCEPT !.profile =
                       [k \in Column |-> IF k \in q.sent THEN q.profile[k] ELSE @[k]]]
    BY DEF TakesWhatWasSent
  <2>1. SaveUser(c) \/ SaveReset(c)
    BY <1>1, OwnStep, Saves DEF Alike, Ends
  <2>2. /\ users[q.user] \in UserRow /\ users'[q.user] = Written(users[q.user], q)
        /\ q \in Request
    BY <1>1, <2>1, SavedUser DEF WritesUser, IInv, TypeOK
  <2>3. /\ q.columns = {k \in Column : users[q.user].profile[k] # q.profile[k]}
        /\ \A k \in Column \ q.sent : q.profile[k] = users[q.user].profile[k]
    BY <1>1 DEF AllCurrent, Current
  <2>4. "deletedAt" \notin q.columns
    BY <2>3, ConstantsAssumption
  <2>5. [k \in Column |-> IF k \in q.columns THEN q.profile[k] ELSE users[q.user].profile[k]]
        = [k \in Column |-> IF k \in q.sent THEN q.profile[k] ELSE users[q.user].profile[k]]
    BY <2>3
  <2>6. Written(users[q.user], q) =
          [users[q.user] EXCEPT
             !.row = @,
             !.profile = [k \in Column |-> IF k \in q.columns THEN q.profile[k] ELSE @[k]]]
    BY <2>4 DEF Written
  <2> QED BY <2>2, <2>5, <2>6 DEF UserRow
<1>2. Init => AllCurrent
  BY IdleFacts DEF Init, AllCurrent, Current
<1>3. IInv /\ AllCurrent /\ [Next]_vars => [TakesWhatWasSent]_vars
  BY <1>1
<1> QED BY <1>2, <1>3, CurrentStays, Inductive, PTL DEF OnlyStaleSavesTakeBack, Spec

----------------------------------------------------------------------------
(* Coordinated requests.  A step of one request leaves the others with the *)
(* rows they know, because no other works on its user and an account is    *)
(* written once, before its request knows it.                              *)

LEMMA InitCInv == Init /\ Coordinated => CInv
<1> SUFFICES ASSUME Init, Coordinated PROVE CInv
  OBVIOUS
<1>1. IInv
  BY InitIInv
<1>2. EmailsUnique
  BY RowFacts, ConstantsAssumption, SeedAssumption DEF Init, EmailsUnique, AccountExists, AccountRow
<1>3. OwnUser /\ \A c \in Caller : EnteredAsAsked(req[c]) /\ UpToDate(req[c])
  BY IdleFacts DEF Init, OwnUser, Busy, EnteredAsAsked, UpToDate
<1> QED BY <1>1, <1>2, <1>3 DEF CInv

LEMMA OthersKeep ==
  ASSUME CInv, IInv', NEW c \in Caller,
         \A d \in Caller \ {c} : req'[d] = req[d],
         \A d \in Caller \ {c} : Busy(d) =>
           /\ users'[req[d].user] = users[req[d].user]
           /\ req[d].step \in {"user", "welcome"} =>
                accounts'[req[d].account] = accounts[req[d].account],
         EmailsUnique',
         Busy(c)' => \/ Busy(c) /\ req'[c].user = req[c].user
                     \/ \A d \in Caller \ {c} : Busy(d) => req[d].user # req'[c].user,
         EnteredAsAsked(req[c])', UpToDate(req[c])'
  PROVE CInv'
<1>1. OwnUser'
  BY DEF CInv, OwnUser, Busy
<1>2. ASSUME NEW d \in Caller, d # c PROVE EnteredAsAsked(req[d])' /\ UpToDate(req[d])'
  <2>1. req'[d] = req[d] /\ EnteredAsAsked(req[d]) /\ UpToDate(req[d])
    BY <1>2 DEF CInv
  <2>2. CASE Busy(d)
    <3>1. users'[req[d].user] = users[req[d].user]
          /\ (req[d].step \in {"user", "welcome"} =>
                accounts'[req[d].account] = accounts[req[d].account])
      BY <1>2, <2>2
    <3>2. EnteredAsAsked(req[d])'
      BY <2>1, <3>1 DEF EnteredAsAsked
    <3>3. UpToDate(req[d])'
      BY <2>1, <3>1 DEF UpToDate, LiveUser
    <3> QED BY <3>2, <3>3
  <2>3. CASE ~Busy(d)
    BY <2>1, <2>3 DEF EnteredAsAsked, UpToDate, Busy
  <2> QED BY <2>2, <2>3
<1> QED BY <1>1, <1>2 DEF CInv

(* A step that writes no table keeps what the others know; it must leave   *)
(* its own request knowing what the tables hold.                           *)
LEMMA ReadsKeep ==
  ASSUME CInv, IInv', NEW c \in Caller,
         \A d \in Caller \ {c} : req'[d] = req[d],
         UNCHANGED <<accounts, users>>,
         Busy(c)' => \/ Busy(c) /\ req'[c].user = req[c].user
                     \/ \A d \in Caller \ {c} : Busy(d) => req[d].user # req'[c].user,
         EnteredAsAsked(req[c])', UpToDate(req[c])'
  PROVE CInv'
<1>1. EmailsUnique'
  BY DEF CInv, EmailsUnique, AccountExists
<1> QED BY <1>1, OthersKeep

LEMMA AnswersKeep ==
  ASSUME CInv, IInv', NEW c \in Caller, NEW code \in Answer, Respond(c, code),
         UNCHANGED <<accounts, users>>
  PROVE CInv'
<1>1. req'[c].step = "idle" /\ \A d \in Caller \ {c} : req'[d] = req[d]
  BY DEF Respond, Idle, CInv, IInv, TypeOK
<1> QED BY <1>1, ReadsKeep DEF Busy, EnteredAsAsked, UpToDate

LEMMA StartsCoordinated ==
  ASSUME CInv, IInv', NEW c \in Caller, Start(c) PROVE CInv'
<1>1. PICK s : Begin(c, s) /\ s.step \in {"roles", "read"}
  BY Starts
<1>2. /\ req'[c] = s /\ \A d \in Caller \ {c} : req'[d] = req[d]
      /\ UNCHANGED <<accounts, users>>
      /\ \A d \in Caller : Busy(d) => req[d].user # s.user
  BY <1>1 DEF Begin, MayStart, Tables, CInv, IInv, TypeOK
<1> QED BY <1>1, <1>2, ReadsKeep DEF EnteredAsAsked, UpToDate

(* The steps of user-create: the account is written before its request     *)
(* knows it, and the user before the request greets.                       *)
LEMMA CreatesCoordinated ==
  ASSUME CInv, IInv', NEW c \in Caller, Create(c) PROVE CInv'
<1> DEFINE q == req[c]
<1> USE RowFacts
<1>1. /\ req \in [Caller -> Request] /\ q \in Request
      /\ accounts \in [Account -> AccountRow \cup {NoAccount}]
      /\ users \in [User -> UserRow \cup {NoUser}]
  BY DEF CInv, IInv, TypeOK
<1>2. CASE \E code \in Answer : Respond(c, code) /\ UNCHANGED <<accounts, users>>
  BY <1>2, AnswersKeep
<1>3. ASSUME NEW step \in {"email", "username", "account"}, NEW roles \in SUBSET Role, Busy(c),
             req' = [req EXCEPT ![c].step = step, ![c].roles = roles], UNCHANGED <<accounts, users>>
      PROVE CInv'
  <2>1. req'[c] = [q EXCEPT !.step = step, !.roles = roles] /\ \A d \in Caller \ {c} : req'[d] = req[d]
    BY <1>1, <1>3
  <2>2. req'[c].step = step /\ req'[c].user = q.user
    BY <1>1, <2>1 DEF Request
  <2> QED BY <1>3, <2>1, <2>2, ReadsKeep DEF EnteredAsAsked, UpToDate
<1>4. CASE FindRoles(c)
  <2>1. PICK asked \in RoleList :
          LET found == {asked[i] : i \in DOMAIN asked} \cap liveRoles IN
          IF Cardinality(found) < Len(asked)
            THEN Respond(c, "404")
            ELSE req' = [req EXCEPT ![c].step = "email", ![c].roles = found]
    BY <1>4 DEF FindRoles
  <2> DEFINE found == {asked[i] : i \in DOMAIN asked} \cap liveRoles
  <2>2. Busy(c) /\ UNCHANGED <<accounts, users>> /\ found \in SUBSET Role
    BY <1>4 DEF FindRoles, Busy, Tables, CInv, IInv, TypeOK
  <2> HIDE DEF found
  <2>3. \/ Respond(c, "404")
        \/ req' = [req EXCEPT ![c].step = "email", ![c].roles = found]
    BY <2>1 DEF found
  <2> QED BY <1>2, <1>3, <2>2, <2>3 DEF Answer
<1>5. CASE FindEmail(c) \/ FindUsername(c)
  <2>1. Busy(c) /\ UNCHANGED <<accounts, users>>
        /\ (Respond(c, "409") \/ Goto(c, "username") \/ Goto(c, "account"))
    BY <1>5 DEF FindEmail, FindUsername, Busy, Tables
  <2>2. ASSUME NEW step \in {"username", "account"}, Goto(c, step)
        PROVE req' = [req EXCEPT ![c].step = step, ![c].roles = q.roles]
    <3>1. [q EXCEPT !.step = step] = [q EXCEPT !.step = step, !.roles = q.roles]
      BY <1>1 DEF Request
    <3>2. req' = [req EXCEPT ![c] = [q EXCEPT !.step = step]]
      BY <2>2 DEF Goto
    <3>3. req' = [req EXCEPT ![c] = [q EXCEPT !.step = step, !.roles = q.roles]]
      BY <3>1, <3>2
    <3> QED BY <3>3
  <2>3. q.roles \in SUBSET Role
    BY <1>1 DEF Request
  <2> QED BY <1>2, <1>3, <2>1, <2>2, <2>3 DEF Answer
<1>6. CASE AccountRejected(c) \/ Welcome(c)
  BY <1>2, <1>6 DEF AccountRejected, Welcome, Answer, Tables
<1>7. CASE InsertAccount(c)
  <2> DEFINE row == [email |-> q.email, username |-> q.username, roles |-> q.roles]
  <2>1. CreateDocument(q) /\ q.step = "account" /\ Busy(c)
    BY <1>7, CreatingRequest DEF InsertAccount, CInv, Busy
  <2>2. accounts' = [accounts EXCEPT ![q.account] = row] /\ UNCHANGED users /\ ~Taken(q)
        /\ req' = [req EXCEPT ![c].step = "user"]
    BY <1>7 DEF InsertAccount, Goto
  <2>3. q.account \in Account /\ ~AccountExists(q.account)
    BY <2>1 DEF CreateDocument
  <2>4. accounts'[q.account] = row /\ \A a \in Account \ {q.account} : accounts'[a] = accounts[a]
    BY <1>1, <2>2, <2>3
  <2>5. EmailsUnique'
    <3>1. \A a \in Account : accounts[a].email # q.email
      BY <2>2 DEF Taken
    <3> QED BY <2>3, <2>4, <3>1 DEF EmailsUnique, AccountExists, CInv
  <2>6. req'[c] = [q EXCEPT !.step = "user"] /\ \A d \in Caller \ {c} : req'[d] = req[d]
    BY <1>1, <2>2
  <2>7. ASSUME NEW d \in Caller \ {c}, req[d].step \in {"user", "welcome"}
        PROVE accounts'[req[d].account] = accounts[req[d].account]
    <3>1. CreateDocument(req[d])
      BY <2>7, CreatingRequest DEF CInv
    <3> QED BY <2>3, <2>4, <2>7, <3>1 DEF CreateDocument
  <2>8. EnteredAsAsked(req[c])' /\ UpToDate(req[c])' /\ req'[c].user = q.user
    BY <1>1, <2>4, <2>6 DEF EnteredAsAsked, UpToDate, Request
  <2> QED BY <2>1, <2>2, <2>5, <2>6, <2>7, <2>8, OthersKeep
<1>8. CASE InsertUser(c)
  <2> DEFINE row == [row |-> "live", account |-> q.account, profile |-> q.profile]
  <2>1. CreateDocument(q) /\ q.step = "user" /\ Busy(c)
    BY <1>8, CreatingRequest DEF InsertUser, CInv, Busy
  <2>2. users' = [users EXCEPT ![q.user] = row] /\ UNCHANGED accounts
        /\ req' = [req EXCEPT ![c].step = "welcome"]
    BY <1>8 DEF InsertUser, Goto
  <2>3. q.user \in User
    BY <2>1 DEF CreateDocument
  <2>4. users'[q.user] = row /\ \A u : u # q.user => users'[u] = users[u]
    BY <1>1, <2>2, <2>3
  <2>5. EmailsUnique'
    BY <2>2 DEF EmailsUnique, AccountExists, CInv
  <2>6. req'[c] = [q EXCEPT !.step = "welcome"] /\ \A d \in Caller \ {c} : req'[d] = req[d]
    BY <1>1, <2>2
  <2>7. \A d \in Caller \ {c} : Busy(d) => req[d].user # q.user
    BY <2>1 DEF CInv, OwnUser
  <2>8. accounts[q.account] = [email |-> q.email, username |-> q.username, roles |-> q.roles]
    BY <2>1 DEF CInv, EnteredAsAsked
  <2>9. EnteredAsAsked(req[c])' /\ UpToDate(req[c])' /\ req'[c].user = q.user
    BY <1>1, <2>2, <2>4, <2>6, <2>8 DEF EnteredAsAsked, UpToDate, Request
  <2> QED BY <2>1, <2>2, <2>4, <2>5, <2>6, <2>7, <2>9, OthersKeep
<1> QED BY <1>7, <1>8, <1>4, <1>5, <1>6 DEF Create

(* No other request holds the user a coordinated request writes. *)
LEMMA NobodyIsNoted ==
  ASSUME CInv, NEW c \in Caller, WritesUser(c), NEW d \in Caller, d # c PROVE req'[d] = req[d]
<1>1. Busy(c) /\ req[d] \in Request
  BY DEF WritesUser, SaveUser, SaveReset, SoftRemove, Busy, CInv, IInv, TypeOK
<1>2. ~Holds(d, req[c].user)
  BY <1>1 DEF Holds, Busy, CInv, OwnUser
<1>3. PICK row \in UserRow, q \in Request : Writes(c, row, q)
  BY UserWrites DEF WritesUser, CInv
<1>4. req'[d] = [req[d] EXCEPT !.stale = @ \/ (Holds(d, req[c].user) /\ users[req[c].user] # row)]
  BY <1>3 DEF Writes
<1>5. (req[d].stale \/ (Holds(d, req[c].user) /\ users[req[c].user] # row)) = req[d].stale
  BY <1>1, <1>2 DEF Request
<1>6. req'[d] = [req[d] EXCEPT !.stale = req[d].stale]
  BY <1>4, <1>5
<1> QED BY <1>1, <1>6 DEF Request

(* The steps of the other handlers: a write is to the user of the request, *)
(* on which no other request works.                                        *)
LEMMA ChangesCoordinated ==
  ASSUME CInv, IInv', NEW c \in Caller, Change(c) PROVE CInv'
<1> DEFINE q == req[c]
<1> USE RowFacts
<1>0. IInv
  BY DEF CInv
<1>1. /\ req \in [Caller -> Request] /\ q \in Request
      /\ users \in [User -> UserRow \cup {NoUser}]
  BY DEF CInv, IInv, TypeOK
<1>2. ChangeDocument(q) /\ Busy(c) /\ UpToDate(q)
  BY ChangingRequest DEF Change, UserNotFound, UserWithoutRole, ReadForUpdate, ReadForReset, FindReset,
     LoadUser, SaveUser, SaveReset, Reread, ReadForDelete, SoftRemove, ChangePasswordFails, CInv, Busy
<1>3. q.user \in User /\ (LiveUser(q.user) => users[q.user] \in UserRow)
      /\ \A d \in Caller \ {c} : Busy(d) => req[d].user \in User /\ req[d].user # q.user
  BY <1>1, <1>2 DEF ChangeDocument, CreateDocument, DocumentOf, LiveUser, Busy, CInv, IInv, OwnUser
<1>4. CASE UserNotFound(c) \/ UserWithoutRole(c) \/ Reread(c) \/ ChangePasswordFails(c)
  BY <1>4, AnswersKeep DEF UserNotFound, UserWithoutRole, Reread, ChangePasswordFails, Answer, Tables
<1>5. ASSUME Reading(c), EnteredAsAsked(req[c])', UpToDate(req[c])' PROVE CInv'
  <2>1. UNCHANGED <<accounts, users>> /\ \A d \in Caller \ {c} : req'[d] = req[d]
    BY <1>0, <1>5, Reads
  <2>2. req'[c].step # "idle" => req'[c].user = q.user
    BY <1>0, <1>5, Reads
  <2> QED BY <1>2, <1>5, <2>1, <2>2, ReadsKeep DEF Busy
<1>6. CASE ReadForUpdate(c)
  <2>1. /\ req'[c].step = "load" /\ req'[c].user = q.user /\ req'[c].sent = q.sent
        /\ req'[c].op = "user-update" /\ req'[c].profile = Over(users[q.user], q)
        /\ LiveUser(q.user) /\ UNCHANGED users
    BY <1>0, <1>6, Reads DEF Reading
  <2>2. \A k \in Column \ q.sent : Over(users[q.user], q)[k] = users[q.user].profile[k]
    BY DEF Over
  <2>3. EnteredAsAsked(req[c])' /\ UpToDate(req[c])'
    BY <2>1, <2>2 DEF EnteredAsAsked, UpToDate, LiveUser
  <2> QED BY <1>5, <1>6, <2>3 DEF Reading
<1>7. CASE ReadForReset(c)
  <2>1. /\ req'[c].step = "row" /\ req'[c].user = q.user /\ req'[c].sent = q.sent
        /\ req'[c].op = "reset-password-send-email" /\ req'[c].profile = users[q.user].profile
        /\ LiveUser(q.user) /\ UNCHANGED users
    BY <1>0, <1>7, Reads DEF Reading
  <2>2. EnteredAsAsked(req[c])' /\ UpToDate(req[c])'
    BY <2>1 DEF EnteredAsAsked, UpToDate, LiveUser
  <2> QED BY <1>5, <1>7, <2>2 DEF Reading
<1>8. CASE FindReset(c)
  <2>1. /\ req'[c].step # "idle" =>
             /\ req'[c].step = "load" /\ req'[c].user = q.user /\ req'[c].sent = q.sent
             /\ req'[c].op = q.op /\ req'[c].profile = q.profile
        /\ q.step = "row" /\ UNCHANGED users
    BY <1>0, <1>8, Reads DEF Reading
  <2>2. EnteredAsAsked(req[c])' /\ UpToDate(req[c])'
    BY <1>2, <2>1 DEF EnteredAsAsked, UpToDate, LiveUser
  <2> QED BY <1>5, <1>8, <2>2 DEF Reading
<1>9. CASE LoadUser(c)
  <2>1. /\ req'[c].step = "commit" /\ req'[c].user = q.user /\ req'[c].sent = q.sent
        /\ req'[c].op = q.op /\ req'[c].profile = q.profile
        /\ req'[c].columns = Changed(users[q.user], q)
        /\ q.step = "load" /\ UNCHANGED users
    BY <1>0, <1>9, Reads DEF Reading
  <2>2. Changed(users[q.user], q) = {k \in Column : users[q.user].profile[k] # q.profile[k]}
    BY <1>2, <2>1 DEF Changed, UpToDate, LiveUser
  <2>3. EnteredAsAsked(req[c])' /\ UpToDate(req[c])'
    BY <1>2, <2>1, <2>2 DEF EnteredAsAsked, UpToDate, LiveUser
  <2> QED BY <1>5, <1>9, <2>3 DEF Reading
<1>10. CASE ReadForDelete(c)
  <2>1. /\ req'[c] = [q EXCEPT !.step = "remove"] /\ UNCHANGED <<accounts, users>>
        /\ \A d \in Caller \ {c} : req'[d] = req[d]
        /\ LiveUser(q.user) /\ q.op = "user-delete"
    BY <1>1, <1>10 DEF ReadForDelete, Tables, Goto
  <2>2. EnteredAsAsked(req[c])' /\ UpToDate(req[c])' /\ req'[c].user = q.user
    BY <1>1, <2>1 DEF EnteredAsAsked, UpToDate, Request, LiveUser
  <2> QED BY <1>2, <2>1, <2>2, ReadsKeep
<1>11. ASSUME WritesUser(c)
       PROVE /\ EmailsUnique' /\ accounts' = accounts
             /\ \A u \in User : u # q.user => users'[u] = users[u]
             /\ \A d \in Caller \ {c} : req'[d] = req[d]
  <2>1. accounts' = accounts /\ EmailsUnique /\ \A u \in User : u # q.user => users'[u] = users[u]
    BY <1>0, <1>11, SavedUser DEF CInv
  <2>2. EmailsUnique'
    BY <2>1 DEF EmailsUnique, AccountExists
  <2> QED BY <1>11, <2>1, <2>2, NobodyIsNoted
<1>12. ASSUME SaveReset(c) \/ SoftRemove(c) PROVE req'[c].step = "idle"
  <2>1. \A row, p : Writes(c, row, p) => req'[c] = p
    BY <1>1 DEF Writes
  <2> QED BY <1>12, <2>1 DEF SaveReset, SoftRemove, Idle
<1>13. CASE SaveUser(c)
  <2>1. q.step = "commit" /\ q.op = "user-update"
    BY <1>13 DEF SaveUser
  <2>2. req'[c] = [q EXCEPT !.step = "reread"]
    BY <1>1, <1>13 DEF SaveUser, Writes
  <2>3. LiveUser(q.user) /\ users[q.user] \in UserRow /\ users'[q.user] = Written(users[q.user], q)
    BY <1>0, <1>2, <1>13, <2>1, SavedUser DEF WritesUser, UpToDate
  <2>4. /\ users'[q.user].row = "live"
        /\ users'[q.user].profile = [k \in Column |-> IF k \in q.columns THEN q.profile[k]
                                                       ELSE users[q.user].profile[k]]
    BY <1>1, <2>3, WrittenRow DEF LiveUser
  <2>5. \A k \in q.sent : users'[q.user].profile[k] = q.profile[k]
    BY <1>1, <1>2, <2>1, <2>4 DEF UpToDate, Request
  <2>6. EnteredAsAsked(req[c])' /\ UpToDate(req[c])' /\ req'[c].user = q.user
    BY <1>1, <1>2, <2>1, <2>2, <2>4, <2>5 DEF EnteredAsAsked, UpToDate, Request, LiveUser
  <2> QED BY <1>0, <1>2, <1>3, <1>11, <1>13, <2>6, OthersKeep DEF WritesUser
<1>14. CASE SaveReset(c) \/ SoftRemove(c)
  <2>1. EnteredAsAsked(req[c])' /\ UpToDate(req[c])' /\ ~Busy(c)'
    BY <1>12, <1>14 DEF EnteredAsAsked, UpToDate, Busy
  <2> QED BY <1>0, <1>3, <1>11, <1>14, <2>1, OthersKeep DEF WritesUser
<1> QED BY <1>4, <1>6, <1>7, <1>8, <1>9, <1>10, <1>13, <1>14 DEF Change

LEMMA NextCoordinated == CInv /\ [Next]_vars => CInv'
<1> SUFFICES ASSUME CInv, [Next]_vars PROVE CInv'
  OBVIOUS
<1>1. IInv'
  BY NextKeeps DEF CInv
<1>2. CASE UNCHANGED <<accounts, users, req>>
  <2>1. EmailsUnique' /\ OwnUser'
    BY <1>2 DEF CInv, EmailsUnique, OwnUser, Busy, AccountExists
  <2>2. \A c \in Caller : EnteredAsAsked(req[c])' /\ UpToDate(req[c])'
    BY <1>2 DEF CInv, EnteredAsAsked, UpToDate, LiveUser
  <2> QED BY <1>1, <2>1, <2>2 DEF CInv
<1>3. ASSUME NEW c \in Caller, Dropped(c) PROVE CInv'
  BY <1>1, <1>3, AnswersKeep DEF Dropped, Tables, Answer
<1>4. CASE UNCHANGED vars \/ \E r \in Role : RoleChanges(r)
  BY <1>2, <1>4 DEF vars, RoleChanges, Tables
<1> QED BY <1>1, <1>3, <1>4, StartsCoordinated, CreatesCoordinated, ChangesCoordinated DEF Next

(* Coordinated requests know the rows they work on (MayStart).             *)
THEOREM CoordinatedInductive == Spec /\ Coordinated => []CInv
BY InitCInv, NextCoordinated, PTL DEF Spec

(* How a request in flight ends: the handler that answers each code, and   *)
(* what it knows when it does.                                             *)
LEMMA AnswersGiven ==
  ASSUME CInv, NEW c \in Caller, Acts(c), req[c].op # "none", req'[c].step = "idle",
         req'[c].answer \in {"200", "404", "409"}
  PROVE \/ Welcome(c) /\ req'[c].answer = "200"
        \/ FindRoles(c) \/ FindEmail(c) \/ FindUsername(c)
        \/ UserNotFound(c) /\ req'[c].answer = "404"
        \/ Reread(c) /\ LiveUser(req[c].user)
        \/ SoftRemove(c)
<1>1. Busy(c) /\ req \in [Caller -> Request]
  BY DEF CInv, IInv, TypeOK, DocumentOf, CreateDocument, ChangeDocument, Busy
<1>2. \A code : Respond(c, code) => req'[c].answer = code
  BY <1>1 DEF Respond, Idle
<1>3. \A step : Goto(c, step) => req'[c].step = step
  BY <1>1 DEF Goto, Request
<1>4. ~Start(c) /\ ~Dropped(c)
  BY <1>1, <1>2, Starts DEF Begin, Dropped
<1>5. ~InsertAccount(c) /\ ~InsertUser(c) /\ ~AccountRejected(c)
  BY <1>2, <1>3 DEF InsertAccount, InsertUser, AccountRejected
<1>6. ~UserWithoutRole(c) /\ ~ReadForDelete(c) /\ ~ChangePasswordFails(c) /\ ~FindReset(c)
  BY <1>2, <1>3 DEF UserWithoutRole, ReadForDelete, ChangePasswordFails, FindReset
<1>7. ~ReadForUpdate(c) /\ ~ReadForReset(c) /\ ~LoadUser(c)
  <2>1. IInv
    BY DEF CInv
  <2> QED BY <2>1, Reads DEF Reading
<1>11. ~SaveUser(c) /\ ~SaveReset(c)
  <2>1. ~SaveUser(c)
    BY <1>1 DEF SaveUser, Writes, Request
  <2>2. ~SaveReset(c)
    BY <1>1 DEF SaveReset, Writes, Idle
  <2> QED BY <2>1, <2>2
<1>8. Welcome(c) => req'[c].answer = "200"
  BY <1>2 DEF Welcome
<1>9. UserNotFound(c) => req'[c].answer = "404"
  BY <1>2 DEF UserNotFound
<1>10. Reread(c) => LiveUser(req[c].user)
  BY <1>2 DEF Reread
<1> QED BY <1>4, <1>5, <1>6, <1>7, <1>8, <1>9, <1>10, <1>11 DEF Acts, Create, Change

(* A coordinated request answered 200 has done what it was asked, and a    *)
(* user-create answered 404 or 409 has left nothing behind.                *)
THEOREM CoordinatedAnswers == Spec /\ Coordinated => AnswersTell
<1>1. ASSUME CInv, Next PROVE AnswerIsTrue
  <2> SUFFICES ASSUME NEW c \in Caller, req[c].op # "none", req'[c].step = "idle",
                      req'[c].answer \in {"200", "404", "409"}
               PROVE LET q == req[c] IN
                 /\ Ends(c, "user-create", {"200"}) =>
                      /\ users'[q.user].row = "live" /\ users'[q.user].profile = q.profile
                      /\ accounts'[users'[q.user].account] =
                           [email |-> q.email, username |-> q.username, roles |-> q.roles]
                 /\ Ends(c, "user-create", {"404", "409"}) => accounts'[q.account] = NoAccount
                 /\ Ends(c, "user-update", {"200"}) =>
                      /\ users'[q.user].row = "live"
                      /\ \A k \in q.sent : users'[q.user].profile[k] = q.profile[k]
                 /\ Ends(c, "user-delete", {"200"}) => users'[q.user].row # "live"
    BY DEF AnswerIsTrue, Ends
  <2> DEFINE q == req[c]
  <2>1. req \in [Caller -> Request] /\ DocumentOf(q) /\ EnteredAsAsked(q) /\ UpToDate(q)
    BY <1>1 DEF CInv, IInv, TypeOK
  <2>2. Acts(c)
    <3>1. ~Alike(req'[c], req[c])
      BY <2>1 DEF DocumentOf, CreateDocument, ChangeDocument, Alike
    <3> QED BY <1>1, <3>1, OwnStep DEF CInv
  <2>3. CASE Welcome(c) /\ req'[c].answer = "200"
    <3>1. CreateDocument(q) /\ q.step = "welcome" /\ UNCHANGED <<accounts, users>>
      BY <1>1, <2>3, CreatingRequest DEF Welcome, Tables, CInv
    <3>2. /\ users[q.user] = [row |-> "live", account |-> q.account, profile |-> q.profile]
          /\ accounts[q.account] = [email |-> q.email, username |-> q.username, roles |-> q.roles]
      BY <2>1, <3>1 DEF EnteredAsAsked
    <3> QED BY <2>3, <3>1, <3>2 DEF Ends, CreateDocument
  <2>4. CASE FindRoles(c) \/ FindEmail(c) \/ FindUsername(c)
    <3>1. q.step \in {"roles", "email", "username"} /\ UNCHANGED <<accounts, users>>
      BY <2>4 DEF FindRoles, FindEmail, FindUsername, Tables
    <3>2. \/ Respond(c, "404") \/ Respond(c, "409")
          \/ Goto(c, "username") \/ Goto(c, "account")
          \/ \E roles : req' = [req EXCEPT ![c].step = "email", ![c].roles = roles]
      BY <2>4 DEF FindRoles, FindEmail, FindUsername
    <3>3. req'[c].answer # "200"
      BY <2>1, <3>2 DEF Respond, Goto, Idle, Request
    <3>4. q.op = "user-create" /\ accounts[q.account] = NoAccount
      BY <2>1, <3>1 DEF DocumentOf, CreateDocument, ChangeDocument, AccountExists
    <3> QED BY <3>1, <3>3, <3>4 DEF Ends
  <2>5. CASE UserNotFound(c) /\ req'[c].answer = "404"
    <3>1. q.op # "user-create"
      BY <1>1, <2>5, ChangingRequest DEF UserNotFound, CInv
    <3> QED BY <2>5, <3>1 DEF Ends
  <2>6. CASE Reread(c) /\ LiveUser(q.user)
    <3>1. q.op = "user-update" /\ UNCHANGED users
          /\ \A k \in q.sent : users[q.user].profile[k] = q.profile[k]
      BY <2>1, <2>6 DEF Reread, UpToDate, Tables
    <3> QED BY <2>6, <3>1 DEF Ends, LiveUser
  <2>7. CASE SoftRemove(c)
    <3>1. q.op = "user-delete" /\ LiveUser(q.user) /\ q.user \in User
      BY <2>1, <2>7 DEF SoftRemove, UpToDate, DocumentOf, CreateDocument, ChangeDocument
    <3>2. users'[q.user].row = "deleted"
      BY <1>1, <2>7, SavedUser DEF WritesUser, CInv, UserRow
    <3> QED BY <3>1, <3>2 DEF Ends
  <2> QED BY <1>1, <2>2, <2>3, <2>4, <2>5, <2>6, <2>7, AnswersGiven
<1>2. CInv /\ [Next]_vars => [AnswerIsTrue]_vars
  BY <1>1
<1> QED BY <1>2, CoordinatedInductive, PTL DEF AnswersTell, Spec

----------------------------------------------------------------------------
(* Coordinated requests implement UserDirectory.  An e-mail has the owner  *)
(* entered under it, and only one user can be; HasAccount(e) is an e-mail  *)
(* reserved when no user is.                                               *)
HasAccount(e) == \E a \in Account : accounts[a].email = e
Owned(e) ==
  /\ \A u \in User : EnteredUnder(u, e) => OwnerOf(e) = u
  /\ ~(\E u \in User : EnteredUnder(u, e)) => OwnerOf(e) = IF HasAccount(e) THEN Reserved ELSE NoId
OwnersKnown == \A e \in Email : Owned(e)

LEMMA Ownership == CInv => OwnersKnown
<1> SUFFICES ASSUME CInv, NEW e \in Email PROVE Owned(e)
  BY DEF OwnersKnown
<1>1. ASSUME NEW u \in User, EnteredUnder(u, e) PROVE OwnerOf(e) = u
  <2>1. \A v \in User : EnteredUnder(v, e) => v = u
    BY <1>1, RowFacts DEF EnteredUnder, UserExists, CInv, IInv, TypeOK, OneUserPerAccount,
       EmailsUnique, UserRow
  <2> QED BY <1>1, <2>1 DEF OwnerOf
<1>2. ASSUME ~\E u \in User : EnteredUnder(u, e)
      PROVE OwnerOf(e) = IF HasAccount(e) THEN Reserved ELSE NoId
  BY <1>2 DEF OwnerOf, HasAccount
<1> QED BY <1>1, <1>2 DEF Owned

LEMMA OwnershipNext == CInv' => OwnersKnown'
BY Ownership, PTL

LEMMA OwnerTypes == CInv => \A e \in Email : OwnerOf(e) \in User \cup {NoId, Reserved}
BY Ownership DEF OwnersKnown, Owned

(* Who has an e-mail depends on the users entered under it alone.          *)
LEMMA SameOwner ==
  ASSUME CInv, CInv', NEW e \in Email,
         \A u \in User : EnteredUnder(u, e)' <=> EnteredUnder(u, e),
         HasAccount(e)' <=> HasAccount(e)
  PROVE OwnerOf(e)' = OwnerOf(e)
<1>1. Owned(e) /\ Owned(e)'
  BY Ownership, OwnershipNext DEF OwnersKnown
<1>2. CASE \E u \in User : EnteredUnder(u, e)
  <2>1. PICK u \in User : EnteredUnder(u, e)
    BY <1>2
  <2>2. OwnerOf(e) = u
    BY <1>1, <2>1 DEF Owned
  <2>3. OwnerOf(e)' = u
    BY <1>1, <2>1 DEF Owned
  <2> QED BY <2>2, <2>3
<1>3. CASE ~\E u \in User : EnteredUnder(u, e)
  <2>1. OwnerOf(e) = IF HasAccount(e) THEN Reserved ELSE NoId
    BY <1>1, <1>3 DEF Owned
  <2>2. OwnerOf(e)' = IF HasAccount(e)' THEN Reserved ELSE NoId
    BY <1>1, <1>3 DEF Owned
  <2> QED BY <2>1, <2>2
<1> QED BY <1>2, <1>3

LEMMA StartsAsDirectory == CInv => Directory!Init
<1> SUFFICES ASSUME CInv PROVE Directory!Init
  OBVIOUS
<1>1. \A e \in Email : OwnerOf(e) \in User \cup {NoId, Reserved}
  BY OwnerTypes
<1>2. \A e \in Email, u \in User : OwnerOf(e) = u <=> EnteredUnder(u, e)
  BY Ownership, ConstantsAssumption DEF OwnersKnown, Owned
<1>3. ASSUME NEW d \in Email, NEW e \in Email, OwnerOf(d) = OwnerOf(e), OwnerOf(d) \in User PROVE d = e
  BY <1>2, <1>3 DEF EnteredUnder
<1>4. ASSUME NEW u \in User, LiveUser(u) PROVE \E e \in Email : OwnerOf(e) = u
  <2>1. UserExists(u) /\ users[u].account \in Account /\ AccountExists(users[u].account)
    BY <1>4, RowFacts DEF CInv, IInv, TypeOK, OneUserPerAccount, LiveUser, UserExists, UserRow
  <2>2. accounts[users[u].account].email \in Email
    BY <2>1 DEF CInv, IInv, TypeOK, AccountExists, AccountRow
  <2>3. EnteredUnder(u, accounts[users[u].account].email)
    BY <2>1 DEF EnteredUnder
  <2> QED BY <1>2, <2>2, <2>3
<1>5. \A u \in User : users[u].profile \in [Column -> Value]
  BY ConstantsAssumption DEF CInv, IInv, TypeOK, UserRow, NoUser, NoProfile
<1> QED BY <1>1, <1>3, <1>4, <1>5 DEF Directory!Init, Directory!Entered

(* A step that leaves both tables alone is none of the directory's.        *)
LEMMA TablesStutter ==
  ASSUME CInv, CInv', UNCHANGED <<accounts, users>> PROVE UNCHANGED Directory!vars
<1>1. ASSUME NEW e \in Email PROVE OwnerOf(e)' = OwnerOf(e)
  BY SameOwner DEF EnteredUnder, UserExists, HasAccount
<1>2. [e \in Email |-> OwnerOf(e)]' = [e \in Email |-> OwnerOf(e)]
  BY <1>1
<1> QED BY <1>2 DEF Directory!vars, LiveUser

LEMMA AccountReserves ==
  ASSUME CInv, CInv', NEW c \in Caller, InsertAccount(c) PROVE Directory!Next
<1> DEFINE q == req[c]
<1> USE RowFacts
<1>1. CreateDocument(q) /\ q.step = "account"
  BY CreatingRequest DEF InsertAccount, CInv
<1>ids. PICK a \in Account, e0 \in Email : a = q.account /\ e0 = q.email
  BY <1>1 DEF CreateDocument
<1>2. /\ accounts' = [accounts EXCEPT ![a] =
                        [email |-> e0, username |-> q.username, roles |-> q.roles]]
      /\ UNCHANGED users /\ \A b \in Account : accounts[b].email # e0
  BY <1>ids DEF InsertAccount, Taken
<1>3. a \in Account /\ e0 \in Email /\ ~AccountExists(a)
  BY <1>ids, <1>1 DEF CreateDocument
<1>4. accounts'[a].email = e0 /\ \A b \in Account \ {a} : accounts'[b] = accounts[b]
  BY <1>2, <1>3 DEF CInv, IInv, TypeOK
<1>5. \A u \in User : UserExists(u) => users[u].account \in Account \ {a}
  BY <1>3 DEF CInv, IInv, TypeOK, OneUserPerAccount, UserExists, UserRow
<1>6. \A u \in User, e \in Email : EnteredUnder(u, e)' <=> EnteredUnder(u, e)
  BY <1>2, <1>4, <1>5 DEF EnteredUnder, UserExists
<1>7. ~\E u \in User : EnteredUnder(u, e0)
  BY <1>2, <1>5 DEF EnteredUnder
<1>8. OwnerOf(e0) = NoId
  <2>1. Owned(e0) /\ ~HasAccount(e0)
    BY <1>2, <1>3, Ownership DEF OwnersKnown, HasAccount
  <2> QED BY <1>7, <2>1 DEF Owned
<1>9. OwnerOf(e0)' = Reserved
  <2>1. Owned(e0)' /\ HasAccount(e0)' /\ ~(\E u \in User : EnteredUnder(u, e0)')
    BY <1>3, <1>4, <1>6, <1>7, OwnershipNext DEF OwnersKnown, HasAccount
  <2> QED BY <2>1 DEF Owned
<1>10. ASSUME NEW e \in Email, e # e0 PROVE OwnerOf(e)' = OwnerOf(e)
  <2>1. accounts[a].email # e
    BY <1>3, <1>10, ConstantsAssumption DEF AccountExists
  <2>2. HasAccount(e)' <=> HasAccount(e)
    BY <1>3, <1>4, <1>10, <2>1 DEF HasAccount
  <2> QED BY <1>6, <2>2, SameOwner
<1>11. [e \in Email |-> OwnerOf(e)]' = [[e \in Email |-> OwnerOf(e)] EXCEPT ![e0] = Reserved]
  BY <1>9, <1>10
<1>12. Directory!Reserve(e0)
  BY <1>2, <1>3, <1>8, <1>11 DEF Directory!Reserve, LiveUser
<1> QED BY <1>3, <1>12 DEF Directory!Next

LEMMA UserEnters ==
  ASSUME CInv, CInv', NEW c \in Caller, InsertUser(c) PROVE Directory!Next
<1> DEFINE q == req[c]
<1> USE RowFacts
<1>1. CreateDocument(q) /\ q.step = "user" /\ q \in Request
  BY CreatingRequest DEF InsertUser, CInv
<1>ids. PICK a \in Account, e0 \in Email, u0 \in User, x \in [Column -> Value] :
        a = q.account /\ e0 = q.email /\ u0 = q.user /\ x = q.profile
  BY <1>1 DEF CreateDocument, Request
<1>2. /\ users' = [users EXCEPT ![u0] =
                     [row |-> "live", account |-> a, profile |-> x]]
      /\ UNCHANGED accounts
  BY <1>ids DEF InsertUser
<1>3. /\ a \in Account /\ e0 \in Email /\ u0 \in User /\ x \in [Column -> Value]
      /\ ~UserExists(u0) /\ AccountExists(a) /\ accounts[a].email = e0
      /\ \A u \in User : users[u].account # a
  BY <1>ids, <1>1 DEF CreateDocument
<1>4. /\ users'[u0] = [row |-> "live", account |-> a, profile |-> x]
      /\ \A u \in User \ {u0} : users'[u] = users[u]
  BY <1>2, <1>3 DEF CInv, IInv, TypeOK
<1>5. \A u \in User \ {u0}, e \in Email : EnteredUnder(u, e)' <=> EnteredUnder(u, e)
  BY <1>2, <1>4 DEF EnteredUnder, UserExists
<1>6. /\ EnteredUnder(u0, e0)'
      /\ \A e \in Email : ~EnteredUnder(u0, e) /\ (e # e0 => ~EnteredUnder(u0, e)')
  BY <1>2, <1>3, <1>4 DEF EnteredUnder, UserExists
<1>7. ~\E u \in User : EnteredUnder(u, e0)
  BY <1>3 DEF EnteredUnder, CInv, IInv, TypeOK, OneUserPerAccount, EmailsUnique, UserExists, UserRow
<1>8. OwnerOf(e0) = Reserved
  <2>1. Owned(e0) /\ HasAccount(e0)
    BY <1>3, Ownership DEF OwnersKnown, HasAccount
  <2> QED BY <1>7, <2>1 DEF Owned
<1>9. OwnerOf(e0)' = u0
  BY <1>3, <1>6, OwnershipNext DEF OwnersKnown, Owned
<1>10. ASSUME NEW e \in Email, e # e0 PROVE OwnerOf(e)' = OwnerOf(e)
  <2>1. HasAccount(e)' <=> HasAccount(e)
    BY <1>2 DEF HasAccount
  <2>2. \A u \in User : EnteredUnder(u, e)' <=> EnteredUnder(u, e)
    BY <1>5, <1>6, <1>10
  <2> QED BY <2>1, <2>2, SameOwner
<1>11. [e \in Email |-> OwnerOf(e)]' = [[e \in Email |-> OwnerOf(e)] EXCEPT ![e0] = u0]
  BY <1>9, <1>10
<1>12. \A e \in Email : OwnerOf(e) # u0
  BY <1>3, <1>6, Ownership, ConstantsAssumption DEF OwnersKnown, Owned
<1>13. {u \in User : LiveUser(u)}' = {u \in User : LiveUser(u)} \cup {u0}
  BY <1>3, <1>4 DEF LiveUser
<1>14. [u \in User |-> users[u].profile]' = [[u \in User |-> users[u].profile] EXCEPT ![u0] = x]
  <2>1. \A u \in User : users'[u].profile = IF u = u0 THEN x ELSE users[u].profile
    BY <1>4
  <2> QED BY <2>1
<1>15. Directory!Enter(u0, e0, x)
  BY <1>3, <1>8, <1>11, <1>12, <1>13, <1>14 DEF Directory!Enter, Directory!Entered
<1> QED BY <1>3, <1>15 DEF Directory!Next

(* A write that keeps a user on its account keeps the e-mails' owners. *)
LEMMA OwnersStay ==
  ASSUME CInv, CInv', UNCHANGED accounts,
         \A u \in User : users'[u].account = users[u].account /\ (UserExists(u)' <=> UserExists(u))
  PROVE [e \in Email |-> OwnerOf(e)]' = [e \in Email |-> OwnerOf(e)]
<1>1. ASSUME NEW e \in Email PROVE OwnerOf(e)' = OwnerOf(e)
  BY SameOwner DEF EnteredUnder, HasAccount
<1> QED BY <1>1

LEMMA SaveChanges ==
  ASSUME CInv, CInv', NEW c \in Caller, WritesUser(c) PROVE [Directory!Next]_(Directory!vars)
<1> DEFINE q == req[c]
<1> USE RowFacts
<1>0. IInv /\ q \in Request /\ UpToDate(q)
  BY DEF CInv, IInv, TypeOK
<1>ids. PICK u0 \in User : u0 = q.user
  BY <1>0, SavedUser
<1>1. LiveUser(u0) /\ users[u0] \in UserRow /\ users'[u0] \in UserRow
  <2>1. q.step \in {"commit", "remove"}
    BY DEF WritesUser, SaveUser, SaveReset, SoftRemove
  <2> QED BY <1>0, <1>ids, <2>1, SavedUser DEF UpToDate
<1>2. UNCHANGED accounts /\ \A u \in User \ {u0} : users'[u] = users[u]
  BY <1>0, <1>ids, SavedUser
<1>3. users'[u0].account = users[u0].account
  BY <1>0, <1>ids, SavedUser
<1>4. [e \in Email |-> OwnerOf(e)]' = [e \in Email |-> OwnerOf(e)]
  <2>1. UserExists(u0) /\ UserExists(u0)'
    BY <1>1 DEF UserExists
  <2>2. \A u \in User : users'[u].account = users[u].account /\ (UserExists(u)' <=> UserExists(u))
    BY <1>2, <1>3, <2>1 DEF UserExists
  <2> QED BY <1>2, <2>2, OwnersStay
<1>5. CASE SaveUser(c) \/ SaveReset(c)
  <2>0. users'[u0] = Written(users[u0], q)
    BY <1>0, <1>ids, <1>5, SavedUser
  <2>1. users'[u0].row = "live" /\ users'[u0].profile \in [Column -> Value]
    BY <1>0, <1>1, <2>0, WrittenRow DEF UserRow, LiveUser
  <2>new. PICK columns \in [Column -> Value] : columns = users'[u0].profile
    BY <2>1
  <2>2. {u \in User : LiveUser(u)}' = {u \in User : LiveUser(u)}
    BY <1>1, <1>2, <2>1 DEF LiveUser
  <2>3. [u \in User |-> users[u].profile]' = [[u \in User |-> users[u].profile] EXCEPT ![u0] = columns]
    BY <1>2, <2>new
  <2>4. Directory!Change(u0, columns)
    BY <1>1, <1>4, <2>2, <2>3 DEF Directory!Change
  <2> QED BY <1>1, <2>4 DEF Directory!Next
<1>6. CASE SoftRemove(c)
  <2>0. users'[u0] = [users[u0] EXCEPT !.row = "deleted"]
    BY <1>0, <1>ids, <1>6, SavedUser
  <2>1. users'[u0].row = "deleted" /\ users'[u0].profile = users[u0].profile
    BY <1>1, <2>0 DEF UserRow
  <2>2. {u \in User : LiveUser(u)}' = {u \in User : LiveUser(u)} \ {u0}
    BY <1>1, <1>2, <2>1 DEF LiveUser
  <2>3. [u \in User |-> users[u].profile]' = [u \in User |-> users[u].profile]
    BY <1>1, <1>2, <2>1
  <2>4. Directory!Remove(u0)
    BY <1>1, <1>4, <2>2, <2>3 DEF Directory!Remove
  <2> QED BY <1>1, <2>4 DEF Directory!Next
<1> QED BY <1>5, <1>6 DEF WritesUser

LEMMA NextIsDirectory == CInv /\ CInv' /\ [Next]_vars => [Directory!Next]_(Directory!vars)
<1> SUFFICES ASSUME CInv, CInv', [Next]_vars PROVE [Directory!Next]_(Directory!vars)
  OBVIOUS
<1>1. CASE UNCHANGED <<accounts, users>>
  BY <1>1, TablesStutter
<1>2. CASE \E c \in Caller : InsertAccount(c) \/ InsertUser(c)
  BY <1>2, AccountReserves, UserEnters
<1>3. CASE \E c \in Caller : WritesUser(c)
  BY <1>3, SaveChanges
<1> QED BY <1>1, <1>2, <1>3, TableSteps

(* Coordinated requests implement the directory: an e-mail is reserved     *)
(* once and for one user, only a listed user changes, and a removed one    *)
(* does not come back (user-create.ts, user-update.ts, user-delete.ts).    *)
THEOREM Refinement == Spec /\ Coordinated => Promise
<1>1. Init /\ Coordinated => Directory!Init
  BY InitCInv, StartsAsDirectory
<1> QED BY <1>1, NextIsDirectory, CoordinatedInductive, PTL DEF Spec, Promise, Directory!Spec
----------------------------------------------------------------------------
(* What is entered stays entered.                                          *)

(* RowsStand: an account row never changes and never goes, nor does a user *)
(* ever leave its account (no handler writes accounts but user-create, and *)
(* a save of a user writes neither id).                                    *)
RowsStand ==
  /\ \A a \in Account : AccountExists(a) => accounts'[a] = accounts[a]
  /\ \A u \in User : UserExists(u) => UserExists(u)' /\ users'[u].account = users[u].account

(* So whoever is entered under an e-mail stays entered under it, whatever  *)
(* overlaps, fails or is cut off.                                          *)
THEOREM AddressesStand ==
  Spec => [][/\ RowsStand
             /\ \A u \in User, e \in Email : EnteredUnder(u, e) => EnteredUnder(u, e)']_vars
<1> DEFINE Stand == /\ RowsStand
                    /\ \A u \in User, e \in Email : EnteredUnder(u, e) => EnteredUnder(u, e)'
<1>1. ASSUME IInv, Next PROVE RowsStand
  <2>1. ASSUME NEW c \in Caller, WritesUser(c) PROVE RowsStand
    BY <2>1, <1>1, SavedUser, RowFacts DEF RowsStand, UserExists
  <2>2. ASSUME NEW c \in Caller, InsertAccount(c) \/ InsertUser(c) PROVE RowsStand
    BY <2>2, <1>1, InsertedRows DEF RowsStand, UserExists, AccountExists
  <2>3. CASE UNCHANGED <<accounts, users>>
    BY <2>3 DEF RowsStand, UserExists
  <2> QED BY <1>1, <2>1, <2>2, <2>3, TableSteps
<1>2. ASSUME IInv, RowsStand, NEW u \in User, NEW e \in Email, EnteredUnder(u, e)
      PROVE EnteredUnder(u, e)'
  <2>1. UserExists(u) /\ AccountExists(users[u].account) /\ users[u].account \in Account
    BY <1>2, RowFacts DEF EnteredUnder, IInv, TypeOK, OneUserPerAccount, UserExists, UserRow
  <2> QED BY <1>2, <2>1 DEF EnteredUnder, RowsStand
<1>3. IInv /\ [Next]_vars => [Stand]_vars
  BY <1>1, <1>2
<1> QED BY <1>3, Inductive, PTL DEF Spec

(* Unowned: the account has no user and no request that could give it one. *)
Unowned(a) ==
  /\ AccountExists(a)
  /\ \A u \in User : users[u].account # a
  /\ \A c \in Caller : req[c].op = "user-create" => req[c].account # a
LostInv == EmailsUnique /\ \A a \in abandoned : Unowned(a)

(* No two accounts have one e-mail: its column is unique. *)
LEMMA EmailsStayUnique ==
  ASSUME IInv, [Next]_vars, EmailsUnique PROVE EmailsUnique'
<1>1. CASE UNCHANGED accounts
  BY <1>1 DEF EmailsUnique, AccountExists
<1>2. ASSUME NEW c \in Caller, InsertAccount(c) PROVE EmailsUnique'
  <2> DEFINE q == req[c]
  <2>0. /\ q.account \in Account
        /\ accounts'[q.account] = [email |-> q.email, username |-> q.username, roles |-> q.roles]
        /\ \A a \in Account \ {q.account} : accounts'[a] = accounts[a]
    BY <1>2, InsertedRows
  <2>1. /\ q.account \in Account /\ accounts'[q.account].email = q.email
        /\ \A a \in Account \ {q.account} : accounts'[a] = accounts[a]
    BY <2>0
  <2>2. \A a \in Account : accounts[a].email # q.email
    BY <1>2 DEF InsertAccount, Taken
  <2> HIDE DEF q
  <2> QED BY <2>1, <2>2 DEF EmailsUnique, AccountExists
<1>3. ASSUME NEW c \in Caller, InsertUser(c) \/ WritesUser(c) PROVE UNCHANGED accounts
  BY <1>3, InsertedRows, SavedUser
<1> QED BY <1>1, <1>2, <1>3, TableSteps

(* What a step does to the accounts on record and to who is creating. *)
LEMMA NewlyAbandoned ==
  ASSUME IInv, [Next]_vars, NEW a \in abandoned' \ abandoned
  PROVE \E c \in Caller : Dropped(c) /\ req[c].step = "user" /\ a = req[c].account
<1>1. ASSUME NEW c \in Caller, Start(c) PROVE FALSE
  BY <1>1, Starts DEF Begin
<1>2. ASSUME NEW c \in Caller, Create(c) PROVE FALSE
  BY <1>2 DEF Create, FindRoles, FindEmail, FindUsername, InsertAccount, AccountRejected, InsertUser,
     Welcome, History
<1>3. ASSUME NEW c \in Caller, Change(c) PROVE FALSE
  BY <1>3 DEF Change, UserNotFound, UserWithoutRole, ReadForUpdate, ReadForReset, FindReset, LoadUser,
     SaveUser, SaveReset, Reread, ReadForDelete, SoftRemove, ChangePasswordFails, History
<1>4. ASSUME NEW r \in Role, RoleChanges(r) PROVE FALSE
  BY <1>4 DEF RoleChanges, History
<1>5. ASSUME NEW c \in Caller, Dropped(c) PROVE req[c].step = "user" /\ a = req[c].account
  BY <1>5 DEF Dropped
<1> QED BY <1>1, <1>2, <1>3, <1>4, <1>5 DEF Next, vars

LEMMA CreatorsKeepTheirAccount ==
  ASSUME IInv, [Next]_vars, NEW d \in Caller, req'[d].op = "user-create"
  PROVE \/ req[d].op = "user-create" /\ req'[d].account = req[d].account
        \/ req'[d].account \in FreshAccount
<1>0. req \in [Caller -> Request]
  BY DEF IInv, TypeOK
<1>1. CASE Alike(req'[d], req[d])
  BY <1>1 DEF Alike
<1>2. CASE ~Alike(req'[d], req[d])
  <2>1. Acts(d)
    BY <1>2, OwnStep
  <2>2. \A code : ~Respond(d, code)
    BY <1>0 DEF Respond, Idle
  <2>3. CASE StartUserCreate(d)
    BY <1>0, <2>3 DEF StartUserCreate, Begin, Idle
  <2>4. ~StartUserUpdate(d) /\ ~StartUserDelete(d) /\ ~StartChangePassword(d) /\ ~StartSendEmail(d)
    BY <1>0 DEF StartUserUpdate, StartUserDelete, StartChangePassword, StartSendEmail, Begin, Idle
  <2>5. \A step : Goto(d, step) => req'[d].op = req[d].op /\ req'[d].account = req[d].account
    BY <1>0 DEF Goto, Request
  <2>6. CASE Create(d)
    <3>1. CASE FindRoles(d)
      BY <1>0, <2>2, <3>1 DEF FindRoles, Request
    <3> QED BY <2>2, <2>5, <2>6, <3>1 DEF Create, FindEmail, FindUsername, InsertAccount,
            AccountRejected, InsertUser, Welcome
  <2>7. CASE Reading(d)
    <3>1. ChangeDocument(req[d])
      BY <2>7, Reads
    <3>2. req'[d].step # "idle"
      <4>1. FindReset(d) => req'[d].step = "load"
        BY <1>0, <2>2 DEF FindReset, Goto, Request
      <4> QED BY <2>7, <4>1, Reads DEF Reading
    <3> QED BY <2>7, <3>1, <3>2, Reads DEF ChangeDocument
  <2>8. CASE WritesUser(d)
    <3>1. SaveUser(d) /\ req[d].op = "user-update"
      BY <1>0, <2>8 DEF WritesUser, SaveUser, SaveReset, SoftRemove, Writes, Idle
    <3> QED BY <1>0, <3>1 DEF SaveUser, Writes, Request
  <2>9. CASE Change(d) /\ ~Reading(d) /\ ~WritesUser(d)
    BY <2>2, <2>5, <2>9 DEF Change, Reading, WritesUser, UserNotFound, UserWithoutRole, Reread,
       ReadForDelete, ChangePasswordFails
  <2>10. ~Dropped(d)
    BY <2>2 DEF Dropped
  <2> QED BY <2>1, <2>3, <2>4, <2>6, <2>7, <2>8, <2>9, <2>10 DEF Acts, Start
<1> QED BY <1>1, <1>2

(* An abandoned account stays so. *)
LEMMA UnownedStays ==
  ASSUME IInv, IInv', [Next]_vars, NEW a \in Account, Unowned(a) PROVE Unowned(a)'
<1>1. AccountExists(a)'
  <2>1. ASSUME NEW c \in Caller, InsertAccount(c) PROVE accounts'[a] = accounts[a]
    BY <2>1, InsertedRows DEF Unowned
  <2>2. ASSUME NEW c \in Caller, InsertUser(c) \/ WritesUser(c) PROVE accounts'[a] = accounts[a]
    BY <2>2, InsertedRows, SavedUser
  <2>3. accounts'[a] = accounts[a]
    BY <2>1, <2>2, TableSteps
  <2> QED BY <2>3 DEF Unowned, AccountExists
<1>2. ASSUME NEW u \in User PROVE users'[u].account # a
  <2>1. ASSUME NEW c \in Caller, InsertUser(c) PROVE users'[u].account # a
    <3>1. req[c].op = "user-create"
      BY <2>1, CreatingRequest DEF InsertUser, CreateDocument
    <3>2. req[c].account # a
      BY <3>1 DEF Unowned
    <3>3. /\ users'[req[c].user].account = req[c].account
          /\ \A v \in User \ {req[c].user} : users'[v] = users[v]
      BY <2>1, InsertedRows
    <3>4. users[u].account # a
      BY DEF Unowned
    <3> QED BY <3>2, <3>3, <3>4
  <2>2. ASSUME NEW c \in Caller, WritesUser(c) PROVE users'[u].account # a
    BY <2>2, SavedUser DEF Unowned
  <2>3. ASSUME NEW c \in Caller, InsertAccount(c) PROVE users'[u].account # a
    BY <2>3, InsertedRows DEF Unowned
  <2>4. CASE UNCHANGED users
    BY <2>4 DEF Unowned
  <2> QED BY <2>1, <2>2, <2>3, <2>4, TableSteps
<1>3. ASSUME NEW c \in Caller, req'[c].op = "user-create" PROVE req'[c].account # a
  BY <1>3, CreatorsKeepTheirAccount DEF Unowned, FreshAccount
<1> QED BY <1>1, <1>2, <1>3 DEF Unowned

(* A user-create that is dropped between its saves leaves its account to nobody. *)
LEMMA DroppedLeavesUnowned ==
  ASSUME IInv, NEW c \in Caller, Dropped(c), req[c].step = "user", NEW a, a = req[c].account
  PROVE Unowned(a)'
<1>1. CreateDocument(req[c])
  BY CreatingRequest
<1>2. AccountExists(a) /\ (\A u \in User : users[u].account # a) /\ req[c].op = "user-create"
  BY <1>1 DEF CreateDocument
<1>3. req'[c].op = "none" /\ \A d \in Caller \ {c} : req'[d] = req[d]
  BY DEF Dropped, Respond, Idle, IInv, TypeOK
<1>4. \A d \in Caller : req'[d].op = "user-create" => req'[d].account # a
  BY <1>2, <1>3 DEF IInv, OwnRows
<1>5. UNCHANGED <<accounts, users>>
  BY DEF Dropped, Tables
<1> QED BY <1>2, <1>4, <1>5 DEF Unowned, AccountExists

LEMMA LostStays == IInv /\ IInv' /\ [Next]_vars /\ LostInv => LostInv'
<1> SUFFICES ASSUME IInv, IInv', [Next]_vars, LostInv PROVE LostInv'
  OBVIOUS
<1>1. EmailsUnique'
  BY EmailsStayUnique DEF LostInv
<1>2. ASSUME NEW a \in abandoned' PROVE Unowned(a)'
  <2>1. CASE a \in abandoned
    BY <2>1, UnownedStays DEF LostInv, IInv, TypeOK
  <2>2. CASE a \notin abandoned
    <3>1. PICK c \in Caller : Dropped(c) /\ req[c].step = "user" /\ a = req[c].account
      BY <1>2, <2>2, NewlyAbandoned
    <3> QED BY <3>1, DroppedLeavesUnowned
  <2> QED BY <2>1, <2>2
<1> QED BY <1>1, <1>2 DEF LostInv

(* AddressesAreLost: when a user-create is dropped between its two saves,  *)
(* its account never gets a user and its e-mail is lost for good: nobody   *)
(* is ever entered under it and no welcome goes to it, however often it is *)
(* tried again (user-create.ts, two saves and no transaction).             *)
THEOREM AddressesAreLost ==
  Spec => [](\A a \in abandoned : /\ Unowned(a)
                                  /\ \A u \in User : ~EnteredUnder(u, accounts[a].email)
                                  /\ accounts[a].email \notin welcomed)
<1> DEFINE Lost == \A a \in abandoned : /\ Unowned(a)
                                        /\ \A u \in User : ~EnteredUnder(u, accounts[a].email)
                                        /\ accounts[a].email \notin welcomed
<1>1. Init => LostInv
  BY RowFacts, ConstantsAssumption, SeedAssumption
     DEF Init, LostInv, EmailsUnique, AccountExists, AccountRow
<1>2. IInv /\ LostInv => Lost
  <2> SUFFICES ASSUME IInv, LostInv, NEW a \in abandoned
               PROVE /\ Unowned(a)
                     /\ \A u \in User : ~EnteredUnder(u, accounts[a].email)
                     /\ accounts[a].email \notin welcomed
    OBVIOUS
  <2>1. Unowned(a) /\ EmailsUnique /\ a \in Account
    BY DEF LostInv, IInv, TypeOK
  <2>2. ASSUME NEW u \in User, EnteredUnder(u, accounts[a].email) PROVE FALSE
    <3>1. users[u].account \in Account /\ AccountExists(users[u].account)
      BY <2>2, RowFacts DEF EnteredUnder, IInv, TypeOK, OneUserPerAccount, UserExists, UserRow
    <3>2. users[u].account = a
      BY <2>1, <2>2, <3>1 DEF EnteredUnder, EmailsUnique
    <3> QED BY <2>1, <3>2 DEF Unowned
  <2>3. accounts[a].email \notin welcomed
    BY <2>2 DEF IInv, WelcomeIsForUsers, EnteredUnder
  <2> QED BY <2>1, <2>2, <2>3
<1> QED BY <1>1, <1>2, LostStays, Inductive, PTL DEF Spec
=============================================================================
