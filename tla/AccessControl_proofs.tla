----------------------- MODULE AccessControl_proofs -----------------------
(***************************************************************************)
(* Every behaviour of AccessControl, coordinated or not, keeps its types   *)
(* and the guard's decisions traceable to a grant.  IInv is inductive: the *)
(* proof has one step per action; the actions that only advance a request  *)
(* share the lemma RequestAdvances.                                        *)
(*                                                                         *)
(* Whatever overlaps, only a document read while its row was live undoes   *)
(* a deletion, and only a plan another save has outdated strands a grant   *)
(* on a deleted row.                                                       *)
(*                                                                         *)
(* Coordinated requests keep CInv as well: what a request in flight knows  *)
(* of its rows stays true while others save, so an answer of 200 is true,  *)
(* and every save is one operation of RoleBasedAccess.                     *)
(***************************************************************************)
EXTENDS AccessControl, TLAPS

(* The seeds of the migrations satisfy the invariant. *)
LEMMA InitIInv == Init => IInv
<1> SUFFICES ASSUME Init PROVE IInv
  OBVIOUS
<1> USE ConstantsAssumption, SeedAssumption DEF Init
<1>1. Idle \in Request /\ Idle.op = "none" /\ Idle.step = "idle" /\ Idle.copy = NoCopy
  BY DEF Idle, Request, NoCopy, NoPlan, Plan, Step, Answer
<1>2. \A rp \in SeedHeld : /\ rp[1] \in Role /\ rp[2] \in Permission
                           /\ SeedPermissions[rp[2]].name \in PermissionName
                           /\ SeedPermissions[rp[2]].row # "absent"
  BY DEF PermissionRow, RowState
<1>3. granted \subseteq Role \X PermissionName
  BY <1>2
<1>4. \A p \in Permission : SeedPermissions[p].row # "absent" => SeedPermissions[p].name \in PermissionName
  BY DEF PermissionRow
<1>5. borne \subseteq Permission \X PermissionName
  BY <1>4
<1>6. TypeOK
  BY <1>1, <1>3, <1>5 DEF TypeOK
<1>7. RowsNamed
  BY DEF RowsNamed
<1>8. \A c \in Caller : DocumentOf(req[c])
  BY <1>1 DEF DocumentOf
<1>9. ASSUME NEW rp \in held PROVE Trail(rp[1], rp[2])
  <2>1. <<rp[1], SeedPermissions[rp[2]].name>> \in granted
    BY <1>9
  <2>2. <<rp[2], SeedPermissions[rp[2]].name>> \in borne
    BY <1>2, <1>9
  <2> QED BY <2>1, <2>2, <1>2, <1>9 DEF Trail
<1>10. CopiesTrailed
  BY <1>1 DEF CopiesTrailed, NoCopy
<1> QED BY <1>6, <1>7, <1>8, <1>9, <1>10 DEF IInv

(* The document of a request that is not touched, when no row disappears.  *)
LEMMA DocumentStays ==
  ASSUME NEW d \in Caller, req'[d] = req[d], DocumentOf(req[d]),
         \A p \in Permission : permissions[p].row # "absent" => permissions'[p].row # "absent"
  PROVE DocumentOf(req[d])'
<1>1. RoleDocument(req[d]) => RoleDocument(req[d])'
  BY DEF RoleDocument
<1>2. PermissionDocument(req[d]) => PermissionDocument(req[d])'
  BY DEF PermissionDocument
<1> QED BY <1>1, <1>2 DEF DocumentOf

(* A step that only replaces one caller's request by a well-formed one     *)
(* whose copies are trailed keeps the invariant.                           *)
LEMMA RequestAdvances ==
  ASSUME IInv, NEW c \in Caller, NEW q \in Request,
         req' = [req EXCEPT ![c] = q],
         UNCHANGED <<roles, permissions, held, granted, borne>>,
         requests' \in 0..MaxRequests,
         DocumentOf(q),
         \A p \in Permission : q.copy[p] # NoName =>
            \/ Trail(q.role, p) /\ <<p, q.copy[p]>> \in borne
            \/ /\ AboutToInsert(c, p)
               /\ q.copy[p] = req[c].copy[p] /\ q.role = req[c].role,
         q.op = "permission-create" =>
            \/ req[c].op = "permission-create" /\ req[c].permission = q.permission
            \/ q.permission \in FreshPermission
  PROVE IInv'
<1>1. TypeOK'
  BY DEF IInv, TypeOK
<1>2. RowsNamed'
  BY DEF IInv, RowsNamed
<1>3. (\A d \in Caller : DocumentOf(req[d]))'
  <2> SUFFICES ASSUME NEW d \in Caller PROVE DocumentOf(req[d])'
    OBVIOUS
  <2>1. CASE d = c
    <3>1. req'[d] = q
      BY <2>1 DEF IInv, TypeOK
    <3>2. RoleDocument(q) => RoleDocument(req[d])'
      BY <3>1 DEF RoleDocument
    <3>3. PermissionDocument(q) => PermissionDocument(req[d])'
      BY <3>1 DEF PermissionDocument
    <3> QED BY <3>1, <3>2, <3>3 DEF DocumentOf
  <2>2. CASE d # c
    <3>1. req'[d] = req[d] /\ DocumentOf(req[d])
      BY <2>2 DEF IInv, TypeOK
    <3> QED BY <3>1, DocumentStays
  <2> QED BY <2>1, <2>2
<1>4. (\A rp \in held : Trail(rp[1], rp[2]))'
  BY DEF IInv, Trail
<1>5. CopiesTrailed'
  <2> SUFFICES ASSUME NEW d \in Caller, NEW p \in Permission, req'[d].copy[p] # NoName
               PROVE \/ Trail(req'[d].role, p) /\ <<p, req'[d].copy[p]>> \in borne
                     \/ AboutToInsert(d, p)'
    BY DEF CopiesTrailed, Trail
  <2>1. CASE AboutToInsert(d, p) /\ req[d].copy[p] # NoName
             /\ req'[d].copy[p] = req[d].copy[p] /\ req'[d].role = req[d].role
    <3>0. \A r \in Role \cup {NoId} : ~Trail(r, p)
      BY <2>1 DEF AboutToInsert, IInv, RowsNamed, Trail
    <3>1. ASSUME NEW e \in Caller, e # d PROVE req'[e].copy[p] = NoName
      <4>1. CASE e = c
        <5>1. q.role \in Role \cup {NoId}
          BY DEF Request
        <5> QED BY <2>1, <3>0, <3>1, <4>1, <5>1 DEF AboutToInsert, IInv, TypeOK
      <4>2. CASE e # c
        BY <2>1, <3>1, <4>2 DEF AboutToInsert, IInv, TypeOK
      <4> QED BY <4>1, <4>2
    <3>2. ASSUME NEW e \in Caller, req'[e].op = "permission-create" PROVE req'[e].permission # p
      BY <2>1, <3>2 DEF AboutToInsert, IInv, TypeOK, FreshPermission
    <3> QED BY <2>1, <3>1, <3>2 DEF AboutToInsert
  <2>2. CASE d = c
    BY <2>1, <2>2 DEF IInv, TypeOK
  <2>3. CASE d # c
    BY <2>1, <2>3 DEF IInv, TypeOK, CopiesTrailed
  <2> QED BY <2>2, <2>3
<1> QED BY <1>1, <1>2, <1>3, <1>4, <1>5 DEF IInv

(* So does a step that keeps some of the copies it has and reads no new one. *)
LEMMA CopiesKept ==
  ASSUME IInv, NEW c \in Caller, NEW q \in Request,
         req' = [req EXCEPT ![c] = q],
         UNCHANGED <<Data, History>>,
         DocumentOf(q),
         q.role = req[c].role, q.permission = req[c].permission, q.op = req[c].op,
         \A p \in Permission : q.copy[p] # NoName => q.copy[p] = req[c].copy[p]
  PROVE IInv'
<1>1. UNCHANGED <<roles, permissions, held, granted, borne>> /\ requests' \in 0..MaxRequests
  BY DEF Data, History, IInv, TypeOK
<1>2. ASSUME NEW p \in Permission, q.copy[p] # NoName
      PROVE \/ Trail(q.role, p) /\ <<p, q.copy[p]>> \in borne
            \/ /\ AboutToInsert(c, p)
               /\ q.copy[p] = req[c].copy[p] /\ q.role = req[c].role
  BY <1>2 DEF IInv, CopiesTrailed
<1> QED BY <1>1, <1>2, RequestAdvances

(* A new request holds no copy and plans nothing. *)
LEMMA BeginKeeps ==
  ASSUME IInv, NEW c \in Caller, NEW s \in Request, Begin(c, s), DocumentOf(s),
         s.copy = NoCopy,
         s.op = "permission-create" => s.permission \in FreshPermission
  PROVE IInv'
<1>1. requests' \in 0..MaxRequests
  BY ConstantsAssumption DEF Begin, IInv, TypeOK
<1>2. \A p \in Permission : s.copy[p] = NoName
  BY DEF NoCopy
<1> QED BY <1>1, <1>2, RequestAdvances DEF Begin, Data

(* What every new request looks like. *)
Opens(s) ==
  /\ DocumentOf(s) /\ s.copy = NoCopy /\ s.answer = "none" /\ ~s.deleted
  /\ s.step # "read" => /\ s.op = "role-create" /\ s.step = "load"
                        /\ s.role \in FreshRole /\ s.permission = NoId
  /\ s.op = "permission-create" => s.permission \in FreshPermission /\ s.role = NoId
  /\ s.step = "read" /\ s.op \in RoleOp \ {"role-update"} => s.name = NoName

LEMMA StartsRequest ==
  ASSUME NEW c \in Caller, Start(c) PROVE \E s \in Request : Begin(c, s) /\ Opens(s)
<1> USE ConstantsAssumption
<1>1. /\ Idle \in Request /\ Idle.copy = NoCopy /\ Idle.plan = NoPlan
      /\ NoPlan.link = {} /\ NoPlan.insert = {} /\ NoPlan.rename = {} /\ NoPlan.revive = {}
      /\ Idle.role = NoId /\ Idle.permission = NoId /\ Idle.name = NoName
  BY DEF Idle, Request, NoCopy, NoPlan, Plan, Step, Answer
<1>2. CASE StartRoleCreate(c)
  <2>1. PICK r \in FreshRole, n \in RoleName :
          Begin(c, [Idle EXCEPT !.op = "role-create", !.step = "load", !.role = r, !.name = n])
    BY <1>2 DEF StartRoleCreate
  <2> DEFINE s == [Idle EXCEPT !.op = "role-create", !.step = "load", !.role = r, !.name = n]
  <2>2. s \in Request /\ RoleDocument(s)
    BY <1>1 DEF Request, RoleDocument, RoleOp, Op, Step, FreshRole, Idle, NoPlan
  <2>3. Opens(s)
    BY <2>2, <1>1 DEF Opens, DocumentOf, Idle
  <2> HIDE DEF s
  <2> QED BY <2>1, <2>2, <2>3 DEF s
<1>3. CASE StartRoleUpdate(c)
  <2>1. PICK r \in Role, n \in RoleName \cup {NoName} :
          Begin(c, [Idle EXCEPT !.op = "role-update", !.step = "read", !.role = r, !.name = n])
    BY <1>3 DEF StartRoleUpdate
  <2> DEFINE s == [Idle EXCEPT !.op = "role-update", !.step = "read", !.role = r, !.name = n]
  <2>2. s \in Request /\ RoleDocument(s)
    BY <1>1 DEF Request, RoleDocument, RoleOp, Op, Step, Idle, NoPlan
  <2>3. Opens(s)
    BY <2>2, <1>1 DEF Opens, DocumentOf, Idle
  <2> HIDE DEF s
  <2> QED BY <2>1, <2>2, <2>3 DEF s
<1>4. CASE StartRoleDelete(c)
  <2>1. PICK r \in Role :
          Begin(c, [Idle EXCEPT !.op = "role-delete", !.step = "read", !.role = r])
    BY <1>4 DEF StartRoleDelete
  <2> DEFINE s == [Idle EXCEPT !.op = "role-delete", !.step = "read", !.role = r]
  <2>2. s \in Request /\ RoleDocument(s)
    BY <1>1 DEF Request, RoleDocument, RoleOp, Op, Step, Idle, NoPlan
  <2>3. Opens(s)
    BY <2>2, <1>1 DEF Opens, DocumentOf, Idle
  <2> HIDE DEF s
  <2> QED BY <2>1, <2>2, <2>3 DEF s
<1>5. CASE StartRoleGrants(c)
  <2>1. PICK r \in Role, asked \in SUBSET Spelling,
             op \in {"role-add-permission", "role-delete-permission"} :
          Begin(c, [Idle EXCEPT !.op = op, !.step = "read", !.role = r, !.asked = asked])
    BY <1>5 DEF StartRoleGrants
  <2> DEFINE s == [Idle EXCEPT !.op = op, !.step = "read", !.role = r, !.asked = asked]
  <2>2. s \in Request /\ RoleDocument(s)
    BY <1>1 DEF Request, RoleDocument, RoleOp, Op, Step, Idle, NoPlan
  <2>3. Opens(s)
    BY <2>2, <1>1 DEF Opens, DocumentOf, Idle
  <2> HIDE DEF s
  <2> QED BY <2>1, <2>2, <2>3 DEF s
<1>6. CASE StartPermissionCreate(c)
  <2>1. PICK p \in FreshPermission, n \in PermissionName :
          Begin(c, [Idle EXCEPT !.op = "permission-create", !.step = "read",
                                !.permission = p, !.name = n])
    BY <1>6 DEF StartPermissionCreate
  <2> DEFINE s == [Idle EXCEPT !.op = "permission-create", !.step = "read",
                               !.permission = p, !.name = n]
  <2>2. s \in Request /\ PermissionDocument(s)
    BY <1>1 DEF Request, PermissionDocument, PermissionOp, Op, Step, FreshPermission, Idle, NoPlan
  <2>3. Opens(s)
    BY <2>2, <1>1 DEF Opens, DocumentOf, Idle, RoleOp
  <2> HIDE DEF s
  <2> QED BY <2>1, <2>2, <2>3 DEF s
<1>7. CASE StartPermissionUpdate(c)
  <2>1. PICK p \in Permission, n \in PermissionName \cup {NoName} :
          Begin(c, [Idle EXCEPT !.op = "permission-update", !.step = "read",
                                !.permission = p, !.name = n])
    BY <1>7 DEF StartPermissionUpdate
  <2> DEFINE s == [Idle EXCEPT !.op = "permission-update", !.step = "read",
                               !.permission = p, !.name = n]
  <2>2. s \in Request
    BY <1>1 DEF Request, PermissionOp, Op, Step, Idle, NoPlan
  <2>4. PermissionDocument(s)
    BY <1>1 DEF PermissionDocument, PermissionOp, Idle, NoPlan
  <2>3. Opens(s)
    BY <2>2, <2>4, <1>1 DEF Opens, DocumentOf, Idle, RoleOp
  <2> HIDE DEF s
  <2> QED BY <2>1, <2>2, <2>3 DEF s
<1>8. CASE StartPermissionDelete(c)
  <2>1. PICK p \in Permission :
          Begin(c, [Idle EXCEPT !.op = "permission-delete", !.step = "read", !.permission = p])
    BY <1>8 DEF StartPermissionDelete
  <2> DEFINE s == [Idle EXCEPT !.op = "permission-delete", !.step = "read", !.permission = p]
  <2>2. s \in Request /\ PermissionDocument(s)
    BY <1>1 DEF Request, PermissionDocument, PermissionOp, Op, Step, Idle, NoPlan
  <2>3. Opens(s)
    BY <2>2, <1>1 DEF Opens, DocumentOf, Idle, RoleOp
  <2> HIDE DEF s
  <2> QED BY <2>1, <2>2, <2>3 DEF s
<1> QED BY <1>2, <1>3, <1>4, <1>5, <1>6, <1>7, <1>8 DEF Start

LEMMA StartKeeps ==
  ASSUME IInv, NEW c \in Caller, Start(c) PROVE IInv'
<1>1. PICK s \in Request : Begin(c, s) /\ Opens(s)
  BY StartsRequest
<1> QED BY <1>1, BeginKeeps DEF Opens

(* An answer that writes nothing forgets the request. *)
LEMMA RespondKeeps ==
  ASSUME IInv, NEW c \in Caller, NEW code \in Answer, Respond(c, code),
         UNCHANGED <<Data, History>>
  PROVE IInv'
<1> DEFINE q == [Idle EXCEPT !.answer = code]
<1>1. q \in Request /\ q.op = "none" /\ q.step = "idle" /\ q.copy = NoCopy
  BY DEF Idle, Request, NoCopy, NoPlan, Plan, Step, Answer
<1>2. \A p \in Permission : q.copy[p] = NoName
  BY <1>1 DEF NoCopy
<1>3. req' = [req EXCEPT ![c] = q]
  BY DEF Respond
<1>4. UNCHANGED <<roles, permissions, held, granted, borne>> /\ requests' \in 0..MaxRequests
  BY DEF Data, History, IInv, TypeOK
<1>5. DocumentOf(q)
  BY <1>1 DEF DocumentOf
<1> HIDE DEF q
<1> QED BY <1>1, <1>2, <1>3, <1>4, <1>5, RequestAdvances

(* Reading a role fills the document with copies of the permissions the    *)
(* role holds, each of them granted.                                       *)
LEMMA ReadIntoKeeps ==
  ASSUME IInv, NEW c \in Caller, NEW step \in {"permissions", "load"}, NEW deleted \in BOOLEAN,
         req[c].step = "read", req[c].op \in RoleOp,
         LiveRole(req[c].role), ReadInto(c, step, deleted),
         UNCHANGED <<Data, History>>
  PROVE IInv'
<1> USE ConstantsAssumption
<1> DEFINE q == [req[c] EXCEPT !.step = step,
                               !.name = IF @ = NoName THEN roles[req[c].role].name ELSE @,
                               !.deleted = deleted, !.copy = CopiesOf(req[c].role)]
<1>1. req[c] \in Request /\ RoleDocument(req[c]) /\ req[c].copy \in [Permission -> PermissionName \cup {NoName}]
  <2>1. DocumentOf(req[c]) /\ req[c] \in Request
    BY DEF IInv, TypeOK
  <2> QED BY <2>1 DEF DocumentOf, PermissionDocument, RoleOp, PermissionOp, Request
<1>2. roles[req[c].role].name \in RoleName
  BY <1>1 DEF IInv, TypeOK, RowsNamed, RoleRow, LiveRole, RoleDocument
<1>3. CopiesOf(req[c].role) \in [Permission -> PermissionName \cup {NoName}]
  BY DEF CopiesOf, IInv, TypeOK, PermissionRow
<1>4. q \in Request
  <2> DEFINE name == IF req[c].name = NoName THEN roles[req[c].role].name ELSE req[c].name
  <2>1. name \in RoleName \cup PermissionName \cup {NoName}
    BY <1>1, <1>2 DEF Request
  <2>2. q = [req[c] EXCEPT !.step = step, !.name = name, !.deleted = deleted, !.copy = CopiesOf(req[c].role)]
    OBVIOUS
  <2> HIDE DEF name, q
  <2> QED BY <1>1, <1>3, <2>1, <2>2 DEF Request, Step
<1>5. req' = [req EXCEPT ![c] = q]
  <2>1. req \in [Caller -> Request]
    BY DEF IInv, TypeOK
  <2>2. req' = [req EXCEPT ![c].step = step, ![c].name = IF @ = NoName THEN roles[req[c].role].name ELSE @,
                           ![c].deleted = deleted, ![c].copy = CopiesOf(req[c].role)]
    BY DEF ReadInto
  <2> QED BY <2>1, <2>2
<1>6. UNCHANGED <<roles, permissions, held, granted, borne>> /\ requests' \in 0..MaxRequests
  BY DEF Data, History, IInv, TypeOK
<1>7. req[c].plan.link = {} /\ req[c].plan.insert = {} /\ req[c].plan.rename = {} /\ req[c].plan.revive = {}
  BY <1>1 DEF RoleDocument, NoPlan
<1>8. RoleDocument(q)
  BY <1>1, <1>2, <1>7 DEF RoleDocument, Request
<1>9. ASSUME NEW p \in Permission, q.copy[p] # NoName
      PROVE Trail(q.role, p) /\ <<p, q.copy[p]>> \in borne
  <2>1. q.role = req[c].role /\ q.copy[p] = CopiesOf(req[c].role)[p]
    BY <1>1 DEF Request
  <2>2. p \in PermissionsOf(q.role) /\ q.copy[p] = permissions[p].name
    BY <2>1, <1>9 DEF CopiesOf
  <2>3. Trail(q.role, p)
    BY <2>2 DEF PermissionsOf, IInv
  <2>4. <<p, permissions[p].name>> \in borne
    BY <2>2 DEF PermissionsOf, LivePermission, IInv, RowsNamed
  <2> QED BY <2>2, <2>3, <2>4
<1>10. q.op # "permission-create"
  BY <1>1 DEF RoleDocument, RoleOp
<1> HIDE DEF q
<1> QED BY <1>4, <1>5, <1>6, <1>8, <1>9, <1>10, RequestAdvances DEF DocumentOf

(* Reading the permissions to add: rows found by name are granted by this  *)
(* very request, missing ones are this request's own to insert.            *)
LEMMA AddKeeps ==
  ASSUME IInv, NEW c \in Caller, ReadPermissionsToAdd(c) PROVE IInv'
<1> USE ConstantsAssumption
<1>1. PICK id \in [Missing(req[c]) -> FreshPermission] :
        /\ \A s, t \in Missing(req[c]) : id[s] = id[t] => s = t
        /\ req' = [req EXCEPT ![c].step = "load",
                              ![c].copy = [p \in Permission |->
                                IF p \in Joining(req[c]) THEN permissions[p].name
                                ELSE IF \E s \in Missing(req[c]) : id[s] = p
                                  THEN NewCopy(req[c], id, p)
                                ELSE req[c].copy[p]]]
  BY DEF ReadPermissionsToAdd
<1> DEFINE q == req[c]
           new(p) == \E s \in Missing(q) : id[s] = p
           copy == [p \in Permission |-> IF p \in Joining(q) THEN permissions[p].name
                                         ELSE IF new(p) THEN NewCopy(q, id, p)
                                         ELSE q.copy[p]]
           s1 == [q EXCEPT !.step = "load", !.copy = copy]
<1>2. /\ q \in Request /\ RoleDocument(q) /\ q.role \in Role /\ q.plan = NoPlan
      /\ q.asked \subseteq Spelling /\ q.copy \in [Permission -> PermissionName \cup {NoName}]
      /\ q.op = "role-add-permission" /\ q.step = "permissions"
  <2>1. q \in Request /\ DocumentOf(q) /\ q.op = "role-add-permission" /\ q.step = "permissions"
    BY DEF IInv, TypeOK, ReadPermissionsToAdd
  <2> QED BY <2>1 DEF DocumentOf, RoleDocument, PermissionDocument, PermissionOp, Request
<1>3. /\ granted' = granted \cup {<<q.role, Normalise[s]>> : s \in q.asked}
      /\ UNCHANGED <<roles, permissions, held, requests, borne>>
  BY DEF ReadPermissionsToAdd, Data
<1>4. ASSUME NEW p \in Permission, new(p)
      PROVE \E s \in q.asked : /\ NewCopy(q, id, p) = Normalise[s] /\ Normalise[s] \in PermissionName
                               /\ p \in FreshPermission
  <2> DEFINE w == CHOOSE s \in Missing(q) : id[s] = p
  <2>1. w \in Missing(q) /\ id[w] = p
    BY <1>4
  <2>2. w \in q.asked /\ w \in Spelling
    BY <2>1, <1>2 DEF Missing
  <2>3. p \in FreshPermission
    BY <2>1
  <2>4. NewCopy(q, id, p) = Normalise[w]
    BY DEF NewCopy
  <2> HIDE DEF w
  <2> QED BY <2>2, <2>3, <2>4
<1>5. ASSUME NEW p \in Joining(q)
      PROVE /\ permissions[p].name \in PermissionName
            /\ <<q.role, permissions[p].name>> \in granted'
            /\ <<p, permissions[p].name>> \in borne
  <2>1. permissions[p].name \in PermissionName /\ permissions[p].name \in q.asked
    BY <1>2 DEF Joining, IInv, TypeOK, PermissionRow
  <2>2. <<p, permissions[p].name>> \in borne
    BY DEF Joining, LivePermission, IInv, RowsNamed
  <2> QED BY <1>3, <2>1, <2>2
<1>6. copy \in [Permission -> PermissionName \cup {NoName}]
  BY <1>2, <1>4, <1>5
<1>7. s1 \in Request /\ req' = [req EXCEPT ![c] = s1]
  BY <1>1, <1>2, <1>6 DEF Request, Step, IInv, TypeOK
<1>8. TypeOK'
  <2>1. granted' \subseteq Role \X PermissionName
    BY <1>2, <1>3 DEF IInv, TypeOK
  <2> QED BY <1>3, <1>7, <2>1 DEF IInv, TypeOK
<1>9. RowsNamed'
  BY <1>3 DEF IInv, RowsNamed
<1>10. RoleDocument(s1)
  BY <1>2 DEF RoleDocument, Request, NoPlan
<1>11. (\A d \in Caller : DocumentOf(req[d]))'
  <2> HIDE DEF s1
  <2> SUFFICES ASSUME NEW d \in Caller PROVE DocumentOf(req[d])'
    OBVIOUS
  <2>1. CASE d = c
    BY <1>3, <1>7, <1>10, <2>1 DEF IInv, TypeOK, DocumentOf, RoleDocument
  <2>2. CASE d # c
    BY <1>3, <1>7, <2>2 DEF IInv, TypeOK, DocumentOf, RoleDocument, PermissionDocument
  <2> QED BY <2>1, <2>2
<1>12. \A r, p : Trail(r, p) => Trail(r, p)'
  BY <1>3 DEF Trail
<1>13. (\A rp \in held : Trail(rp[1], rp[2]))'
  BY <1>3, <1>12 DEF IInv
<1>14. CopiesTrailed'
  <2> SUFFICES ASSUME NEW d \in Caller, NEW p \in Permission, req'[d].copy[p] # NoName
               PROVE \/ Trail(req[d].role, p)' /\ <<p, req'[d].copy[p]>> \in borne'
                     \/ AboutToInsert(d, p)'
    BY DEF CopiesTrailed
  <2>1. s1.copy = copy /\ s1.role = q.role /\ s1.op = q.op /\ s1.permission = q.permission
    BY <1>2 DEF Request
  <2>2. req'[c] = s1 /\ \A e \in Caller \ {c} : req'[e] = req[e]
    BY <1>7 DEF IInv, TypeOK
  <2>7. ASSUME NEW x \in Permission
        PROVE /\ x \in Joining(q) => copy[x] = permissions[x].name
              /\ x \notin Joining(q) /\ new(x) => copy[x] = NewCopy(q, id, x)
              /\ x \notin Joining(q) /\ ~new(x) => copy[x] = q.copy[x]
    <3> HIDE DEF new
    <3> QED OBVIOUS
  <2>8. req'[c].copy = copy /\ req'[c].role = q.role
    BY <2>1, <2>2
  <2>3. \A e \in Caller : /\ req'[e].op = req[e].op /\ req'[e].permission = req[e].permission
                          /\ req'[e].role = req[e].role
    BY <2>1, <2>2
  <2>4. CASE d = c /\ p \in Joining(q)
    <3>1. req'[d].copy[p] = permissions[p].name /\ req'[d].role = q.role
      <4> HIDE DEF copy, new, s1
      <4> QED BY <2>4, <2>7, <2>8
    <3>2. <<p, permissions[p].name>> \in borne' /\ <<q.role, permissions[p].name>> \in granted'
      BY <1>3, <1>5, <2>4
    <3> QED BY <1>5, <2>4, <3>1, <3>2 DEF Trail
  <2>5. CASE d = c /\ p \notin Joining(q) /\ new(p)
    <3>1. req'[d].copy[p] = NewCopy(q, id, p) /\ req'[d].role = q.role
      <4> HIDE DEF copy, new, s1
      <4> QED BY <2>5, <2>7, <2>8
    <3>2. <<q.role, NewCopy(q, id, p)>> \in granted' /\ p \in FreshPermission
      BY <1>3, <1>4, <2>5
    <3>3. \A e \in Caller \ {c} : req'[e].copy[p] = NoName
      BY <2>2, <3>2 DEF FreshPermission
    <3>4. \A e \in Caller : req'[e].op = "permission-create" => req'[e].permission # p
      BY <2>3, <3>2 DEF FreshPermission
    <3>5. permissions'[p].row = "absent"
      BY <1>3, <3>2 DEF FreshPermission
    <3> QED BY <2>5, <3>1, <3>2, <3>3, <3>4, <3>5 DEF AboutToInsert
  <2>6. CASE ~(d = c /\ (p \in Joining(q) \/ new(p)))
    <3>1. req'[d].copy[p] = req[d].copy[p] /\ req'[d].role = req[d].role
      <4> HIDE DEF copy, new, s1
      <4>1. CASE d = c
        BY <2>6, <2>7, <2>8, <4>1
      <4>2. CASE d # c
        BY <2>2, <4>2
      <4> QED BY <4>1, <4>2
    <3>2. CASE Trail(req[d].role, p) /\ <<p, req[d].copy[p]>> \in borne
      BY <1>3, <1>12, <3>1, <3>2
    <3>3. CASE AboutToInsert(d, p)
      <4>1. p \notin FreshPermission
        BY <3>1 DEF FreshPermission
      <4>2. \A e \in Caller \ {d} : req'[e].copy[p] = NoName
        <5> SUFFICES ASSUME NEW e \in Caller \ {d} PROVE req'[e].copy[p] = NoName
          OBVIOUS
        <5>1. CASE e = c
          <6>1. p \notin Joining(q)
            BY <3>3 DEF AboutToInsert, Joining, LivePermission
          <6>2. ~new(p)
            BY <1>4, <4>1
          <6>3. q.copy[p] = NoName
            BY <3>3, <5>1 DEF AboutToInsert
          <6> HIDE DEF copy, new, s1
          <6> QED BY <2>7, <2>8, <5>1, <6>1, <6>2, <6>3
        <5>2. CASE e # c
          BY <2>2, <3>3, <5>2 DEF AboutToInsert
        <5> QED BY <5>1, <5>2
      <4> QED BY <1>3, <2>3, <3>1, <3>3, <4>2 DEF AboutToInsert
    <3> QED BY <3>1, <3>2, <3>3 DEF IInv, CopiesTrailed
  <2> QED BY <2>4, <2>5, <2>6
<1> QED BY <1>8, <1>9, <1>11, <1>13, <1>14 DEF IInv

(* What the invariant says of a request that is running an operation. *)
LEMMA RunningRequest ==
  ASSUME IInv, NEW c \in Caller
  PROVE /\ req[c] \in Request
        /\ req[c].op \in RoleOp /\ req[c].step # "reread" => RoleDocument(req[c])
        /\ req[c].op \in PermissionOp => PermissionDocument(req[c])
        /\ req[c].step = "permissions" => RoleDocument(req[c])
        /\ req[c].step \in {"exists", "update"} => PermissionDocument(req[c])
        /\ req[c].step = "commit" => RoleDocument(req[c]) \/ PermissionDocument(req[c])
<1>1. req[c] \in Request /\ DocumentOf(req[c])
  BY DEF IInv, TypeOK
<1> QED BY <1>1 DEF DocumentOf, RoleDocument, PermissionDocument, RoleOp, PermissionOp

(* Removing names only shortens the list of copies. *)
LEMMA RemoveKeeps ==
  ASSUME IInv, NEW c \in Caller, ReadPermissionsToRemove(c) PROVE IInv'
<1> USE ConstantsAssumption
<1> DEFINE q == req[c]
           copy == [p \in Permission |-> IF q.copy[p] \in Found(q) THEN NoName ELSE q.copy[p]]
           s == [q EXCEPT !.step = "load", !.copy = copy]
<1>1. q \in Request /\ RoleDocument(q) /\ q.step = "permissions" /\ q.op = "role-delete-permission"
  BY RunningRequest DEF ReadPermissionsToRemove
<1>2. copy \in [Permission -> PermissionName \cup {NoName}]
  BY <1>1 DEF Request
<1>3. s \in Request /\ req' = [req EXCEPT ![c] = s]
  BY <1>1, <1>2 DEF Request, Step, IInv, TypeOK, ReadPermissionsToRemove
<1>4. RoleDocument(s)
  BY <1>1 DEF RoleDocument, Request, NoPlan
<1>5. UNCHANGED <<Data, History>>
  BY DEF ReadPermissionsToRemove
<1>6. s.copy = copy /\ s.role = q.role /\ s.permission = q.permission /\ s.op = q.op
  BY <1>1 DEF Request
<1>7. \A p \in Permission : s.copy[p] # NoName => s.copy[p] = q.copy[p]
  <2> HIDE DEF s
  <2> QED BY <1>6
<1>8. DocumentOf(s)
  BY <1>4 DEF DocumentOf
<1> HIDE DEF s
<1> QED BY <1>3, <1>5, <1>6, <1>7, <1>8, CopiesKept

(* A permission request advances without touching the tables. *)
LEMMA PermissionRequestAdvances ==
  ASSUME IInv, NEW c \in Caller, NEW q \in Request, req' = [req EXCEPT ![c] = q],
         UNCHANGED <<Data, History>>, PermissionDocument(q),
         q.op = req[c].op, q.permission = req[c].permission
  PROVE IInv'
<1>1. UNCHANGED <<roles, permissions, held, granted, borne>> /\ requests' \in 0..MaxRequests
  BY DEF Data, History, IInv, TypeOK
<1>2. \A p \in Permission : q.copy[p] = NoName
  BY DEF PermissionDocument, NoCopy
<1>3. DocumentOf(q)
  BY DEF DocumentOf
<1>4. \A p \in Permission : q.copy[p] # NoName => Trail(q.role, p) /\ <<p, q.copy[p]>> \in borne
  BY <1>2
<1> QED BY <1>1, <1>2, <1>3, <1>4, RequestAdvances

LEMMA PermissionReadsKeep ==
  ASSUME IInv, NEW c \in Caller,
         \/ ReadPermissionName(c) \/ ReadPermissionForUpdate(c)
         \/ ExistsOnUpdate(c) \/ ReadPermissionForDelete(c)
  PROVE IInv'
<1> USE ConstantsAssumption
<1> DEFINE q == req[c]
<1>1. q \in Request /\ PermissionDocument(q)
  BY RunningRequest DEF ReadPermissionName, ReadPermissionForUpdate, ExistsOnUpdate,
                        ReadPermissionForDelete, PermissionOp
<1>2. {"404", "409"} \subseteq Answer
  BY DEF Answer
<1>3. UNCHANGED <<Data, History>>
  BY DEF ReadPermissionName, ReadPermissionForUpdate, ExistsOnUpdate, ReadPermissionForDelete
<1>4. q.permission \in Permission /\ LivePermission(q.permission) =>
        permissions[q.permission].name \in PermissionName /\ permissions[q.permission].row # "absent"
  BY DEF LivePermission, IInv, TypeOK, RowsNamed, PermissionRow
<1>5. ASSUME NEW s \in Request, req' = [req EXCEPT ![c] = s], PermissionDocument(s),
             s.op = q.op, s.permission = q.permission
      PROVE IInv'
  BY <1>3, <1>5, PermissionRequestAdvances
<1>6. CASE ReadPermissionName(c)
  <2>1. CASE Respond(c, "409")
    BY <1>2, <1>3, <2>1, RespondKeeps
  <2>2. CASE Goto(c, "load")
    <3> DEFINE s == [q EXCEPT !.step = "load"]
    <3>1. s \in Request /\ req' = [req EXCEPT ![c] = s] /\ s.op = q.op /\ s.permission = q.permission
      BY <1>1, <2>2 DEF Goto, Request, Step, IInv, TypeOK
    <3>2. PermissionDocument(s)
      BY <1>1, <1>6 DEF PermissionDocument, Request, ReadPermissionName
    <3> QED BY <1>5, <3>1, <3>2
  <2> QED BY <1>6, <2>1, <2>2 DEF ReadPermissionName
<1>7. CASE ReadPermissionForUpdate(c)
  <2>1. CASE q.name = NoName
    <3> DEFINE s == [q EXCEPT !.step = "update", !.name = permissions[q.permission].name]
    <3>0. permissions[q.permission].name \in PermissionName
      BY <1>1, <1>4, <1>7 DEF PermissionDocument, ReadPermissionForUpdate
    <3>1. s \in Request /\ req' = [req EXCEPT ![c] = s] /\ s.op = q.op /\ s.permission = q.permission
      BY <1>1, <1>7, <2>1, <3>0 DEF ReadPermissionForUpdate, Request, Step, IInv, TypeOK
    <3>2. PermissionDocument(s)
      BY <1>1, <1>4, <1>7, <3>0 DEF PermissionDocument, Request, ReadPermissionForUpdate
    <3> QED BY <1>5, <3>1, <3>2
  <2>2. CASE q.name # NoName
    <3> DEFINE s == [q EXCEPT !.step = "exists"]
    <3>1. s \in Request /\ req' = [req EXCEPT ![c] = s] /\ s.op = q.op /\ s.permission = q.permission
      BY <1>1, <1>7, <2>2 DEF ReadPermissionForUpdate, Goto, Request, Step, IInv, TypeOK
    <3>2. PermissionDocument(s)
      BY <1>1, <1>4, <1>7, <2>2 DEF PermissionDocument, Request, ReadPermissionForUpdate
    <3> QED BY <1>5, <3>1, <3>2
  <2> QED BY <2>1, <2>2
<1>8. CASE ExistsOnUpdate(c)
  <2>1. CASE Respond(c, "409")
    BY <1>2, <1>3, <2>1, RespondKeeps
  <2>2. CASE Goto(c, "update")
    <3> DEFINE s == [q EXCEPT !.step = "update"]
    <3>1. s \in Request /\ req' = [req EXCEPT ![c] = s] /\ s.op = q.op /\ s.permission = q.permission
      BY <1>1, <2>2 DEF Goto, Request, Step, IInv, TypeOK
    <3>2. PermissionDocument(s)
      BY <1>1, <1>8 DEF PermissionDocument, Request, ExistsOnUpdate
    <3> QED BY <1>5, <3>1, <3>2
  <2> QED BY <1>8, <2>1, <2>2 DEF ExistsOnUpdate
<1>9. CASE ReadPermissionForDelete(c)
  <2>1. CASE Respond(c, "409")
    BY <1>2, <1>3, <2>1, RespondKeeps
  <2>2. CASE ~Respond(c, "409")
    <3> DEFINE s == [q EXCEPT !.step = "load", !.deleted = TRUE,
                              !.name = permissions[q.permission].name]
    <3>0. permissions[q.permission].name \in PermissionName
      BY <1>1, <1>4, <1>9 DEF PermissionDocument, ReadPermissionForDelete
    <3>1. s \in Request /\ req' = [req EXCEPT ![c] = s] /\ s.op = q.op /\ s.permission = q.permission
      BY <1>1, <1>9, <2>2, <3>0 DEF ReadPermissionForDelete, Request, Step, IInv, TypeOK
    <3>2. PermissionDocument(s)
      BY <1>1, <1>4, <1>9, <3>0 DEF PermissionDocument, Request, ReadPermissionForDelete
    <3> QED BY <1>5, <3>1, <3>2
  <2> QED BY <2>1, <2>2
<1> QED BY <1>6, <1>7, <1>8, <1>9

(* The difference to the tables stays within the copies of the document. *)
LEMMA LoadRoleKeeps ==
  ASSUME IInv, NEW c \in Caller, LoadRole(c) PROVE IInv'
<1> USE ConstantsAssumption
<1> DEFINE q == req[c]
           plan == RolePlan(q)
           s == [q EXCEPT !.step = "commit", !.plan = plan]
<1>1. q \in Request /\ RoleDocument(q) /\ q.step = "load"
  BY RunningRequest DEF LoadRole
<1>2. plan \in Plan
  BY <1>1 DEF RolePlan, ListOf, Plan, Changed, RoleDocument, IInv, TypeOK
<1>3. req' = [req EXCEPT ![c] = s] /\ UNCHANGED <<Data, History>>
  BY DEF LoadRole, IInv, TypeOK, Request
<1>4. /\ s.copy = q.copy /\ s.role = q.role /\ s.permission = q.permission /\ s.op = q.op
      /\ s.name = q.name /\ s.step = "commit" /\ s.plan = plan /\ s \in Request
  <2> HIDE DEF plan
  <2> QED BY <1>1, <1>2 DEF Request, Step
<1>5. RoleDocument(s)
  <2>1. /\ plan.link \subseteq {q.role} \X {p \in Permission : q.copy[p] # NoName}
        /\ \A p \in plan.insert \cup plan.rename \cup plan.revive : q.copy[p] # NoName
        /\ \A p \in Permission :
             q.copy[p] # NoName /\ permissions[p].row = "absent" => p \in plan.insert
    BY DEF RolePlan, ListOf
  <2> HIDE DEF s, plan
  <2> QED BY <1>1, <1>4, <2>1 DEF RoleDocument
<1> HIDE DEF s
<1> QED BY <1>3, <1>4, <1>5, CopiesKept DEF DocumentOf

LEMMA LoadPermissionKeeps ==
  ASSUME IInv, NEW c \in Caller, LoadPermission(c) PROVE IInv'
<1> DEFINE q == req[c]
           plan == PermissionPlan(q)
           s == [q EXCEPT !.step = "commit", !.plan = plan]
<1>1. q \in Request /\ PermissionDocument(q) /\ q.step = "load"
  BY RunningRequest DEF LoadPermission
<1>2. plan \in Plan /\ plan.link = {}
  BY <1>1 DEF PermissionPlan, Plan, NoPlan, Changed, IInv, TypeOK
<1>3. req' = [req EXCEPT ![c] = s] /\ UNCHANGED <<Data, History>>
  BY DEF LoadPermission, IInv, TypeOK, Request
<1>4. /\ s.copy = q.copy /\ s.role = q.role /\ s.permission = q.permission /\ s.op = q.op
      /\ s.name = q.name /\ s.step = "commit" /\ s.plan = plan /\ s \in Request
  <2> HIDE DEF plan
  <2> QED BY <1>1, <1>2 DEF Request, Step
<1>5. PermissionDocument(s)
  <2> HIDE DEF s, plan
  <2> QED BY <1>1, <1>2, <1>4 DEF PermissionDocument
<1> HIDE DEF s
<1> QED BY <1>3, <1>4, <1>5, CopiesKept DEF DocumentOf

(* The request a save leaves behind holds no document.                     *)
Leaves(c) ==
  \E s \in Request : /\ req' = [req EXCEPT ![c] = s] /\ DocumentOf(s)
                     /\ s.step \in {"idle", "reread"} /\ s.copy = NoCopy
                     /\ s.op # "permission-create"

LEMMA SavedAnswers ==
  ASSUME IInv, NEW c \in Caller, Saved(c) \/ Respond(c, "200") PROVE Leaves(c)
<1> DEFINE answered == [Idle EXCEPT !.answer = "200"]
<1>1. answered \in Request /\ answered.op = "none" /\ answered.step = "idle" /\ answered.copy = NoCopy
  BY DEF Idle, Request, NoCopy, NoPlan, Plan, Step, Answer
<1>2. CASE Saved(c) /\ req[c].op = "role-update"
  <2> DEFINE s == Rereading(req[c].role)
  <2>1. req[c].role \in Role
    BY <1>2, RunningRequest DEF Saved, RoleDocument, RoleOp
  <2>2. s \in Request /\ s.op = "role-update" /\ s.step = "reread" /\ s.role = req[c].role
        /\ s.copy = NoCopy
    BY <2>1 DEF Rereading, Idle, Request, NoCopy, NoPlan, Plan, Step, Answer, Op, RoleOp
  <2>3. req' = [req EXCEPT ![c] = s]
    BY <1>2 DEF Saved
  <2> HIDE DEF s
  <2> QED BY <2>1, <2>2, <2>3 DEF DocumentOf, Leaves
<1>3. CASE ~(Saved(c) /\ req[c].op = "role-update")
  <2>1. req' = [req EXCEPT ![c] = answered]
    BY <1>3 DEF Saved, Respond
  <2> HIDE DEF answered
  <2> QED BY <1>1, <2>1 DEF DocumentOf, Leaves
<1> QED BY <1>2, <1>3

(* A write that removes no row, names every row it adds, adds no row        *)
(* another request is about to insert and adds only trailed join rows       *)
(* keeps the invariant.                                                     *)
LEMMA WriteKeeps ==
  ASSUME IInv, NEW c \in Caller, Leaves(c), NEW table, permissions' = table, borne' = BorneAfter(table),
         table \in [Permission -> PermissionRow],
         \A p \in Permission : (table[p].row = "absent") <=> (table[p].name = NoName),
         \A p \in Permission : permissions[p].row # "absent" => table[p].row # "absent",
         \A p \in Permission, d \in Caller \ {c} : AboutToInsert(d, p) => table[p].row = "absent",
         roles' \in [Role -> RoleRow],
         \A r \in Role : (roles'[r].row = "absent") <=> (roles'[r].name = NoName),
         held' \subseteq Role \X Permission,
         \A rp \in held' \ held : Trail(rp[1], rp[2])',
         UNCHANGED <<requests, granted>>
  PROVE IInv'
<1> USE ConstantsAssumption
<1>0. PICK s \in Request : /\ req' = [req EXCEPT ![c] = s] /\ DocumentOf(s)
                           /\ s.step \in {"idle", "reread"} /\ s.copy = NoCopy
  BY DEF Leaves
<1>1. s.op # "permission-create" /\ ~RoleDocument(s) /\ ~PermissionDocument(s)
  BY <1>0 DEF DocumentOf, RoleDocument, PermissionDocument
<1>2. DocumentOf(s)'
  BY <1>0, <1>1 DEF DocumentOf
<1>3. req' \in [Caller -> Request] /\ req'[c] = s /\ \A d \in Caller \ {c} : req'[d] = req[d]
  BY <1>0 DEF IInv, TypeOK
<1>4. /\ borne \subseteq borne'
      /\ \A p \in Permission : table[p].row # "absent" => <<p, table[p].name>> \in borne'
      /\ borne' \subseteq Permission \X PermissionName
      /\ \A p \in Permission, n \in PermissionName :
           <<p, n>> \in borne' => <<p, n>> \in borne \/ table[p].row # "absent"
  <2>1. \A p \in Permission : table[p].row # "absent" => table[p].name \in PermissionName
    BY DEF PermissionRow
  <2> QED BY <2>1 DEF BorneAfter, IInv, TypeOK
<1>5. TypeOK'
  BY <1>3, <1>4 DEF IInv, TypeOK
<1>6. RowsNamed'
  BY <1>4 DEF IInv, RowsNamed
<1>7. \A r \in Role \cup {NoId}, p \in Permission : Trail(r, p) => Trail(r, p)'
  BY <1>4 DEF Trail
<1>8. ASSUME NEW d \in Caller PROVE DocumentOf(req[d])'
  <2>1. CASE d = c
    <3>1. req'[d] = s
      BY <1>3, <2>1
    <3>2. RoleDocument(s)' => RoleDocument(req[d])'
      BY <3>1 DEF RoleDocument
    <3>3. PermissionDocument(s)' => PermissionDocument(req[d])'
      BY <3>1 DEF PermissionDocument
    <3>4. DocumentOf(s)' => DocumentOf(req[d])'
      BY <3>1, <3>2, <3>3 DEF DocumentOf
    <3> QED BY <1>2, <3>4
  <2>2. CASE d # c
    <3>1. req'[d] = req[d] /\ DocumentOf(req[d])
      BY <1>3, <2>2 DEF IInv
    <3> QED BY <3>1, DocumentStays
  <2> QED BY <2>1, <2>2
<1>9. ASSUME NEW rp \in held' PROVE Trail(rp[1], rp[2])'
  <2>1. CASE rp \in held
    <3>1. Trail(rp[1], rp[2]) /\ rp[1] \in Role /\ rp[2] \in Permission
      BY <2>1 DEF IInv, TypeOK
    <3> QED BY <1>7, <3>1
  <2>2. CASE rp \notin held
    BY <1>9, <2>2
  <2> QED BY <2>1, <2>2
<1>10. ASSUME NEW d \in Caller, NEW p \in Permission, req'[d].copy[p] # NoName
       PROVE \/ Trail(req[d].role, p)' /\ <<p, req'[d].copy[p]>> \in borne'
             \/ AboutToInsert(d, p)'
  <2>1. d # c
    BY <1>0, <1>3, <1>10 DEF NoCopy
  <2>2. req'[d] = req[d] /\ req[d].role \in Role \cup {NoId}
    BY <1>3, <2>1 DEF IInv, TypeOK, Request
  <2>3. CASE Trail(req[d].role, p) /\ <<p, req[d].copy[p]>> \in borne
    <3>1. Trail(req[d].role, p)'
      BY <1>7, <2>2, <2>3 DEF Trail
    <3> QED BY <1>4, <2>2, <2>3, <3>1
  <2>4. CASE AboutToInsert(d, p)
    <3>1. table[p].row = "absent"
      BY <2>1, <2>4
    <3>2. \A e \in Caller \ {d} : req'[e].copy[p] = NoName
      BY <1>0, <1>3, <2>4 DEF AboutToInsert, NoCopy
    <3>3. \A e \in Caller : req'[e].op = "permission-create" => req'[e].permission # p
      BY <1>1, <1>3, <2>4 DEF AboutToInsert
    <3> QED BY <2>2, <2>4, <3>1, <3>2, <3>3 DEF AboutToInsert
  <2> QED BY <1>10, <2>2, <2>3, <2>4 DEF IInv, CopiesTrailed
<1> QED BY <1>5, <1>6, <1>8, <1>9, <1>10 DEF IInv, CopiesTrailed

(* Saving a role document writes the copies it holds, all of them trailed. *)
LEMMA SavedRoleKeeps ==
  ASSUME IInv, NEW c \in Caller, Saved(c), req[c].op \in RoleOp PROVE IInv'
<1> USE ConstantsAssumption
<1> DEFINE q == req[c]
           table == PermissionsAfter(q)
<1>1. q \in Request /\ RoleDocument(q) /\ q.step = "commit"
  BY RunningRequest DEF Saved
<1>2. /\ roles' = [roles EXCEPT ![q.role] = Written(@, q)] /\ permissions' = table
      /\ held' = (held \cup q.plan.link) \ q.plan.unlink /\ borne' = BorneAfter(table)
      /\ UNCHANGED <<requests, granted>>
  BY DEF Saved, RolesAfter
<1>3. table = [p \in Permission |->
            [row |-> IF p \in q.plan.insert \cup q.plan.revive THEN "live"
                     ELSE permissions[p].row,
             name |-> IF p \in q.plan.insert \cup q.plan.rename THEN q.copy[p]
                      ELSE permissions[p].name]]
  BY DEF PermissionsAfter
<1>4. /\ q.role \in Role /\ q.name \in RoleName /\ q.copy \in [Permission -> PermissionName \cup {NoName}]
      /\ q.plan \in Plan
      /\ q.plan.link \subseteq {q.role} \X {p \in Permission : q.copy[p] # NoName}
      /\ \A p \in q.plan.insert \cup q.plan.rename \cup q.plan.revive : q.copy[p] # NoName
      /\ \A p \in Permission :
           q.copy[p] # NoName /\ permissions[p].row = "absent" => p \in q.plan.insert
  BY <1>1 DEF RoleDocument, Request
<1>5. table \in [Permission -> PermissionRow]
  <2>1. permissions \in [Permission -> PermissionRow]
    BY DEF IInv, TypeOK
  <2> QED BY <1>3, <1>4, <2>1 DEF PermissionRow, RowState, Plan
<1>6. ASSUME NEW p \in Permission PROVE (table[p].row = "absent") <=> (table[p].name = NoName)
  BY <1>3, <1>4 DEF IInv, RowsNamed, Plan
<1>7. \A p \in Permission : permissions[p].row # "absent" => table[p].row # "absent"
  BY <1>3
<1>8. ASSUME NEW p \in Permission, NEW d \in Caller \ {c}, AboutToInsert(d, p)
      PROVE table[p].row = "absent"
  <2>1. permissions[p].row = "absent" /\ q.copy[p] = NoName
    BY <1>8 DEF AboutToInsert
  <2> QED BY <1>3, <1>4, <2>1 DEF Plan
<1>9. Written(roles[q.role], q) \in RoleRow /\ Written(roles[q.role], q).row # "absent"
      /\ Written(roles[q.role], q).name # NoName
  <2>1. roles[q.role] \in RoleRow /\ (roles[q.role].row = "absent" <=> roles[q.role].name = NoName)
    BY <1>4 DEF IInv, TypeOK, RowsNamed
  <2> QED BY <1>4, <2>1 DEF Written, RoleRow, RowState
<1>10. roles' \in [Role -> RoleRow]
  BY <1>2, <1>9 DEF IInv, TypeOK
<1>11. \A r \in Role : (roles'[r].row = "absent") <=> (roles'[r].name = NoName)
  BY <1>2, <1>9 DEF IInv, TypeOK, RowsNamed
<1>12. held' \subseteq Role \X Permission
  BY <1>2, <1>4 DEF IInv, TypeOK
<1>13. ASSUME NEW rp \in held' \ held PROVE Trail(rp[1], rp[2])'
  <2>1. rp[1] = q.role /\ rp[2] \in Permission /\ q.copy[rp[2]] # NoName
    BY <1>2, <1>4, <1>13
  <2> DEFINE p == rp[2]
  <2>2. borne \subseteq borne' /\ (table[p].row # "absent" => <<p, table[p].name>> \in borne')
    BY <1>2, <2>1 DEF BorneAfter
  <2>3. CASE Trail(q.role, p)
    BY <1>2, <2>1, <2>2, <2>3 DEF Trail
  <2>4. CASE AboutToInsert(c, p)
    <3>1. p \in q.plan.insert /\ <<q.role, q.copy[p]>> \in granted
      BY <1>4, <2>1, <2>4 DEF AboutToInsert
    <3>2. table[p].row # "absent" /\ table[p].name = q.copy[p] /\ q.copy[p] \in PermissionName
      <4>1. table[p] = [row |-> "live", name |-> q.copy[p]]
        BY <1>3, <2>1, <3>1
      <4>2. q.copy[p] \in PermissionName \cup {NoName}
        BY <1>4, <2>1
      <4> QED BY <2>1, <4>1, <4>2
    <3> QED BY <1>2, <2>1, <2>2, <3>1, <3>2 DEF Trail
  <2> QED BY <2>1, <2>3, <2>4 DEF IInv, CopiesTrailed
<1> HIDE DEF table
<1> QED BY <1>2, <1>5, <1>6, <1>7, <1>8, <1>10, <1>11, <1>12, <1>13, SavedAnswers, WriteKeeps

(* A permission request writes one row: its own new one, or one that exists. *)
LEMMA SavedPermissionKeeps ==
  ASSUME IInv, NEW c \in Caller, Saved(c), req[c].op \in PermissionOp PROVE IInv'
<1> USE ConstantsAssumption
<1> DEFINE q == req[c]
           table == PermissionsAfter(q)
<1>1. q \in Request /\ PermissionDocument(q) /\ q.step = "commit" /\ q.op \notin RoleOp
  BY RunningRequest DEF Saved, RoleOp, PermissionOp
<1>2. /\ roles' = roles /\ permissions' = table
      /\ held' \subseteq held /\ borne' = BorneAfter(table)
      /\ UNCHANGED <<requests, granted>>
  BY <1>1 DEF Saved, RolesAfter, PermissionDocument
<1>3. table = [permissions EXCEPT ![q.permission] = Written(@, q)]
  BY <1>1 DEF PermissionsAfter
<1>4. /\ q.permission \in Permission /\ q.name \in PermissionName
      /\ q.op # "permission-create" => permissions[q.permission].row # "absent"
  BY <1>1 DEF PermissionDocument
<1>5. /\ Written(permissions[q.permission], q) \in PermissionRow
      /\ Written(permissions[q.permission], q).row # "absent"
      /\ Written(permissions[q.permission], q).name # NoName
  <2>1. permissions[q.permission] \in PermissionRow
        /\ (permissions[q.permission].row = "absent" <=> permissions[q.permission].name = NoName)
    BY <1>4 DEF IInv, TypeOK, RowsNamed
  <2> QED BY <1>4, <2>1 DEF Written, PermissionRow, RowState
<1>6. table \in [Permission -> PermissionRow]
  BY <1>3, <1>5 DEF IInv, TypeOK
<1>7. \A p \in Permission : (table[p].row = "absent") <=> (table[p].name = NoName)
  BY <1>3, <1>5 DEF IInv, TypeOK, RowsNamed
<1>8. \A p \in Permission : permissions[p].row # "absent" => table[p].row # "absent"
  BY <1>3, <1>5 DEF IInv, TypeOK
<1>9. ASSUME NEW p \in Permission, NEW d \in Caller \ {c}, AboutToInsert(d, p)
      PROVE table[p].row = "absent"
  <2>1. permissions[p].row = "absent" /\ p # q.permission
    BY <1>4, <1>9 DEF AboutToInsert
  <2> QED BY <1>3, <2>1 DEF IInv, TypeOK
<1> HIDE DEF table
<1> QED BY <1>2, <1>6, <1>7, <1>8, <1>9, SavedAnswers, WriteKeeps DEF IInv, TypeOK, RowsNamed

LEMMA UpdatePermissionKeeps ==
  ASSUME IInv, NEW c \in Caller, UpdatePermission(c) PROVE IInv'
<1> USE ConstantsAssumption
<1> DEFINE q == req[c]
           new == [row |-> "live", name |-> q.name]
           table == [permissions EXCEPT ![q.permission] = new]
<1>1. PermissionDocument(q) /\ q.step = "update" /\ q.op = "permission-update"
  BY RunningRequest DEF UpdatePermission, PermissionDocument
<1>2. /\ q.permission \in Permission /\ q.name \in PermissionName
      /\ permissions[q.permission].row # "absent"
  BY <1>1 DEF PermissionDocument
<1>3. {"200", "500"} \subseteq Answer
  BY DEF Answer
<1>4. UNCHANGED <<roles, held, requests, granted>>
  BY DEF UpdatePermission
<1>5. CASE Respond(c, "500") /\ UNCHANGED <<permissions, borne>>
  BY <1>3, <1>4, <1>5, RespondKeeps DEF Data, History
<1>6. CASE permissions' = table /\ borne' = BorneAfter(table) /\ Respond(c, "200")
  <2>1. new \in PermissionRow /\ new.row # "absent" /\ new.name # NoName
    BY <1>2 DEF PermissionRow, RowState
  <2>2. table \in [Permission -> PermissionRow]
    BY <2>1 DEF IInv, TypeOK
  <2>3. \A p \in Permission : (table[p].row = "absent") <=> (table[p].name = NoName)
    BY <2>1 DEF IInv, TypeOK, RowsNamed
  <2>4. \A p \in Permission : permissions[p].row # "absent" => table[p].row # "absent"
    BY <2>1 DEF IInv, TypeOK
  <2>5. \A p \in Permission, d \in Caller \ {c} : AboutToInsert(d, p) => table[p].row = "absent"
    BY <1>2 DEF AboutToInsert, IInv, TypeOK
  <2>8. /\ roles' \in [Role -> RoleRow]
        /\ \A r \in Role : (roles'[r].row = "absent") <=> (roles'[r].name = NoName)
        /\ held' \subseteq Role \X Permission /\ held' \subseteq held
    BY <1>4 DEF IInv, TypeOK, RowsNamed
  <2> HIDE DEF table
  <2> QED BY <1>4, <1>6, <2>2, <2>3, <2>4, <2>5, <2>8, SavedAnswers, WriteKeeps
<1> QED BY <1>5, <1>6 DEF UpdatePermission

LEMMA HandleKeeps ==
  ASSUME IInv, NEW c \in Caller, Handle(c) PROVE IInv'
<1>1. {"404", "409", "500"} \subseteq Answer
  BY DEF Answer
<1>2. CASE RoleNotFound(c)
  BY <1>1, <1>2, RespondKeeps DEF RoleNotFound
<1>3. CASE ReadRoleForUpdate(c)
  BY <1>3, ReadIntoKeeps DEF ReadRoleForUpdate, RoleOp
<1>4. CASE ReadRoleForDelete(c)
  BY <1>1, <1>4, RespondKeeps, ReadIntoKeeps DEF ReadRoleForDelete, RoleOp
<1>5. CASE ReadRoleForGrants(c)
  BY <1>5, ReadIntoKeeps DEF ReadRoleForGrants, RoleOp
<1>6. CASE ReadPermissionsToAdd(c)
  BY <1>6, AddKeeps
<1>7. CASE ReadPermissionsToRemove(c)
  BY <1>7, RemoveKeeps
<1>8. CASE PermissionNotFound(c)
  BY <1>1, <1>8, RespondKeeps DEF PermissionNotFound
<1>9. CASE \/ ReadPermissionName(c) \/ ReadPermissionForUpdate(c)
           \/ ExistsOnUpdate(c) \/ ReadPermissionForDelete(c)
  BY <1>9, PermissionReadsKeep
<1>10. CASE LoadRole(c)
  BY <1>10, LoadRoleKeeps
<1>11. CASE LoadPermission(c)
  BY <1>11, LoadPermissionKeeps
<1>12. CASE Saved(c)
  <2>1. req[c].op \in RoleOp \/ req[c].op \in PermissionOp
    BY <1>12, RunningRequest DEF Saved, RoleDocument, PermissionDocument
  <2> QED BY <1>12, <2>1, SavedRoleKeeps, SavedPermissionKeeps
<1>13. CASE SaveRejected(c)
  BY <1>1, <1>13, RespondKeeps DEF SaveRejected
<1>14. CASE UpdatePermission(c)
  BY <1>14, UpdatePermissionKeeps
<1>15. CASE Reread(c)
  <2>1. PICK code \in {"200", "500"} : Respond(c, code)
    BY <1>15 DEF Reread
  <2> QED BY <1>15, <2>1, RespondKeeps DEF Reread, Answer
<1> QED BY <1>2, <1>3, <1>4, <1>5, <1>6, <1>7, <1>8, <1>9, <1>10, <1>11, <1>12,
           <1>13, <1>14, <1>15 DEF Handle

LEMMA StutterKeeps == IInv /\ UNCHANGED vars => IInv'
<1> SUFFICES ASSUME IInv, UNCHANGED vars PROVE IInv'
  OBVIOUS
<1>1. TypeOK' /\ RowsNamed'
  BY DEF vars, IInv, TypeOK, RowsNamed
<1>2. (\A c \in Caller : DocumentOf(req[c]))'
  BY DEF vars, IInv, DocumentOf, RoleDocument, PermissionDocument
<1>3. (\A rp \in held : Trail(rp[1], rp[2]))'
  BY DEF vars, IInv, Trail
<1>4. CopiesTrailed'
  BY DEF vars, IInv, CopiesTrailed, AboutToInsert, Trail
<1> QED BY <1>1, <1>2, <1>3, <1>4 DEF IInv

----------------------------------------------------------------------------
(* The invariant is inductive: seeds, types, rows, documents and trails    *)
(* hold in every reachable state, for any number of requests, rows and     *)
(* accounts, overlapping or not.                                           *)
THEOREM Inductive == Spec => []IInv
<1>1. Init => IInv
  BY InitIInv
<1>2. IInv /\ [Next]_vars => IInv'
  BY StartKeeps, HandleKeeps, StutterKeeps DEF Next
<1> QED BY <1>1, <1>2, PTL DEF Spec

(* Every variable keeps its type under every interleaving of handlers.     *)
THEOREM TypeCorrect == Spec => []TypeOK
<1>1. IInv => TypeOK
  BY DEF IInv
<1> QED BY <1>1, Inductive, PTL

(* What the guard allows leads back to a grant: the seeds' or that of some *)
(* role-add-permission request (authorization.guard.ts against the saves   *)
(* of the role use cases).                                                 *)
THEOREM GrantsAreTrailed == Spec => []GrantTrail
<1>1. IInv => GrantTrail
  <2> SUFFICES ASSUME IInv, NEW a \in Account, NEW n \in PermissionName, Allowed(a, n)
               PROVE \E r \in AccountRoles[a], p \in Permission :
                       permissions[p].name = n /\ Trail(r, p)
    BY DEF GrantTrail
  <2>1. PICK r \in AccountRoles[a] : \E p \in PermissionsOf(r) : permissions[p].name = n
    BY DEF Allowed, PermissionNamesOf
  <2>2. PICK p \in Permission : <<r, p>> \in held /\ permissions[p].name = n
    BY <2>1 DEF PermissionsOf
  <2>3. Trail(r, p)
    BY <2>2 DEF IInv
  <2> QED BY <2>2, <2>3
<1> QED BY <1>1, Inductive, PTL

(* No step hands a request the document of a deleted row.                  *)
Advance(c) ==
  /\ \A d \in Caller \ {c} : req'[d] = req[d]
  /\ \A r \in Role : HasRead(c)' /\ req'[c].role = r =>
       \/ HasRead(c) /\ req[c].role = r
       \/ roles[r].row # "deleted"
  /\ \A p \in Permission : HasRead(c)' /\ (req'[c].permission = p \/ req'[c].copy[p] # NoName) =>
       \/ HasRead(c) /\ (req[c].permission = p \/ req[c].copy[p] # NoName)
       \/ permissions[p].row # "deleted"

LEMMA RespondAdvances ==
  ASSUME IInv, NEW c \in Caller, NEW code \in Answer, Respond(c, code) PROVE Advance(c)
<1>1. req'[c] = [Idle EXCEPT !.answer = code] /\ \A d \in Caller \ {c} : req'[d] = req[d]
  BY DEF Respond, IInv, TypeOK
<1>2. req'[c].step = "idle" /\ req'[c].op = "none"
  BY <1>1 DEF Idle
<1> QED BY <1>1, <1>2 DEF Advance, HasRead

LEMMA ReadIntoAdvances ==
  ASSUME IInv, NEW c \in Caller, NEW step \in {"permissions", "load"},
         NEW deleted \in BOOLEAN, req[c].op \in RoleOp, req[c].step = "read",
         LiveRole(req[c].role), ReadInto(c, step, deleted)
  PROVE Advance(c)
<1> USE ConstantsAssumption
<1>1. req[c] \in Request /\ RoleDocument(req[c])
  BY RunningRequest
<1>2. /\ req'[c].role = req[c].role /\ req'[c].permission = req[c].permission
      /\ req'[c].copy = CopiesOf(req[c].role) /\ \A d \in Caller \ {c} : req'[d] = req[d]
  BY <1>1 DEF ReadInto, IInv, TypeOK, Request
<1>3. \A p \in Permission : req'[c].copy[p] # NoName => permissions[p].row # "deleted"
  BY <1>2 DEF CopiesOf, PermissionsOf, LivePermission
<1>4. req'[c].permission \notin Permission /\ roles[req[c].role].row # "deleted"
  BY <1>1, <1>2 DEF RoleDocument, LiveRole
<1> QED BY <1>2, <1>3, <1>4 DEF Advance

(* A request that already has its document keeps it, or copies what is live. *)
KeepsDocument(c) ==
  /\ \A d \in Caller \ {c} : req'[d] = req[d]
  /\ req'[c].role = req[c].role /\ req'[c].permission = req[c].permission
  /\ \/ HasRead(c)
     \/ req[c].op \in PermissionOp /\ permissions[req[c].permission].row # "deleted"
  /\ \A p \in Permission : req'[c].copy[p] # NoName =>
       req[c].copy[p] # NoName \/ permissions[p].row # "deleted"

LEMMA DocumentAdvances ==
  ASSUME IInv, NEW c \in Caller, KeepsDocument(c) PROVE Advance(c)
<1> USE ConstantsAssumption DEF KeepsDocument
<1>1. CASE HasRead(c)
  BY <1>1 DEF Advance
<1>2. CASE req[c].op \in PermissionOp /\ permissions[req[c].permission].row # "deleted"
  <2>1. req[c].role = NoId /\ req[c].copy = NoCopy
    BY <1>2, RunningRequest DEF PermissionDocument
  <2> QED BY <1>2, <2>1 DEF Advance, NoCopy
<1> QED BY <1>1, <1>2

LEMMA StartAdvances ==
  ASSUME IInv, NEW c \in Caller, Start(c) PROVE Advance(c)
<1> USE ConstantsAssumption
<1>1. PICK s \in Request : Begin(c, s) /\ Opens(s)
  BY StartsRequest
<1>2. req'[c] = s /\ \A d \in Caller \ {c} : req'[d] = req[d]
  BY <1>1 DEF Begin, IInv, TypeOK
<1>3. \A p \in Permission : s.copy[p] = NoName
  BY <1>1 DEF Opens, NoCopy
<1> QED BY <1>1, <1>2, <1>3 DEF Opens, Advance, HasRead, FreshRole, FreshPermission

LEMMA HandleAdvances ==
  ASSUME IInv, NEW c \in Caller, Handle(c) PROVE Advance(c)
<1> USE ConstantsAssumption
<1>1. {"200", "404", "409", "500"} \subseteq Answer
  BY DEF Answer
<1>2. req \in [Caller -> Request] /\ req[c].copy \in [Permission -> PermissionName \cup {NoName}]
  BY DEF IInv, TypeOK, Request
<1>3. CASE \E code \in Answer : Respond(c, code)
  BY <1>3, RespondAdvances
<1>4. CASE ReadRoleForUpdate(c)
  BY <1>4, ReadIntoAdvances DEF ReadRoleForUpdate, RoleOp
<1>5. CASE ReadRoleForDelete(c)
  BY <1>1, <1>3, <1>5, ReadIntoAdvances DEF ReadRoleForDelete, RoleOp
<1>6. CASE ReadRoleForGrants(c)
  BY <1>6, ReadIntoAdvances DEF ReadRoleForGrants, RoleOp
<1>7. CASE ReadPermissionsToAdd(c)
  <2>1. PICK id \in [Missing(req[c]) -> FreshPermission] :
          req' = [req EXCEPT ![c].step = "load",
                             ![c].copy = [p \in Permission |->
                                IF p \in Joining(req[c]) THEN permissions[p].name
                                ELSE IF \E s \in Missing(req[c]) : id[s] = p
                                  THEN NewCopy(req[c], id, p)
                                ELSE req[c].copy[p]]]
    BY <1>7 DEF ReadPermissionsToAdd
  <2>2. ASSUME NEW p \in Permission, req'[c].copy[p] # NoName
        PROVE req[c].copy[p] # NoName \/ permissions[p].row # "deleted"
    BY <1>2, <2>1, <2>2 DEF Joining, LivePermission, FreshPermission, Request
  <2>3. HasRead(c) /\ req'[c].role = req[c].role /\ req'[c].permission = req[c].permission
        /\ \A d \in Caller \ {c} : req'[d] = req[d]
    BY <1>2, <1>7, <2>1 DEF HasRead, ReadPermissionsToAdd, Request
  <2> QED BY <2>2, <2>3, DocumentAdvances DEF KeepsDocument
<1>8. CASE ReadPermissionsToRemove(c)
  <2>1. /\ HasRead(c) /\ req'[c].role = req[c].role /\ req'[c].permission = req[c].permission
        /\ \A d \in Caller \ {c} : req'[d] = req[d]
        /\ req'[c].copy = [p \in Permission |->
             IF req[c].copy[p] \in Found(req[c]) THEN NoName ELSE req[c].copy[p]]
    BY <1>2, <1>8 DEF HasRead, ReadPermissionsToRemove, Request
  <2> QED BY <2>1, DocumentAdvances DEF KeepsDocument
<1>9. CASE ReadPermissionName(c) /\ Goto(c, "load")
  BY <1>2, <1>9, DocumentAdvances
     DEF KeepsDocument, ReadPermissionName, Goto, HasRead, Request
<1>10. CASE ReadPermissionForUpdate(c)
  BY <1>2, <1>10, DocumentAdvances
     DEF KeepsDocument, ReadPermissionForUpdate, Goto, LivePermission, PermissionOp, Request
<1>11. CASE ExistsOnUpdate(c) /\ Goto(c, "update")
  BY <1>2, <1>11, DocumentAdvances DEF KeepsDocument, ExistsOnUpdate, Goto, HasRead, Request
<1>12. CASE ReadPermissionForDelete(c) /\ ~Respond(c, "409")
  BY <1>2, <1>12, DocumentAdvances
     DEF KeepsDocument, ReadPermissionForDelete, LivePermission, PermissionOp, Request
<1>13. CASE LoadRole(c)
  <2>1. PICK plan : req' = [req EXCEPT ![c].step = "commit", ![c].plan = plan]
    BY <1>13 DEF LoadRole
  <2>2. req[c].copy = req'[c].copy /\ req'[c].role = req[c].role /\ req'[c].permission = req[c].permission
        /\ \A d \in Caller \ {c} : req'[d] = req[d]
    BY <1>2, <2>1 DEF Request
  <2>3. HasRead(c)
    BY <1>13 DEF LoadRole, HasRead
  <2> QED BY <2>2, <2>3, DocumentAdvances DEF KeepsDocument
<1>14. CASE LoadPermission(c)
  <2>1. PICK plan : req' = [req EXCEPT ![c].step = "commit", ![c].plan = plan]
    BY <1>14 DEF LoadPermission
  <2>2. req[c].copy = req'[c].copy /\ req'[c].role = req[c].role /\ req'[c].permission = req[c].permission
        /\ \A d \in Caller \ {c} : req'[d] = req[d]
    BY <1>2, <2>1 DEF Request
  <2>3. HasRead(c)
    BY <1>14 DEF LoadPermission, HasRead
  <2> QED BY <2>2, <2>3, DocumentAdvances DEF KeepsDocument
<1>15. CASE RoleNotFound(c) \/ PermissionNotFound(c) \/ SaveRejected(c)
            \/ UpdatePermission(c) \/ Reread(c)
  BY <1>1, <1>3, <1>15 DEF RoleNotFound, PermissionNotFound, SaveRejected, UpdatePermission, Reread
<1>17. CASE Saved(c)
  <2>1. PICK s \in Request : /\ req' = [req EXCEPT ![c] = s] /\ s.step \in {"idle", "reread"}
                             /\ s.op # "permission-create"
    BY <1>17, SavedAnswers DEF Leaves
  <2>2. req'[c] = s /\ \A d \in Caller \ {c} : req'[d] = req[d]
    BY <1>2, <2>1
  <2> QED BY <2>1, <2>2 DEF Advance, HasRead
<1>16. CASE ReadPermissionName(c) \/ ExistsOnUpdate(c) \/ ReadPermissionForDelete(c)
  BY <1>1, <1>3, <1>9, <1>11, <1>12, <1>16 DEF ReadPermissionName, ExistsOnUpdate
<1> QED BY <1>4, <1>5, <1>6, <1>7, <1>8, <1>10, <1>13, <1>14, <1>15, <1>16, <1>17 DEF Handle

(* Only the holder of its document changes whether a row is deleted. *)
LEMMA OnlyHoldersWrite ==
  ASSUME IInv, Next
  PROVE /\ \A r \in Role : ~CopyOfRole(r) => roles'[r].row = roles[r].row
        /\ \A p \in Permission : ~CopyOfPermission(p) => permissions'[p].row = permissions[p].row
<1>1. PICK c \in Caller : Start(c) \/ Handle(c)
  BY DEF Next
<1>2. CASE UNCHANGED <<roles, permissions>>
  BY <1>2
<1>3. CASE Saved(c) /\ req[c].op \in RoleOp
  <2> DEFINE q == req[c]
  <2>1. /\ roles' = [roles EXCEPT ![q.role] = Written(@, q)]
        /\ permissions' = [p \in Permission |->
             [row |-> IF p \in q.plan.insert \cup q.plan.revive THEN "live"
                      ELSE permissions[p].row,
              name |-> IF p \in q.plan.insert \cup q.plan.rename THEN q.copy[p]
                       ELSE permissions[p].name]]
    BY <1>3 DEF Saved, RolesAfter, PermissionsAfter
  <2>2. HasRead(c) /\ \A p \in q.plan.insert \cup q.plan.revive : q.copy[p] # NoName
    BY <1>3, RunningRequest DEF Saved, HasRead, RoleDocument
  <2>3. \A r \in Role : ~CopyOfRole(r) => roles'[r] = roles[r]
    BY <2>1, <2>2 DEF CopyOfRole, IInv, TypeOK
  <2>4. \A p \in Permission : ~CopyOfPermission(p) => permissions'[p].row = permissions[p].row
    BY <2>1, <2>2 DEF CopyOfPermission
  <2> QED BY <2>3, <2>4
<1>4. CASE (Saved(c) /\ req[c].op \notin RoleOp) \/ UpdatePermission(c)
  <2>1. HasRead(c) /\ roles' = roles
        /\ \A p \in Permission : p # req[c].permission => permissions'[p] = permissions[p]
    BY <1>4 DEF Saved, UpdatePermission, HasRead, RolesAfter, PermissionsAfter, IInv, TypeOK
  <2> QED BY <2>1 DEF CopyOfPermission
<1>5. CASE Start(c)
  BY <1>2, <1>5 DEF Start, StartRoleCreate, StartRoleUpdate, StartRoleDelete, StartRoleGrants,
        StartPermissionCreate, StartPermissionUpdate, StartPermissionDelete, Begin, Data
<1>6. CASE Handle(c) /\ ~Saved(c) /\ ~UpdatePermission(c)
  BY <1>2, <1>6 DEF Handle, RoleNotFound, ReadRoleForUpdate, ReadRoleForDelete,
        ReadRoleForGrants, ReadPermissionsToAdd, ReadPermissionsToRemove, PermissionNotFound,
        ReadPermissionName, ReadPermissionForUpdate, ExistsOnUpdate, ReadPermissionForDelete,
        LoadRole, LoadPermission, SaveRejected, Reread, Data
<1> QED BY <1>1, <1>3, <1>4, <1>5, <1>6

(* A deletion is final unless a request read the row while it was live: no *)
(* other step of any handler clears deletedAt or reads the row again       *)
(* (repository.create saves whole documents; permission-update.ts writes   *)
(* back the null it read).                                                 *)
THEOREM DeletionsAreFinal == Spec => OnlyStaleCopiesUndelete
<1>1. ASSUME IInv, Next PROVE DeletionIsFinal
  <2>1. PICK c \in Caller : Start(c) \/ Handle(c)
    BY <1>1 DEF Next
  <2>2. Advance(c)
    BY <1>1, <2>1, StartAdvances, HandleAdvances
  <2>3. ASSUME NEW r \in Role, roles[r].row = "deleted", ~CopyOfRole(r)
        PROVE roles'[r].row = "deleted" /\ ~CopyOfRole(r)'
    BY <1>1, <2>2, <2>3, OnlyHoldersWrite DEF Advance, CopyOfRole, HasRead
  <2>4. ASSUME NEW p \in Permission, permissions[p].row = "deleted", ~CopyOfPermission(p)
        PROVE permissions'[p].row = "deleted" /\ ~CopyOfPermission(p)'
    BY <1>1, <2>2, <2>4, OnlyHoldersWrite DEF Advance, CopyOfPermission, HasRead
  <2> QED BY <2>3, <2>4 DEF DeletionIsFinal
<1>2. IInv /\ [Next]_vars => [DeletionIsFinal]_vars
  BY <1>1
<1> QED BY <1>2, Inductive, PTL DEF OnlyStaleCopiesUndelete, Spec

----------------------------------------------------------------------------
(* Who strands a grant.  A document that deletes its row lists no          *)
(* permission: role-delete has checked that there are none.                *)
DeletesNothingHeld ==
  \A c \in Caller : req[c].deleted =>
    req[c].copy = NoCopy /\ req[c].op \in {"role-delete", "permission-delete"}

LEMMA DeleterStays == IInv /\ DeletesNothingHeld /\ [Next]_vars => DeletesNothingHeld'
<1> SUFFICES ASSUME IInv, DeletesNothingHeld, [Next]_vars, NEW d \in Caller, req'[d].deleted
             PROVE req'[d].copy = NoCopy /\ req'[d].op \in {"role-delete", "permission-delete"}
  BY DEF DeletesNothingHeld
<1>0. req \in [Caller -> Request]
  BY DEF IInv, TypeOK
<1>1. CASE req'[d] = req[d]
  BY <1>1 DEF DeletesNothingHeld
<1>2. ASSUME NEW c \in Caller, Start(c) \/ Handle(c), c # d PROVE req'[d] = req[d]
  BY <1>2, StartAdvances, HandleAdvances DEF Advance
<1>3. CASE Start(d)
  <2>1. PICK s \in Request : Begin(d, s) /\ Opens(s)
    BY <1>3, StartsRequest
  <2>2. req'[d] = s
    BY <1>0, <2>1 DEF Begin
  <2> QED BY <2>1, <2>2 DEF Opens
<1>4. CASE Handle(d)
  <2> DEFINE q == req[d]
  <2>1. \A code : ~Respond(d, code)
    BY <1>0 DEF Respond, Idle
  <2>2. \A step : Goto(d, step) => /\ req'[d].deleted = q.deleted /\ req'[d].op = q.op
                                   /\ req'[d].copy = q.copy
    BY <1>0 DEF Goto, Request
  <2>3. CASE ReadRoleForDelete(d)
    <3>1. /\ req'[d].op = q.op /\ q.op = "role-delete" /\ req'[d].copy = CopiesOf(q.role)
          /\ PermissionsOf(q.role) = {}
      BY <1>0, <2>1, <2>3 DEF ReadRoleForDelete, ReadInto, Request
    <3> QED BY <3>1 DEF CopiesOf, NoCopy
  <2>4. ~ReadRoleForUpdate(d) /\ ~ReadRoleForGrants(d)
    BY <1>0 DEF ReadRoleForUpdate, ReadRoleForGrants, ReadInto, Request
  <2>5. CASE ReadPermissionsToAdd(d) \/ ReadPermissionsToRemove(d)
    BY <1>0, <2>5 DEF ReadPermissionsToAdd, ReadPermissionsToRemove, Request, DeletesNothingHeld
  <2>6. CASE ReadPermissionForDelete(d) \/ ReadPermissionForUpdate(d)
    <3>1. q.copy = NoCopy
      BY <2>6, RunningRequest DEF ReadPermissionForDelete, ReadPermissionForUpdate, PermissionDocument,
         PermissionOp, RoleOp, IInv, DocumentOf, RoleDocument
    <3>2. CASE ReadPermissionForDelete(d)
      <4>1. /\ q.op = "permission-delete"
            /\ req' = [req EXCEPT ![d].step = "load", ![d].deleted = TRUE,
                                  ![d].name = permissions[q.permission].name]
        BY <2>1, <3>2 DEF ReadPermissionForDelete
      <4>2. req'[d].op = q.op /\ req'[d].copy = q.copy
        BY <1>0, <4>1 DEF Request
      <4> QED BY <3>1, <4>1, <4>2
    <3>3. CASE ReadPermissionForUpdate(d)
      <4>1. CASE Goto(d, "exists")
        BY <2>2, <4>1 DEF DeletesNothingHeld
      <4>2. CASE ~Goto(d, "exists")
        <5>1. req' = [req EXCEPT ![d].step = "update",
                                 ![d].name = permissions[q.permission].name]
          BY <3>3, <4>2 DEF ReadPermissionForUpdate
        <5>2. req'[d] = [q EXCEPT !.step = "update", !.name = permissions[q.permission].name]
          BY <1>0, <5>1
        <5>3. q \in Request
          BY <1>0
        <5>4. req'[d].op = q.op /\ req'[d].copy = q.copy
          BY <5>2, <5>3 DEF Request
        <5>5. req'[d].deleted = q.deleted
          BY <5>2, <5>3 DEF Request
        <5> QED BY <5>4, <5>5 DEF DeletesNothingHeld
      <4> QED BY <4>1, <4>2
    <3> QED BY <2>6, <3>2, <3>3
  <2>7. CASE LoadRole(d) \/ LoadPermission(d)
    BY <1>0, <2>7 DEF LoadRole, LoadPermission, Request, DeletesNothingHeld
  <2>8. ~Saved(d)
    BY <1>0, <2>1 DEF Saved, Rereading, Idle
  <2> QED BY <1>4, <2>1, <2>2, <2>3, <2>4, <2>5, <2>6, <2>7, <2>8
          DEF Handle, DeletesNothingHeld, RoleNotFound, PermissionNotFound, ReadPermissionName,
              ExistsOnUpdate, SaveRejected, UpdatePermission, Reread
<1> QED BY <1>1, <1>2, <1>3, <1>4 DEF Next, vars

(* A save with the plan a load would still make strands nothing. *)
LEMMA UpToDatePlansStrandNothing ==
  ASSUME IInv, DeletesNothingHeld, NEW c \in Caller, Saved(c), ~Outdated(req[c])
  PROVE Stranded' \subseteq Stranded
<1> DEFINE q == req[c]
<1> SUFFICES ASSUME NEW r \in Role, NEW p \in Permission, <<r, p>> \in held',
                    ~LiveRole(r)' \/ ~LivePermission(p)'
             PROVE <<r, p>> \in held /\ (~LiveRole(r) \/ ~LivePermission(p))
  <2>1. held' \subseteq Role \X Permission
    BY DEF Saved, IInv, TypeOK, Request, Plan
  <2> QED BY <2>1 DEF Stranded, LiveRole, LivePermission
<1>0. /\ roles \in [Role -> RoleRow] /\ permissions \in [Permission -> PermissionRow]
      /\ q \in Request /\ DocumentOf(q) /\ q.step = "commit"
  BY DEF IInv, TypeOK, Saved
<1>1. /\ roles' = RolesAfter(q) /\ permissions' = PermissionsAfter(q)
      /\ held' = (held \cup q.plan.link) \ q.plan.unlink
  BY DEF Saved
<1>2. CASE q.op \in RoleOp
  <2>0. RoleDocument(q) /\ q.role \in Role
    BY <1>0, <1>2 DEF DocumentOf, RoleDocument, PermissionDocument, RoleOp, PermissionOp
  <2>1. q.plan = RolePlan(q)
    BY <1>2 DEF Outdated
  <2>2. /\ q.plan.link = ({q.role} \X ListOf(q)) \ held
        /\ q.plan.unlink = {rp \in held : rp[1] = q.role /\ rp[2] \notin ListOf(q)}
        /\ q.plan.insert = {x \in ListOf(q) : permissions[x].row = "absent"}
        /\ q.plan.revive = {x \in ListOf(q) : permissions[x].row = "deleted"}
        /\ q.plan.columns = Changed(roles[q.role], q)
    BY <2>1 DEF RolePlan
  <2>3. \A x \in Permission : permissions'[x].row =
          IF x \in q.plan.insert \cup q.plan.revive THEN "live" ELSE permissions[x].row
    BY <1>1, <1>2 DEF PermissionsAfter
  <2>4. \A x \in Role : x # q.role => roles'[x] = roles[x]
    BY <1>0, <1>1, <1>2 DEF RolesAfter
  <2>5. CASE r # q.role
    <3>1. <<r, p>> \in held /\ roles'[r] = roles[r]
      BY <1>1, <2>2, <2>4, <2>5
    <3>2. LivePermission(p) => permissions'[p].row = "live"
      BY <2>3 DEF LivePermission
    <3> QED BY <3>1, <3>2 DEF LiveRole, LivePermission
  <2>6. CASE r = q.role /\ q.deleted
    <3>1. ListOf(q) = {}
      BY <2>6 DEF DeletesNothingHeld, ListOf, NoCopy
    <3> QED BY <1>1, <2>2, <2>6, <3>1
  <2>7. CASE r = q.role /\ ~q.deleted
    <3>1. p \in ListOf(q)
      BY <1>1, <2>2, <2>7
    <3>2. permissions'[p].row = "live"
      BY <1>0, <2>2, <2>3, <3>1 DEF PermissionRow, RowState
    <3>3. roles'[r].row = "live"
      <4>1. roles'[r] = Written(roles[r], q)
        BY <1>0, <1>1, <1>2, <2>0, <2>7 DEF RolesAfter
      <4>2. roles[r].row \in {"absent", "live", "deleted"}
        BY <1>0 DEF RoleRow, RowState
      <4>3. "deletedAt" \in q.plan.columns <=> roles[r].row = "deleted"
        <5>1. q.deleted = FALSE
          BY <1>0, <2>7 DEF Request
        <5>2. "deletedAt" \in Changed(roles[r], q) <=> (roles[r].row = "deleted") # q.deleted
          BY DEF Changed
        <5> QED BY <2>2, <2>7, <5>1, <5>2
      <4> QED BY <2>7, <4>1, <4>2, <4>3 DEF Written
    <3> QED BY <3>2, <3>3 DEF LiveRole, LivePermission
  <2> QED BY <2>5, <2>6, <2>7
<1>3. CASE q.op \notin RoleOp
  <2>0. q.permission \in Permission /\ q.plan = PermissionPlan(q)
    BY <1>0, <1>3 DEF DocumentOf, RoleDocument, PermissionDocument, Outdated
  <2>1. q.plan.unlink = {rp \in held : rp[2] = q.permission} /\ q.plan.link = {}
    BY <2>0 DEF PermissionPlan, NoPlan
  <2>2. <<r, p>> \in held /\ p # q.permission
    BY <1>1, <2>1
  <2>3. roles'[r] = roles[r] /\ permissions'[p] = permissions[p]
    BY <1>0, <1>1, <1>3, <2>2 DEF RolesAfter, PermissionsAfter
  <2> QED BY <2>2, <2>3 DEF LiveRole, LivePermission
<1> QED BY <1>2, <1>3

(* Whatever requests overlap, a grant comes to lie on a deleted role or    *)
(* permission only by a save whose plan another save has outdated since    *)
(* TypeORM loaded the rows (role-delete.ts:24, permission-delete.ts:24,    *)
(* repository.create).                                                     *)
THEOREM OnlyRacesStrand == Spec => OnlyOutdatedPlansStrand
<1>1. ASSUME IInv, DeletesNothingHeld, Next PROVE StrandsByRace
  <2>0. req \in [Caller -> Request] /\ permissions \in [Permission -> PermissionRow]
    BY <1>1 DEF IInv, TypeOK
  <2>1. PICK c \in Caller : Start(c) \/ Handle(c)
    BY <1>1 DEF Next
  <2>2. CASE Saved(c)
    <3>1. CASE Outdated(req[c])
      <4>1. req[c].step = "commit" /\ req'[c].step # "commit"
        BY <2>0, <2>2 DEF Saved, Rereading, Respond, Idle
      <4> QED BY <3>1, <4>1 DEF StrandsByRace, SavesOutdated
    <3>2. CASE ~Outdated(req[c])
      BY <1>1, <2>2, <3>2, UpToDatePlansStrandNothing DEF StrandsByRace
    <3> QED BY <3>1, <3>2
  <2>3. CASE UpdatePermission(c)
    <3>1. UNCHANGED <<roles, held>>
      BY <2>3 DEF UpdatePermission
    <3>2. \A p \in Permission : LivePermission(p) => permissions'[p].row = "live"
      BY <2>0, <2>3 DEF UpdatePermission, LivePermission
    <3>3. held \subseteq Role \X Permission
      BY <1>1 DEF IInv, TypeOK
    <3> QED BY <3>1, <3>2, <3>3 DEF StrandsByRace, Stranded, LiveRole, LivePermission
  <2>4. CASE ~Saved(c) /\ ~UpdatePermission(c)
    <3>1. UNCHANGED <<roles, permissions, held>>
      BY <2>1, <2>4, StartsRequest DEF Begin, Data, Handle, RoleNotFound, ReadRoleForUpdate,
         ReadRoleForDelete, ReadRoleForGrants, ReadPermissionsToAdd, ReadPermissionsToRemove,
         PermissionNotFound, ReadPermissionName, ReadPermissionForUpdate, ExistsOnUpdate,
         ReadPermissionForDelete, LoadRole, LoadPermission, SaveRejected, Reread
    <3> QED BY <3>1 DEF StrandsByRace, Stranded, LiveRole, LivePermission
  <2> QED BY <2>2, <2>3, <2>4
<1>2. Init => DeletesNothingHeld
  BY DEF Init, DeletesNothingHeld, Idle
<1>3. IInv /\ DeletesNothingHeld /\ [Next]_vars => [StrandsByRace]_vars
  BY <1>1
<1> QED BY <1>2, <1>3, DeleterStays, Inductive, PTL DEF OnlyOutdatedPlansStrand, Spec

----------------------------------------------------------------------------
(* Coordinated requests.  A request knows its rows as they are, because no *)
(* other in flight may write them: KnownStays is what one request keeps    *)
(* while another saves.                                                    *)

LEMMA InitCInv == Init /\ Coordinated => CInv
<1> SUFFICES ASSUME Init, Coordinated PROVE CInv
  OBVIOUS
<1>1. IInv
  BY InitIInv
<1>2. NothingHeldOnDeletedRows
  BY SeedAssumption DEF Init, NothingHeldOnDeletedRows, LiveRole, LivePermission
<1>3. Apart /\ \A c \in Caller : Known(req[c])
  BY DEF Init, Apart, Busy, Known, Idle, RoleOp, PermissionOp
<1> QED BY <1>1, <1>2, <1>3 DEF CInv

(* What the tables say of a role's permissions, where nothing is held on a *)
(* deleted row.                                                            *)
LEMMA HeldIsLive ==
  NothingHeldOnDeletedRows /\ TypeOK =>
    \A r \in Role : PermissionsOf(r) = {p \in Permission : <<r, p>> \in held}
BY DEF NothingHeldOnDeletedRows, TypeOK, PermissionsOf

LEMMA HeldIsLiveNext ==
  NothingHeldOnDeletedRows' /\ TypeOK' =>
    (\A r \in Role : PermissionsOf(r) = {p \in Permission : <<r, p>> \in held})'
BY HeldIsLive, PTL

(* The rows a request works on are as they were. *)
RoleRowsStay(d) ==
  /\ roles'[req[d].role] = roles[req[d].role]
  /\ \A p \in Permission : <<req[d].role, p>> \in held' <=> <<req[d].role, p>> \in held
  /\ \A p \in Permission :
       req[d].copy[p] # NoName \/ <<req[d].role, p>> \in held => permissions'[p] = permissions[p]
PermissionRowsStay(d) ==
  /\ permissions'[req[d].permission] = permissions[req[d].permission]
  /\ \A r \in Role : <<r, req[d].permission>> \in held' => <<r, req[d].permission>> \in held

LEMMA RoleStays ==
  ASSUME CInv, IInv', NothingHeldOnDeletedRows', NEW d \in Caller, req'[d] = req[d],
         req[d].op \in RoleOp, req[d].step \in {"permissions", "load", "commit"}, RoleRowsStay(d)
  PROVE RoleKnown(req[d])'
<1> DEFINE q == req[d]
<1>1. q \in Request /\ q.role \in Role /\ RoleKnown(q)
  BY RunningRequest DEF CInv, Known, RoleDocument
<1>2. ListOf(q)' = ListOf(q)
  BY DEF ListOf
<1>3. PermissionsOf(q.role)' = PermissionsOf(q.role)
  BY <1>1, HeldIsLive, HeldIsLiveNext DEF RoleRowsStay, CInv, IInv
<1>4. \A p \in PermissionsOf(q.role) \cup ListOf(q) : permissions'[p] = permissions[p]
  BY DEF RoleRowsStay, PermissionsOf, ListOf
<1>5. NamesHeld(q.role)' = NamesHeld(q.role)
  BY <1>3, <1>4 DEF NamesHeld
<1>6. ListKnown(q)'
  BY <1>1, <1>2, <1>4 DEF RoleKnown, ListKnown, LivePermission
<1>7. ListAsked(q)'
  BY <1>1, <1>2, <1>3, <1>4, <1>5 DEF RoleKnown, ListAsked
<1>8. RolePlan(q)' = RolePlan(q)
  <2>1. held \subseteq Role \X Permission /\ held' \subseteq Role \X Permission
    BY DEF CInv, IInv, TypeOK
  <2>2. RolePlan(q).insert' = RolePlan(q).insert /\ RolePlan(q).rename' = RolePlan(q).rename
        /\ RolePlan(q).revive' = RolePlan(q).revive
    BY <1>2, <1>4 DEF RolePlan
  <2>3. RolePlan(q).link' = RolePlan(q).link
    BY <1>2 DEF RolePlan, RoleRowsStay, ListOf
  <2>4. RolePlan(q).unlink' = RolePlan(q).unlink
    BY <1>2, <2>1 DEF RolePlan, RoleRowsStay, ListOf
  <2>5. RolePlan(q).columns' = RolePlan(q).columns
    BY DEF RolePlan, RoleRowsStay, Changed
  <2> QED BY <2>2, <2>3, <2>4, <2>5 DEF RolePlan
<1> QED BY <1>1, <1>6, <1>7, <1>8 DEF RoleKnown, RoleRowsStay, LiveRole

LEMMA PermissionStays ==
  ASSUME CInv, IInv', NothingHeldOnDeletedRows', NEW d \in Caller, req'[d] = req[d],
         req[d].op \in PermissionOp, PermissionRowsStay(d)
  PROVE PermissionKnown(req[d])'
<1> DEFINE q == req[d]
<1>1. q \in Request /\ q.permission \in Permission /\ PermissionKnown(q)
  BY RunningRequest DEF CInv, Known, PermissionDocument
<1>2. q.step = "commit" => /\ \A rp \in held : rp[2] # q.permission
                           /\ \A rp \in held' : rp[2] # q.permission
  <2> SUFFICES ASSUME q.step = "commit"
               PROVE \A r \in Role : <<r, q.permission>> \notin held /\ <<r, q.permission>> \notin held'
    <3>1. held \subseteq Role \X Permission /\ held' \subseteq Role \X Permission
      BY DEF CInv, IInv, TypeOK
    <3> QED BY <3>1
  <2> SUFFICES \A r \in Role : <<r, q.permission>> \notin held
    BY DEF PermissionRowsStay
  <2>1. CASE q.op = "permission-delete"
    BY <1>1, <2>1 DEF PermissionKnown
  <2>2. CASE q.op # "permission-delete"
    <3>1. q.op = "permission-create"
      BY <1>1, <2>2 DEF PermissionKnown
    <3>2. permissions[q.permission].row = "absent"
      BY <1>1, <3>1 DEF PermissionKnown
    <3> QED BY <3>2 DEF NothingHeldOnDeletedRows, LivePermission, CInv
  <2> QED BY <2>1, <2>2
<1>3. q.step = "commit" => PermissionPlan(q)' = PermissionPlan(q)
  <2> SUFFICES ASSUME q.step = "commit" PROVE PermissionPlan(q)' = PermissionPlan(q)
    OBVIOUS
  <2>1. {rp \in held : rp[2] = q.permission}' = {rp \in held : rp[2] = q.permission}
    BY <1>2
  <2>2. Changed(permissions[q.permission], q)' = Changed(permissions[q.permission], q)
    BY DEF PermissionRowsStay
  <2> QED BY <2>1, <2>2 DEF PermissionPlan
<1> QED BY <1>1, <1>3 DEF PermissionKnown, PermissionRowsStay, LivePermission

LEMMA KnownStays ==
  ASSUME CInv, IInv', NothingHeldOnDeletedRows', NEW d \in Caller, req'[d] = req[d],
         req[d].op \in RoleOp /\ Busy(d) => RoleRowsStay(d),
         req[d].op \in PermissionOp => PermissionRowsStay(d)
  PROVE Known(req[d])'
<1>1. Known(req[d])
  BY DEF CInv
<1>2. req[d].op \in RoleOp /\ req[d].step \in {"permissions", "load", "commit"} => RoleKnown(req[d])'
  BY RoleStays DEF Busy
<1>3. req[d].op \in PermissionOp => PermissionKnown(req[d])'
  BY PermissionStays
<1> QED BY <1>1, <1>2, <1>3 DEF Known

(* A request that keeps its operation and rows, or a new one that is       *)
(* admitted, stays apart from the others.                                  *)
Distinct(c) ==
  Busy(c)' =>
    \/ /\ Busy(c) /\ req'[c].op = req[c].op /\ req'[c].role = req[c].role
       /\ req[c].op \in PermissionOp => req'[c].permission = req[c].permission
    \/ \A d \in Caller \ {c} : Busy(d) =>
         /\ MayOverlap(req[d], req'[c])
         /\ req[d].op \in PermissionOp /\ req'[c].op \in PermissionOp =>
              req[d].permission # req'[c].permission
LEMMA ApartStays ==
  ASSUME CInv, NEW c \in Caller, \A d \in Caller \ {c} : req'[d] = req[d], Distinct(c)
  PROVE Apart'
<1> SUFFICES ASSUME NEW d \in Caller \ {c}, Busy(c)', Busy(d)
             PROVE /\ MayOverlap(req'[c], req'[d]) /\ MayOverlap(req'[d], req'[c])
                   /\ req'[c].op \in PermissionOp /\ req'[d].op \in PermissionOp =>
                        req'[c].permission # req'[d].permission
  BY DEF Apart, Busy, CInv, MayOverlap
<1> QED BY DEF Apart, CInv, Distinct, MayOverlap

(* A step that writes no table must leave its own request knowing them.    *)
LEMMA ReadsKnow ==
  ASSUME CInv, IInv', NEW c \in Caller, \A d \in Caller \ {c} : req'[d] = req[d],
         UNCHANGED Data, Distinct(c), Known(req[c])'
  PROVE CInv'
<1>1. UNCHANGED <<roles, permissions, held>>
  BY DEF Data
<1>2. NothingHeldOnDeletedRows'
  BY <1>1 DEF CInv, NothingHeldOnDeletedRows, LiveRole, LivePermission
<1>3. ASSUME NEW d \in Caller \ {c} PROVE Known(req[d])'
  BY <1>1, <1>2, KnownStays DEF RoleRowsStay, PermissionRowsStay
<1> QED BY <1>2, <1>3, ApartStays DEF CInv

LEMMA AnswersKnow ==
  ASSUME CInv, IInv', NEW c \in Caller, NEW code \in Answer, Respond(c, code), UNCHANGED Data
  PROVE CInv'
<1>1. req'[c].step = "idle" /\ req'[c].op = "none" /\ \A d \in Caller \ {c} : req'[d] = req[d]
  BY DEF Respond, Idle, CInv, IInv, TypeOK
<1> QED BY <1>1, ReadsKnow DEF Busy, Known, Distinct, RoleOp, PermissionOp

LEMMA StartsKnow ==
  ASSUME CInv, IInv', NEW c \in Caller, Start(c) PROVE CInv'
<1>1. PICK s \in Request : Begin(c, s) /\ Opens(s)
  BY StartsRequest
<1>2. /\ req'[c] = s /\ \A d \in Caller \ {c} : req'[d] = req[d]
      /\ UNCHANGED <<roles, permissions, held>>
      /\ \A d \in Caller : Busy(d) => MayOverlap(req[d], s)
  BY <1>1 DEF Begin, Data, CInv, IInv, TypeOK
<1>3. ASSUME NEW d \in Caller, Busy(d), req[d].op \in PermissionOp, s.op \in PermissionOp
      PROVE req[d].permission # s.permission
  <2>1. s.op = "permission-create" /\ req[d].op = "permission-create"
    BY <1>2, <1>3 DEF MayOverlap, PermissionOp
  <2> QED BY <1>1, <2>1 DEF Opens, FreshPermission
<1>4. Distinct(c)
  BY <1>2, <1>3 DEF Distinct
<1>5. RoleKnown(s)' \/ s.step = "read" \/ s.op \notin RoleOp
  <2> SUFFICES ASSUME s.step # "read", s.op \in RoleOp PROVE RoleKnown(s)'
    OBVIOUS
  <2>1. s.op = "role-create" /\ s.step = "load" /\ roles[s.role].row = "absent" /\ ~s.deleted
    BY <1>1 DEF Opens, FreshRole
  <2>2. \A p \in Permission : s.copy[p] = NoName /\ <<s.role, p>> \notin held
    BY <1>1, <2>1 DEF Opens, NoCopy, CInv, NothingHeldOnDeletedRows, LiveRole
  <2>3. ListOf(s) = {} /\ PermissionsOf(s.role) = {}
    BY <2>2 DEF ListOf, PermissionsOf
  <2>4. PermissionsOf(s.role)' = {} /\ ListOf(s)' = {} /\ roles'[s.role].row = "absent"
    BY <1>2, <2>1, <2>3 DEF PermissionsOf, ListOf, LivePermission
  <2>5. ListAsked(s)' /\ ListKnown(s)'
    BY <2>1, <2>4 DEF ListAsked, ListKnown
  <2>6. s.deleted = FALSE
    BY <2>1 DEF Request
  <2> QED BY <2>1, <2>4, <2>5, <2>6 DEF RoleKnown
<1>6. PermissionKnown(s)' \/ s.op \notin PermissionOp
  BY <1>1, <1>2 DEF Opens, FreshPermission, PermissionKnown, RoleOp, PermissionOp
<1>7. Known(req[c])'
  BY <1>1, <1>2, <1>5, <1>6 DEF Known, Opens
<1> QED BY <1>1, <1>2, <1>4, <1>7, ReadsKnow DEF Begin

(* The reads of a role: its document is the role and its list as they are. *)
LEMMA ReadIntoKnows ==
  ASSUME CInv, IInv', NEW c \in Caller, NEW step \in {"permissions", "load"}, NEW deleted \in BOOLEAN,
         req[c].step = "read", LiveRole(req[c].role), ReadInto(c, step, deleted), UNCHANGED Data,
         \/ req[c].op = "role-update" /\ step = "load" /\ ~deleted
         \/ req[c].op = "role-delete" /\ step = "load" /\ deleted /\ PermissionsOf(req[c].role) = {}
         \/ req[c].op \in {"role-add-permission", "role-delete-permission"}
            /\ step = "permissions" /\ ~deleted,
         req[c].op \in {"role-update", "role-delete", "role-add-permission", "role-delete-permission"}
  PROVE CInv'
<1> DEFINE q == req[c]
<1>1. q \in Request /\ RoleDocument(q) /\ q.answer = "none"
  BY RunningRequest DEF CInv, Known, RoleOp
<1>2. UNCHANGED <<roles, permissions, held>>
  BY DEF Data
<1>3. /\ req'[c].op = q.op /\ req'[c].step = step /\ req'[c].role = q.role /\ req'[c].answer = "none"
      /\ req'[c].permission = q.permission /\ req'[c].deleted = deleted
      /\ req'[c].copy = CopiesOf(q.role) /\ req'[c].asked = q.asked
      /\ \A d \in Caller \ {c} : req'[d] = req[d]
  <2> DEFINE name == IF q.name = NoName THEN roles[q.role].name ELSE q.name
  <2>1. req \in [Caller -> Request]
    BY DEF CInv, IInv, TypeOK
  <2>2. req' = [req EXCEPT ![c] = [q EXCEPT !.step = step, !.name = name, !.deleted = deleted,
                                            !.copy = CopiesOf(q.role)]]
    BY <2>1 DEF ReadInto
  <2> HIDE DEF name
  <2> QED BY <1>1, <2>1, <2>2 DEF Request
<1>4. \A p \in Permission :
        CopiesOf(q.role)[p] = IF p \in PermissionsOf(q.role) THEN permissions[p].name ELSE NoName
  BY DEF CopiesOf
<1>5. \A p \in PermissionsOf(q.role) : permissions[p].name # NoName
  BY DEF PermissionsOf, LivePermission, CInv, IInv, RowsNamed
<1>6. ListOf(req[c])' = PermissionsOf(q.role)
  BY <1>3, <1>4, <1>5 DEF ListOf, PermissionsOf
<1>7. PermissionsOf(req[c].role)' = PermissionsOf(q.role)
  BY <1>2, <1>3 DEF PermissionsOf, LivePermission
<1>8. ListKnown(req[c])'
  BY <1>2, <1>3, <1>4, <1>6 DEF ListKnown, PermissionsOf, LivePermission
<1>9. ListAsked(req[c])'
  BY <1>3, <1>6, <1>7 DEF ListAsked
<1>10. q.op # "role-update" => req'[c].name = roles[q.role].name
  <2>1. q.op # "role-update" => q.name = NoName
    BY <1>1 DEF RoleDocument, CInv, Known
  <2> QED BY <1>1, <2>1 DEF ReadInto, Request, CInv, IInv, TypeOK
<1>11. Known(req[c])'
  BY <1>2, <1>3, <1>8, <1>9, <1>10 DEF Known, RoleKnown, RoleOp, PermissionOp, LiveRole
<1> QED BY <1>2, <1>3, <1>11, ReadsKnow DEF Busy, Distinct

(* role-add-permission: the list takes the names asked for and keeps what  *)
(* it held; a name no live row bears comes with a row about to be made.    *)
LEMMA AddKnows ==
  ASSUME CInv, IInv', NEW c \in Caller, ReadPermissionsToAdd(c) PROVE CInv'
<1> USE ConstantsAssumption
<1> DEFINE q == req[c]
<1>1. PICK id \in [Missing(q) -> FreshPermission] :
        /\ \A s, t \in Missing(q) : id[s] = id[t] => s = t
        /\ req' = [req EXCEPT ![c].step = "load",
                              ![c].copy = [p \in Permission |->
                                IF p \in Joining(q) THEN permissions[p].name
                                ELSE IF \E s \in Missing(q) : id[s] = p THEN NewCopy(q, id, p)
                                ELSE q.copy[p]]]
  BY DEF ReadPermissionsToAdd
<1>2. /\ q \in Request /\ q.op = "role-add-permission" /\ q.step = "permissions" /\ RoleKnown(q)
      /\ q.answer = "none" /\ UNCHANGED <<roles, permissions, held>>
      /\ q.asked \subseteq Spelling
  BY DEF ReadPermissionsToAdd, CInv, IInv, TypeOK, Known, RoleOp, Data, Request
<1>3. PICK copy : copy = [p \in Permission |->
                            IF p \in Joining(q) THEN permissions[p].name
                            ELSE IF \E s \in Missing(q) : id[s] = p THEN NewCopy(q, id, p)
                            ELSE q.copy[p]]
  OBVIOUS
<1>4. /\ req'[c] = [q EXCEPT !.step = "load", !.copy = copy]
      /\ \A d \in Caller \ {c} : req'[d] = req[d]
  BY <1>1, <1>3 DEF CInv, IInv, TypeOK
<1>5. /\ req'[c].op = q.op /\ req'[c].step = "load" /\ req'[c].role = q.role
      /\ req'[c].permission = q.permission /\ req'[c].deleted = q.deleted /\ req'[c].name = q.name
      /\ req'[c].asked = q.asked /\ req'[c].copy = copy /\ req'[c].answer = "none"
  BY <1>2, <1>4 DEF Request
<1>6. /\ \A p \in Permission : p \in Joining(q) => copy[p] = permissions[p].name
      /\ \A p \in Permission : p \notin Joining(q) /\ (\A s \in Missing(q) : id[s] # p) =>
           copy[p] = q.copy[p]
  BY <1>3
<1>7. ASSUME NEW s \in Missing(q)
      PROVE /\ id[s] \in Permission /\ permissions[id[s]].row = "absent"
            /\ copy[id[s]] = Normalise[s] /\ s \in q.asked
  <2>1. id[s] \in Permission /\ permissions[id[s]].row = "absent" /\ id[s] \notin Joining(q)
    BY DEF FreshPermission, Joining, LivePermission
  <2>2. NewCopy(q, id, id[s]) = Normalise[s]
    <3> DEFINE w == CHOOSE x \in Missing(q) : id[x] = id[s]
    <3>1. w \in Missing(q) /\ id[w] = id[s]
      OBVIOUS
    <3>2. w = s
      BY <1>1, <3>1
    <3> QED BY <3>2 DEF NewCopy
  <2> QED BY <1>3, <2>1, <2>2 DEF Missing
<1>8. \A p \in Permission :
        IF p \in PermissionsOf(q.role) THEN q.copy[p] = permissions[p].name ELSE q.copy[p] = NoName
  BY <1>2 DEF RoleKnown, ListKnown, ListAsked, ListOf, PermissionsOf, LivePermission
<1>9. \A p \in Permission : copy[p] # NoName =>
        \/ LivePermission(p) /\ permissions[p].name = copy[p]
           /\ (p \in PermissionsOf(q.role) \/ copy[p] \in q.asked)
        \/ permissions[p].row = "absent" /\ \E s \in q.asked : copy[p] = Normalise[s]
  BY <1>6, <1>7, <1>8 DEF Joining, PermissionsOf
<1>10. \A p \in PermissionsOf(q.role) : copy[p] = permissions[p].name /\ copy[p] # NoName
  <2> TAKE p \in PermissionsOf(q.role)
  <2>1. p \in Permission /\ permissions[p].row = "live" /\ permissions[p].name # NoName
    BY DEF PermissionsOf, LivePermission, CInv, IInv, RowsNamed
  <2>2. \A s \in Missing(q) : id[s] # p
    BY <1>7, <2>1
  <2> QED BY <1>6, <1>8, <2>1, <2>2
<1>11. ASSUME NEW s \in q.asked PROVE \E p \in Permission : copy[p] = Normalise[s] /\ copy[p] # NoName
  <2>0. Normalise[s] \in PermissionName /\ Normalise[s] # NoName
    BY <1>2
  <2>1. CASE s \in Missing(q)
    BY <1>7, <2>0, <2>1
  <2>2. CASE s \notin Missing(q)
    <3>1. PICK p \in Permission : LivePermission(p) /\ permissions[p].name = s
      BY <2>2 DEF Missing, LiveNamed
    <3>2. s \in PermissionName /\ Normalise[s] = s
      BY <1>2, <3>1 DEF CInv, IInv, TypeOK, PermissionRow
    <3>3. CASE p \in Joining(q)
      BY <1>6, <2>0, <3>1, <3>2, <3>3
    <3>4. CASE p \notin Joining(q)
      <4>1. PICK x \in Permission : q.copy[x] = s
        BY <3>1, <3>4 DEF Joining
      <4>2. x \in PermissionsOf(q.role) /\ permissions[x].name = s
        BY <1>8, <2>0, <3>2, <4>1
      <4> QED BY <1>10, <3>2, <4>1, <4>2
    <3> QED BY <3>3, <3>4
  <2> QED BY <2>1, <2>2
<1>12. \A s \in PermissionName : Normalise[s] = s
  OBVIOUS
<1>13. ListOf(req[c])' = {p \in Permission : copy[p] # NoName}
       /\ PermissionsOf(req[c].role)' = PermissionsOf(q.role)
       /\ NamesHeld(req[c].role)' = NamesHeld(q.role)
  BY <1>2, <1>5 DEF ListOf, PermissionsOf, NamesHeld, LivePermission
<1>14. {copy[p] : p \in {x \in Permission : copy[x] # NoName}}
         = NamesHeld(q.role) \cup {Normalise[s] : s \in q.asked}
  <2>1. ASSUME NEW p \in Permission, copy[p] # NoName
        PROVE copy[p] \in NamesHeld(q.role) \cup {Normalise[s] : s \in q.asked}
    <3>1. CASE p \in PermissionsOf(q.role)
      BY <1>10, <3>1 DEF NamesHeld
    <3>2. CASE copy[p] \in q.asked /\ LivePermission(p) /\ permissions[p].name = copy[p]
      <4>1. copy[p] \in PermissionName
        BY <2>1, <3>2 DEF CInv, IInv, TypeOK, PermissionRow
      <4> QED BY <1>12, <3>2, <4>1
    <3> QED BY <1>9, <2>1, <3>1, <3>2
  <2>2. \A n \in NamesHeld(q.role) : \E p \in Permission : copy[p] = n /\ copy[p] # NoName
    <3> TAKE n \in NamesHeld(q.role)
    <3>1. PICK p \in PermissionsOf(q.role) : permissions[p].name = n
      BY DEF NamesHeld
    <3> QED BY <1>10, <3>1 DEF PermissionsOf
  <2> QED BY <1>11, <2>1, <2>2
<1>15. PermissionsOf(q.role) \subseteq {p \in Permission : copy[p] # NoName}
  BY <1>10 DEF PermissionsOf
<1>16. ListAsked(req[c])'
  BY <1>2, <1>5, <1>13, <1>14, <1>15 DEF ListAsked
<1>17. ListKnown(req[c])'
  BY <1>2, <1>5, <1>9, <1>13 DEF ListKnown, LivePermission
<1>18. Known(req[c])'
  BY <1>2, <1>5, <1>16, <1>17 DEF Known, RoleKnown, RoleOp, PermissionOp, LiveRole
<1> QED BY <1>2, <1>4, <1>5, <1>18, ReadsKnow DEF Busy, Distinct, Data

(* role-delete-permission: the list loses the names asked for.             *)
LEMMA RemoveKnows ==
  ASSUME CInv, IInv', NEW c \in Caller, ReadPermissionsToRemove(c) PROVE CInv'
<1> DEFINE q == req[c]
<1>1. /\ q \in Request /\ q.op = "role-delete-permission" /\ q.step = "permissions" /\ RoleKnown(q)
      /\ q.answer = "none" /\ UNCHANGED <<roles, permissions, held>>
  BY DEF ReadPermissionsToRemove, CInv, IInv, TypeOK, Known, RoleOp, Data
<1>2. PICK copy : copy = [p \in Permission |-> IF q.copy[p] \in Found(q) THEN NoName ELSE q.copy[p]]
  OBVIOUS
<1>3. /\ req'[c] = [q EXCEPT !.step = "load", !.copy = copy]
      /\ \A d \in Caller \ {c} : req'[d] = req[d]
  BY <1>2 DEF ReadPermissionsToRemove, CInv, IInv, TypeOK
<1>4. /\ req'[c].op = q.op /\ req'[c].step = "load" /\ req'[c].role = q.role
      /\ req'[c].permission = q.permission /\ req'[c].deleted = q.deleted /\ req'[c].name = q.name
      /\ req'[c].asked = q.asked /\ req'[c].copy = copy /\ req'[c].answer = "none"
  BY <1>1, <1>3 DEF Request
<1>5. \A p \in Permission :
        IF p \in PermissionsOf(q.role) THEN q.copy[p] = permissions[p].name ELSE q.copy[p] = NoName
  BY <1>1 DEF RoleKnown, ListKnown, ListAsked, ListOf, PermissionsOf, LivePermission
<1>6. \A p \in PermissionsOf(q.role) : permissions[p].name # NoName
  BY DEF PermissionsOf, LivePermission, CInv, IInv, RowsNamed
<1>7. \A p \in PermissionsOf(q.role) : permissions[p].name \in q.asked <=> permissions[p].name \in Found(q)
  BY DEF PermissionsOf, Found, LiveNamed
<1>8. \A p \in Permission : copy[p] # NoName <=> p \in PermissionsOf(q.role) /\ permissions[p].name \notin q.asked
  BY <1>2, <1>5, <1>6, <1>7
<1>9. \A p \in Permission : copy[p] # NoName => LivePermission(p) /\ copy[p] = permissions[p].name
  BY <1>2, <1>5, <1>8 DEF PermissionsOf
<1>10. ListOf(req[c])' = {p \in PermissionsOf(q.role) : permissions[p].name \notin q.asked}
       /\ PermissionsOf(req[c].role)' = PermissionsOf(q.role)
  BY <1>1, <1>4, <1>8 DEF ListOf, PermissionsOf, LivePermission
<1>11. ListAsked(req[c])'
  BY <1>1, <1>4, <1>10 DEF ListAsked
<1>12. ListKnown(req[c])'
  <2>1. \A p \in ListOf(req[c])' : copy[p] # NoName
    BY <1>4 DEF ListOf
  <2>2. \A p \in ListOf(req[c])' : p \in Permission
    BY DEF ListOf
  <2> QED BY <1>1, <1>4, <1>9, <2>1, <2>2 DEF ListKnown, LivePermission
<1>13. Known(req[c])'
  BY <1>1, <1>4, <1>11, <1>12 DEF Known, RoleKnown, RoleOp, PermissionOp, LiveRole
<1> QED BY <1>1, <1>3, <1>4, <1>13, ReadsKnow DEF Busy, Distinct, Data

(* A request about a permission that goes on to a later step: what it must *)
(* know there.                                                             *)
LEMMA PermissionAdvances ==
  ASSUME CInv, IInv', NEW c \in Caller, NEW step \in Step \ {"idle", "read"}, UNCHANGED Data,
         NEW s \in Request, req' = [req EXCEPT ![c] = s], s.step = step, s.answer = "none",
         Busy(c), req[c].op \in PermissionOp, s.op = req[c].op, s.role = req[c].role,
         s.permission = req[c].permission, PermissionKnown(s)
  PROVE CInv'
<1>1. /\ req'[c] = s /\ \A d \in Caller \ {c} : req'[d] = req[d]
      /\ UNCHANGED <<roles, permissions, held>>
  BY DEF Data, CInv, IInv, TypeOK
<1>2. PermissionPlan(req[c])' = PermissionPlan(s)
  <2>1. Changed(permissions[req[c].permission], req[c])' = Changed(permissions[s.permission], s)
    BY <1>1 DEF Changed
  <2>2. {rp \in held : rp[2] = req[c].permission}' = {rp \in held : rp[2] = s.permission}
    BY <1>1
  <2> QED BY <2>1, <2>2 DEF PermissionPlan
<1>3. PermissionKnown(req[c])'
  BY <1>1, <1>2 DEF PermissionKnown, LivePermission
<1>4. Known(req[c])'
  BY <1>1, <1>3 DEF Known, RoleOp, PermissionOp
<1> QED BY <1>1, <1>4, ReadsKnow DEF Distinct

LEMMA PermissionReadsKnow ==
  ASSUME CInv, IInv', NEW c \in Caller,
         \/ ReadPermissionName(c) \/ ReadPermissionForUpdate(c)
         \/ ExistsOnUpdate(c) \/ ReadPermissionForDelete(c)
  PROVE CInv'
<1> DEFINE q == req[c]
<1>1. /\ q \in Request /\ PermissionDocument(q) /\ q.op \in PermissionOp /\ Busy(c)
      /\ q.answer = "none" /\ PermissionKnown(q) /\ UNCHANGED Data
      /\ req \in [Caller -> Request]
  BY RunningRequest DEF ReadPermissionName, ReadPermissionForUpdate, ExistsOnUpdate,
     ReadPermissionForDelete, Busy, PermissionOp, PermissionDocument, CInv, IInv, TypeOK, Known
<1>2. CASE \E code \in {"404", "409"} : Respond(c, code)
  BY <1>1, <1>2, AnswersKnow DEF Answer
<1>3. ASSUME NEW step \in {"load", "exists", "update"}, Goto(c, step),
             step = "load" => q.op = "permission-create" /\ ~q.deleted,
             step \in {"exists", "update"} => q.op = "permission-update" /\ LivePermission(q.permission)
      PROVE CInv'
  <2> DEFINE s == [q EXCEPT !.step = step]
  <2>1. s \in Request /\ s.step = step /\ s.answer = "none" /\ s.op = q.op /\ s.role = q.role
        /\ s.permission = q.permission /\ s.deleted = q.deleted /\ step \in Step \ {"idle", "read"}
    BY <1>1 DEF Request, Step
  <2>2. req' = [req EXCEPT ![c] = s]
    BY <1>1, <1>3 DEF Goto
  <2> HIDE DEF s
  <2>3. step = "load" => s.deleted = (q.op = "permission-delete")
    BY <1>1, <1>3, <2>1 DEF Request
  <2>4. PermissionKnown(s)
    BY <1>1, <1>3, <2>1, <2>3 DEF PermissionKnown
  <2> QED BY <1>1, <2>1, <2>2, <2>4, PermissionAdvances
<1>4. CASE ReadPermissionName(c)
  BY <1>1, <1>2, <1>3, <1>4 DEF ReadPermissionName, CInv, Known
<1>5. CASE ExistsOnUpdate(c)
  <2>1. q.op = "permission-update" /\ LivePermission(q.permission)
    BY <1>1, <1>5 DEF ExistsOnUpdate, PermissionDocument, PermissionKnown
  <2> QED BY <1>2, <1>3, <1>5, <2>1 DEF ExistsOnUpdate
<1>6. CASE ReadPermissionForUpdate(c)
  <2>1. CASE q.name = NoName
    <3> DEFINE s == [q EXCEPT !.step = "update", !.name = permissions[q.permission].name]
    <3>1. permissions[q.permission].name \in PermissionName
      BY <1>1, <1>6 DEF ReadPermissionForUpdate, LivePermission, PermissionDocument, CInv, IInv,
         TypeOK, RowsNamed, PermissionRow
    <3>2. s \in Request /\ s.step = "update" /\ s.answer = "none" /\ s.op = q.op /\ s.role = q.role
          /\ s.permission = q.permission
      BY <1>1, <3>1 DEF Request, Step
    <3>3. req' = [req EXCEPT ![c] = s] /\ q.op = "permission-update" /\ LivePermission(q.permission)
      BY <1>1, <1>6, <2>1 DEF ReadPermissionForUpdate
    <3> HIDE DEF s
    <3>4. PermissionKnown(s)
      BY <3>2, <3>3 DEF PermissionKnown
    <3> QED BY <1>1, <3>2, <3>3, <3>4, PermissionAdvances DEF Step
  <2> QED BY <1>3, <1>6, <2>1 DEF ReadPermissionForUpdate
<1>7. CASE ReadPermissionForDelete(c) /\ RolesOf(q.permission) = {}
  <2> DEFINE s == [q EXCEPT !.step = "load", !.deleted = TRUE, !.name = permissions[q.permission].name]
  <2>1. /\ permissions[q.permission].name \in PermissionName /\ LivePermission(q.permission)
        /\ q.op = "permission-delete"
    BY <1>1, <1>7 DEF ReadPermissionForDelete, LivePermission, PermissionDocument, CInv, IInv,
       TypeOK, RowsNamed, PermissionRow
  <2>2. s \in Request /\ s.step = "load" /\ s.answer = "none" /\ s.op = q.op /\ s.role = q.role
        /\ s.permission = q.permission /\ s.deleted = TRUE
        /\ s.name = permissions[q.permission].name
    BY <1>1, <2>1 DEF Request, Step
  <2>3. req' = [req EXCEPT ![c] = s]
    BY <1>1, <1>7 DEF ReadPermissionForDelete
  <2>4. \A r \in Role : <<r, q.permission>> \notin held
    BY <1>7 DEF RolesOf, CInv, NothingHeldOnDeletedRows
  <2> HIDE DEF s
  <2>5. PermissionKnown(s)
    BY <2>1, <2>2, <2>4 DEF PermissionKnown
  <2> QED BY <1>1, <2>2, <2>3, <2>5, PermissionAdvances DEF Step
<1>8. CASE ReadPermissionForDelete(c) /\ RolesOf(q.permission) # {}
  BY <1>2, <1>8 DEF ReadPermissionForDelete
<1> QED BY <1>4, <1>5, <1>6, <1>7, <1>8

LEMMA LoadsKnow ==
  ASSUME CInv, IInv', NEW c \in Caller, LoadRole(c) \/ LoadPermission(c) PROVE CInv'
<1> DEFINE q == req[c]
<1>1. q \in Request /\ q.step = "load" /\ q.answer = "none" /\ req \in [Caller -> Request]
  BY DEF LoadRole, LoadPermission, CInv, IInv, TypeOK, Known
<1>2. CASE LoadRole(c)
  <2>1. RoleKnown(q) /\ UNCHANGED <<roles, permissions, held>>
    BY <1>1, <1>2 DEF LoadRole, CInv, Known, Data
  <2>2. /\ req'[c] = [q EXCEPT !.step = "commit", !.plan = RolePlan(q)]
        /\ \A d \in Caller \ {c} : req'[d] = req[d]
    BY <1>1, <1>2 DEF LoadRole
  <2>3. /\ req'[c].step = "commit" /\ req'[c].plan = RolePlan(q) /\ req'[c].op = q.op
        /\ req'[c].role = q.role /\ req'[c].permission = q.permission /\ req'[c].name = q.name
        /\ req'[c].deleted = q.deleted /\ req'[c].copy = q.copy /\ req'[c].asked = q.asked
        /\ req'[c].answer = "none"
    BY <1>1, <2>2 DEF Request
  <2>4. ListOf(req[c])' = ListOf(q) /\ PermissionsOf(req[c].role)' = PermissionsOf(q.role)
        /\ NamesHeld(req[c].role)' = NamesHeld(q.role)
    BY <2>1, <2>3 DEF ListOf, PermissionsOf, NamesHeld, LivePermission
  <2>5. RolePlan(req[c])' = RolePlan(q)
    BY <2>1, <2>3 DEF RolePlan, ListOf, Changed
  <2>6. ListKnown(req[c])'
    BY <1>1, <2>1, <2>3, <2>4 DEF RoleKnown, ListKnown, LivePermission
  <2>7. ListAsked(req[c])'
    BY <1>1, <2>1, <2>3, <2>4 DEF RoleKnown, ListAsked
  <2>8. Known(req[c])'
    BY <1>2, <2>1, <2>3, <2>5, <2>6, <2>7 DEF LoadRole, Known, RoleKnown, LiveRole, RoleOp, PermissionOp
  <2> QED BY <1>1, <1>2, <2>2, <2>3, <2>8, ReadsKnow DEF LoadRole, Busy, Distinct
<1>3. CASE LoadPermission(c)
  <2> DEFINE plan == PermissionPlan(q)
             s == [q EXCEPT !.step = "commit", !.plan = plan]
  <2>1. PermissionKnown(q) /\ q.op \in PermissionOp
    BY <1>3 DEF LoadPermission, CInv, Known
  <2>2. req' = [req EXCEPT ![c] = s]
    BY <1>1, <1>3 DEF LoadPermission
  <2>3. /\ s.step = "commit" /\ s.plan = plan /\ s.op = q.op
        /\ s.role = q.role /\ s.permission = q.permission /\ s.name = q.name
        /\ s.deleted = q.deleted /\ s.answer = "none"
    BY <1>1 DEF Request
  <2>4. s \in Request
    <3>1. s = req'[c]
      BY <1>1, <2>2
    <3> QED BY <3>1 DEF IInv, TypeOK
  <2>5. PermissionPlan(s) = plan
    BY <2>3 DEF PermissionPlan, Changed
  <2> HIDE DEF s, plan
  <2>6. PermissionKnown(s)
    BY <1>1, <2>1, <2>3, <2>5 DEF PermissionKnown
  <2> QED BY <1>1, <1>3, <2>1, <2>2, <2>3, <2>4, <2>6, PermissionAdvances DEF LoadPermission, Busy, Step
<1> QED BY <1>2, <1>3

(* What the save of a role does: the role takes the document's name, its   *)
(* list becomes the permissions it holds, all live under the names it has  *)
(* them, and nothing else changes.                                         *)
RoleSave(c, r, list) ==
  /\ r = req[c].role /\ list = ListOf(req[c])
  /\ roles' = [roles EXCEPT ![r] = [row |-> IF req[c].op = "role-delete" THEN "deleted" ELSE "live",
                                    name |-> req[c].name]]
  /\ held' \subseteq Role \X Permission
  /\ \A x \in Role, p \in Permission :
       <<x, p>> \in held' <=> IF x = r THEN p \in list ELSE <<x, p>> \in held
  /\ \A p \in list : permissions'[p] = [row |-> "live", name |-> req[c].copy[p]]
  /\ \A p \in Permission \ list : permissions'[p] = permissions[p]

LEMMA SavesRole ==
  ASSUME CInv, NEW c \in Caller, Saved(c), req[c].op \in RoleOp
  PROVE \E r \in Role, list \in SUBSET Permission : RoleSave(c, r, list)
<1> DEFINE q == req[c]
<1>1. /\ q \in Request /\ RoleDocument(q) /\ q.step = "commit" /\ RoleKnown(q)
      /\ q.plan = RolePlan(q)
      /\ roles \in [Role -> RoleRow] /\ permissions \in [Permission -> PermissionRow]
      /\ held \subseteq Role \X Permission
  BY RunningRequest DEF Saved, CInv, IInv, TypeOK, Known, RoleKnown
<1>2. PICK r \in Role, list \in SUBSET Permission : r = q.role /\ list = ListOf(q)
  BY <1>1 DEF RoleDocument, ListOf
<1>3. /\ roles' = [roles EXCEPT ![r] = Written(roles[r], q)]
      /\ permissions' = PermissionsAfter(q)
      /\ held' = (held \cup RolePlan(q).link) \ RolePlan(q).unlink
  BY <1>1, <1>2 DEF Saved, RolesAfter
<1>4. /\ RolePlan(q).link = ({r} \X list) \ held
      /\ RolePlan(q).unlink = {rp \in held : rp[1] = r /\ rp[2] \notin list}
      /\ RolePlan(q).insert = {p \in list : permissions[p].row = "absent"}
      /\ RolePlan(q).rename = {} /\ RolePlan(q).revive = {}
      /\ RolePlan(q).columns = Changed(roles[r], q)
  BY <1>1, <1>2 DEF RolePlan, RoleKnown, ListKnown, LivePermission
<1>5. held' \subseteq Role \X Permission
  BY <1>1, <1>3, <1>4
<1>6. ASSUME NEW x \in Role, NEW p \in Permission
      PROVE <<x, p>> \in held' <=> IF x = r THEN p \in list ELSE <<x, p>> \in held
  BY <1>3, <1>4
<1>7. ASSUME NEW p \in list PROVE permissions'[p] = [row |-> "live", name |-> q.copy[p]]
  BY <1>1, <1>2, <1>3, <1>4 DEF PermissionsAfter, RoleKnown, ListKnown, LivePermission
<1>8. ASSUME NEW p \in Permission \ list PROVE permissions'[p] = permissions[p]
  BY <1>1, <1>3, <1>4 DEF PermissionsAfter, PermissionRow
<1>9. Written(roles[r], q) =
        [row |-> IF q.op = "role-delete" THEN "deleted" ELSE "live", name |-> q.name]
  BY <1>1, <1>2, <1>4 DEF Written, Changed, RoleKnown, LiveRole
<1>10. RoleSave(c, r, list)
  BY <1>2, <1>3, <1>5, <1>6, <1>7, <1>8, <1>9 DEF RoleSave
<1> QED BY <1>10

(* A permission about to be made is in one list only, and nobody else's.   *)
LEMMA NewIsOwn ==
  ASSUME IInv, NEW c \in Caller, NEW d \in Caller, c # d, NEW p \in Permission,
         req[c].copy[p] # NoName, permissions[p].row = "absent"
  PROVE req[d].copy[p] = NoName /\ (req[d].op = "permission-create" => req[d].permission # p)
<1>1. ~Trail(req[c].role, p)
  BY DEF IInv, Trail, RowsNamed
<1>2. AboutToInsert(c, p)
  BY <1>1 DEF IInv, CopiesTrailed
<1> QED BY <1>2 DEF AboutToInsert

(* The request a save leaves behind knows nothing it could be wrong about. *)
LEMMA LeavesKnow ==
  ASSUME CInv, NEW c \in Caller, Saved(c) \/ UpdatePermission(c)
  PROVE /\ Known(req[c])' /\ Distinct(c) /\ \A d \in Caller \ {c} : req'[d] = req[d]
<1>1. req \in [Caller -> Request]
  BY DEF CInv, IInv, TypeOK
<1>2. \A d \in Caller \ {c} : req'[d] = req[d]
  BY <1>1 DEF Saved, UpdatePermission, Respond
<1>3. CASE \E code \in {"200", "500"} : Respond(c, code)
  <2>1. req'[c].step = "idle" /\ req'[c].op = "none"
    BY <1>1, <1>3 DEF Respond, Idle
  <2> QED BY <1>2, <2>1 DEF Known, Distinct, Busy, RoleOp, PermissionOp
<1>4. CASE Saved(c) /\ req[c].op = "role-update"
  <2>1. req'[c] = Rereading(req[c].role)
    BY <1>1, <1>4 DEF Saved
  <2>2. /\ req'[c].step = "reread" /\ req'[c].op = "role-update" /\ req'[c].role = req[c].role
        /\ req'[c].answer = "none"
    BY <2>1 DEF Rereading, Idle
  <2> QED BY <1>2, <1>4, <2>2 DEF Known, Distinct, Busy, Saved, RoleOp, PermissionOp
<1> QED BY <1>3, <1>4 DEF Saved, UpdatePermission

(* A role's save changes no live permission and none outside its list.     *)
LEMMA ListStays ==
  ASSUME CInv, NEW c \in Caller, req[c].op \in RoleOp, RoleKnown(req[c]),
         NEW r \in Role, NEW list \in SUBSET Permission, RoleSave(c, r, list)
  PROVE \A p \in Permission :
          permissions[p].row = "live" \/ p \notin list => permissions'[p] = permissions[p]
<1>1. ASSUME NEW p \in list, permissions[p].row = "live" PROVE permissions'[p] = permissions[p]
  <2>1. permissions[p] \in PermissionRow
    BY DEF CInv, IInv, TypeOK
  <2>2. permissions[p] = [row |-> "live", name |-> permissions[p].name]
    BY <1>1, <2>1 DEF PermissionRow
  <2>3. permissions'[p] = [row |-> "live", name |-> req[c].copy[p]] /\ p \in ListOf(req[c])
    BY <1>1 DEF RoleSave
  <2>4. req[c].copy[p] = permissions[p].name
    BY <1>1, <2>3 DEF RoleKnown, ListKnown, LivePermission
  <2> QED BY <2>2, <2>3, <2>4
<1> QED BY <1>1 DEF RoleSave

LEMMA SavedRoleKnows ==
  ASSUME CInv, IInv', NEW c \in Caller, Saved(c), req[c].op \in RoleOp PROVE CInv'
<1> DEFINE q == req[c]
<1>1. PICK r \in Role, list \in SUBSET Permission : RoleSave(c, r, list)
  BY SavesRole
<1>2. /\ q.step = "commit" /\ Busy(c) /\ RoleKnown(q) /\ Known(req[c])' /\ Distinct(c)
      /\ \A d \in Caller \ {c} : req'[d] = req[d]
  BY LeavesKnow DEF Saved, Busy, CInv, Known
<1>3. roles'[r].row = "live" \/ list = {}
  <2>1. q.op = "role-delete" => list = {}
    BY <1>1, <1>2 DEF RoleSave, RoleKnown, ListAsked
  <2> QED BY <1>1, <2>1 DEF RoleSave, CInv, IInv, TypeOK
<1>4. NothingHeldOnDeletedRows'
  <2> SUFFICES ASSUME NEW x \in Role, NEW p \in Permission, <<x, p>> \in held'
               PROVE LiveRole(x)' /\ LivePermission(p)'
    BY <1>1 DEF RoleSave, NothingHeldOnDeletedRows
  <2>1. CASE x = r
    <3>1. p \in list
      BY <1>1, <2>1 DEF RoleSave
    <3>2. permissions'[p].row = "live"
      <4>1. permissions'[p] = [row |-> "live", name |-> q.copy[p]]
        BY <1>1, <3>1 DEF RoleSave
      <4> QED BY <4>1
    <3> QED BY <1>3, <2>1, <3>1, <3>2 DEF LiveRole, LivePermission
  <2>2. CASE x # r
    <3>1. <<x, p>> \in held
      BY <1>1, <2>2 DEF RoleSave
    <3>2. roles[x].row = "live" /\ permissions[p].row = "live"
      BY <3>1 DEF CInv, NothingHeldOnDeletedRows, LiveRole, LivePermission
    <3>3. roles'[x] = roles[x]
      BY <1>1, <2>2 DEF RoleSave, CInv, IInv, TypeOK
    <3>4. permissions'[p].row = "live"
      <4>1. CASE p \in list
        <5>1. permissions'[p] = [row |-> "live", name |-> q.copy[p]]
          BY <1>1, <4>1 DEF RoleSave
        <5> QED BY <5>1
      <4>2. CASE p \notin list
        BY <1>1, <3>2, <4>2 DEF RoleSave
      <4> QED BY <4>1, <4>2
    <3> QED BY <3>2, <3>3, <3>4 DEF LiveRole, LivePermission
  <2> QED BY <2>1, <2>2
<1>5. \A p \in Permission : permissions[p].row = "live" \/ p \notin list => permissions'[p] = permissions[p]
  BY <1>1, <1>2, ListStays
<1>6. \A p \in list : permissions[p].row \in {"live", "absent"}
  BY <1>1, <1>2 DEF RoleSave, RoleKnown, ListKnown, LivePermission
<1>7. ASSUME NEW d \in Caller \ {c}, Busy(d) PROVE MayOverlap(q, req[d])
  BY <1>2, <1>7 DEF CInv, Apart
<1>8. ASSUME NEW d \in Caller \ {c}, req[d].op \in RoleOp, Busy(d) PROVE RoleRowsStay(d)
  <2>1. req[d].role # r
    BY <1>1, <1>7, <1>8 DEF MayOverlap, RoleSave
  <2>2. req[d].role \in Role
    BY <1>8 DEF CInv, IInv, DocumentOf, RoleDocument, PermissionDocument, RoleOp, PermissionOp
  <2>3. roles'[req[d].role] = roles[req[d].role]
    BY <1>1, <2>1, <2>2 DEF RoleSave, CInv, IInv, TypeOK
  <2>4. \A p \in Permission : <<req[d].role, p>> \in held' <=> <<req[d].role, p>> \in held
    BY <1>1, <2>1, <2>2 DEF RoleSave
  <2>5. ASSUME NEW p \in Permission, req[d].copy[p] # NoName \/ <<req[d].role, p>> \in held
        PROVE permissions'[p] = permissions[p]
    <3>1. CASE permissions[p].row = "absent"
      <4>1. req[d].copy[p] # NoName
        BY <2>5, <3>1 DEF CInv, NothingHeldOnDeletedRows, LivePermission
      <4>2. q.copy[p] = NoName
        BY <3>1, <4>1, NewIsOwn DEF CInv
      <4> QED BY <1>1, <1>5, <4>2 DEF RoleSave, ListOf
    <3> QED BY <1>5, <1>6, <3>1
  <2> QED BY <2>3, <2>4, <2>5 DEF RoleRowsStay
<1>9. ASSUME NEW d \in Caller \ {c}, req[d].op \in PermissionOp PROVE PermissionRowsStay(d)
  <2>1. Busy(d) /\ PermissionDocument(req[d])
    BY <1>9, RunningRequest DEF CInv, PermissionDocument, Busy
  <2>2. req[d].op = "permission-create" /\ req[d].permission \in Permission
        /\ permissions[req[d].permission].row = "absent"
    BY <1>7, <1>9, <2>1 DEF MayOverlap, PermissionOp, PermissionDocument, CInv, Known, PermissionKnown
  <2>3. q.copy[req[d].permission] = NoName
    BY <2>2, NewIsOwn DEF CInv
  <2>4. req[d].permission \notin list
    BY <1>1, <2>3 DEF RoleSave, ListOf
  <2> QED BY <1>1, <1>5, <2>2, <2>4 DEF RoleSave, PermissionRowsStay
<1>10. \A d \in Caller : Known(req[d])'
  BY <1>2, <1>4, <1>8, <1>9, KnownStays
<1> QED BY <1>2, <1>4, <1>10, ApartStays DEF CInv

(* What the save of a permission does, and permission-update's UPDATE.     *)
PermissionSave(c, p) ==
  /\ p = req[c].permission /\ UNCHANGED <<roles, held>>
  /\ permissions' = [permissions EXCEPT ![p] =
       [row |-> IF req[c].op = "permission-delete" THEN "deleted" ELSE "live", name |-> req[c].name]]
  /\ CASE req[c].op = "permission-create" -> permissions[p].row = "absent"
       [] req[c].op = "permission-update" -> LivePermission(p)
       [] req[c].op = "permission-delete" ->
            /\ LivePermission(p) /\ req[c].name = permissions[p].name
            /\ \A r \in Role : <<r, p>> \notin held

LEMMA SavesPermission ==
  ASSUME CInv, NEW c \in Caller,
         \/ Saved(c) /\ req[c].op \in PermissionOp
         \/ UpdatePermission(c) /\ permissions' # permissions
  PROVE \E p \in Permission : PermissionSave(c, p)
<1> DEFINE q == req[c]
<1>1. q \in Request /\ PermissionDocument(q) /\ PermissionKnown(q) /\ q.op \in PermissionOp
      /\ permissions \in [Permission -> PermissionRow] /\ held \subseteq Role \X Permission
  BY RunningRequest DEF UpdatePermission, CInv, IInv, TypeOK, Known, PermissionDocument
<1>2. PICK p \in Permission : p = q.permission
  BY <1>1 DEF PermissionDocument
<1>3. CASE Saved(c) /\ q.op \in PermissionOp
  <2>1. q.plan = PermissionPlan(q) /\ q.op \in {"permission-create", "permission-delete"}
        /\ q.deleted = (q.op = "permission-delete")
    BY <1>1, <1>3 DEF Saved, PermissionKnown
  <2>2. q.op \notin RoleOp
    BY <2>1 DEF RoleOp
  <2>3. /\ permissions' = [permissions EXCEPT ![p] = Written(permissions[p], q)]
        /\ roles' = roles /\ held' = (held \cup q.plan.link) \ q.plan.unlink
    BY <1>2, <1>3, <2>2 DEF Saved, RolesAfter, PermissionsAfter
  <2>4. /\ q.plan.link = {} /\ q.plan.unlink = {rp \in held : rp[2] = p}
        /\ q.plan.columns = Changed(permissions[p], q)
    BY <1>2, <2>1 DEF PermissionPlan, NoPlan
  <2>5. \A r \in Role : <<r, p>> \notin held
    BY <1>1, <1>2, <1>3, <2>1
       DEF Saved, PermissionKnown, CInv, NothingHeldOnDeletedRows, LivePermission
  <2>6. held' = held
    BY <1>1, <2>3, <2>4, <2>5
  <2>7. Written(permissions[p], q) =
          [row |-> IF q.op = "permission-delete" THEN "deleted" ELSE "live", name |-> q.name]
    BY <1>1, <1>2, <1>3, <2>1, <2>4
       DEF Saved, Written, Changed, PermissionKnown, LivePermission
  <2> QED BY <1>1, <1>2, <1>3, <2>1, <2>3, <2>5, <2>6, <2>7
          DEF Saved, PermissionSave, PermissionKnown
<1>4. CASE UpdatePermission(c) /\ permissions' # permissions
  <2>1. q.op = "permission-update" /\ LivePermission(p)
    BY <1>1, <1>2, <1>4 DEF UpdatePermission, PermissionDocument, PermissionKnown
  <2>2. permissions' = [permissions EXCEPT ![p] = [row |-> "live", name |-> q.name]]
        /\ UNCHANGED <<roles, held>>
    BY <1>2, <1>4 DEF UpdatePermission
  <2> QED BY <1>2, <2>1, <2>2 DEF PermissionSave
<1> QED BY <1>3, <1>4

LEMMA PermissionSaveKnows ==
  ASSUME CInv, IInv', NEW c \in Caller, req[c].op \in PermissionOp,
         Saved(c) \/ UpdatePermission(c), NEW p \in Permission, PermissionSave(c, p)
  PROVE CInv'
<1> DEFINE q == req[c]
<1>1. /\ Busy(c) /\ Known(req[c])' /\ Distinct(c)
      /\ \A d \in Caller \ {c} : req'[d] = req[d]
  BY LeavesKnow DEF Saved, UpdatePermission, Busy
<1>2. /\ UNCHANGED <<roles, held>> /\ \A x \in Permission \ {p} : permissions'[x] = permissions[x]
      /\ permissions'[p].row = "live" \/ \A r \in Role : <<r, p>> \notin held
  <2>1. permissions \in [Permission -> PermissionRow]
    BY DEF CInv, IInv, TypeOK
  <2>2. q.op # "permission-delete" => permissions'[p] = [row |-> "live", name |-> q.name]
    BY <2>1 DEF PermissionSave
  <2>3. q.op # "permission-delete" => permissions'[p].row = "live"
    BY <2>2
  <2> QED BY <2>1, <2>3 DEF PermissionSave
<1>3. NothingHeldOnDeletedRows'
  <2> SUFFICES ASSUME NEW r \in Role, NEW x \in Permission, <<r, x>> \in held
               PROVE roles'[r].row = "live" /\ permissions'[x].row = "live"
    BY <1>2 DEF NothingHeldOnDeletedRows, LiveRole, LivePermission, CInv, IInv, TypeOK
  <2>1. roles[r].row = "live" /\ permissions[x].row = "live"
    BY DEF CInv, NothingHeldOnDeletedRows, LiveRole, LivePermission
  <2> QED BY <1>2, <2>1
<1>4. ASSUME NEW d \in Caller \ {c}, Busy(d)
      PROVE /\ q.op = "permission-create" /\ MayOverlap(q, req[d])
            /\ req[d].op \in PermissionOp => req[d].permission # p
  BY <1>1, <1>4 DEF CInv, Apart, MayOverlap, PermissionOp, PermissionSave
<1>5. ASSUME NEW d \in Caller \ {c}, req[d].op \in RoleOp, Busy(d) PROVE RoleRowsStay(d)
  <2>1. permissions[p].row = "absent" /\ p = q.permission /\ q.op = "permission-create"
    BY <1>4, <1>5 DEF PermissionSave
  <2>2. req[d].copy[p] = NoName
    BY <2>1, NewIsOwn DEF CInv
  <2>3. \A r : <<r, p>> \notin held
    BY <2>1 DEF CInv, IInv, TypeOK, NothingHeldOnDeletedRows, LivePermission
  <2> QED BY <1>2, <2>2, <2>3 DEF RoleRowsStay
<1>6. ASSUME NEW d \in Caller \ {c}, req[d].op \in PermissionOp PROVE PermissionRowsStay(d)
  <2>1. Busy(d) /\ req[d].permission \in Permission
    BY <1>6, RunningRequest DEF CInv, PermissionDocument, Busy
  <2> QED BY <1>2, <1>4, <1>6, <2>1 DEF PermissionRowsStay
<1>7. \A d \in Caller : Known(req[d])'
  BY <1>1, <1>3, <1>5, <1>6, KnownStays
<1> QED BY <1>1, <1>3, <1>7, ApartStays DEF CInv

LEMMA SavesKnow ==
  ASSUME CInv, IInv', NEW c \in Caller, Saved(c) \/ UpdatePermission(c) PROVE CInv'
<1>1. CASE Saved(c) /\ req[c].op \in RoleOp
  BY <1>1, SavedRoleKnows
<1>2. req[c].op \in RoleOp \/ req[c].op \in PermissionOp
  BY RunningRequest DEF Saved, UpdatePermission, CInv, RoleDocument, PermissionDocument
<1>3. UpdatePermission(c) => req[c].op \in PermissionOp
  BY RunningRequest DEF UpdatePermission, CInv, PermissionDocument
<1>4. CASE UpdatePermission(c) /\ permissions' = permissions
  BY <1>4, LeavesKnow, ReadsKnow DEF UpdatePermission, Data
<1> QED BY <1>1, <1>2, <1>3, <1>4, SavesPermission, PermissionSaveKnows

LEMMA HandlesKnow ==
  ASSUME CInv, IInv', NEW c \in Caller, Handle(c) PROVE CInv'
<1>1. CASE RoleNotFound(c) \/ PermissionNotFound(c) \/ SaveRejected(c) \/ Reread(c)
  BY <1>1, AnswersKnow DEF RoleNotFound, PermissionNotFound, SaveRejected, Reread, Answer
<1>2. CASE ReadRoleForUpdate(c)
  BY <1>2, ReadIntoKnows DEF ReadRoleForUpdate
<1>3. CASE ReadRoleForDelete(c)
  BY <1>3, ReadIntoKnows, AnswersKnow DEF ReadRoleForDelete, Answer
<1>4. CASE ReadRoleForGrants(c)
  BY <1>4, ReadIntoKnows DEF ReadRoleForGrants
<1> QED BY <1>1, <1>2, <1>3, <1>4, AddKnows, RemoveKnows, PermissionReadsKnow, LoadsKnow, SavesKnow
        DEF Handle

LEMMA NextCoordinated == CInv /\ [Next]_vars => CInv'
<1> SUFFICES ASSUME CInv, [Next]_vars PROVE CInv'
  OBVIOUS
<1>1. IInv'
  BY StartKeeps, HandleKeeps, StutterKeeps DEF CInv, Next
<1>2. CASE UNCHANGED vars
  <2>1. NothingHeldOnDeletedRows'
    BY <1>2 DEF vars, CInv, NothingHeldOnDeletedRows, LiveRole, LivePermission
  <2>2. Apart'
    BY <1>2 DEF vars, CInv, Apart, Busy
  <2>3. \A d \in Caller : Known(req[d])'
    BY <1>1, <1>2, <2>1, KnownStays DEF vars, RoleRowsStay, PermissionRowsStay
  <2> QED BY <1>1, <1>2, <2>1, <2>2, <2>3 DEF CInv
<1> QED BY <1>1, <1>2, StartsKnow, HandlesKnow DEF Next

(* Coordinated requests know the rows they work on (MayOverlap).           *)
THEOREM CoordinatedInductive == Spec /\ Coordinated => []CInv
BY InitCInv, NextCoordinated, PTL DEF Spec

----------------------------------------------------------------------------
(* What an answer of 200 means, and the refinement.                        *)

(* Only its own save answers a request that has computed its plan.         *)
LEMMA AnsweredBySaving ==
  ASSUME CInv, [Next]_vars, NEW c \in Caller, req[c].step = "commit", req'[c].answer = "200"
  PROVE Saved(c)
<1>1. req[c].answer = "none" /\ req \in [Caller -> Request]
  BY DEF CInv, Known, IInv, TypeOK
<1>2. PICK d \in Caller : Start(d) \/ Handle(d)
  BY <1>1 DEF Next, vars
<1>3. d = c
  <2>1. Advance(d)
    BY <1>2, StartAdvances, HandleAdvances DEF CInv
  <2> QED BY <1>1, <2>1 DEF Advance
<1>4. ~Start(c)
  BY StartsRequest DEF Begin, Busy
<1>5. ~SaveRejected(c)
  <2> SUFFICES ASSUME SaveRejected(c) PROVE FALSE
    OBVIOUS
  <2>1. req'[c] = [Idle EXCEPT !.answer = "500"]
    BY <1>1 DEF SaveRejected, Respond
  <2> QED BY <2>1 DEF Idle
<1> QED BY <1>2, <1>3, <1>4, <1>5, RunningRequest
        DEF Handle, CInv, RoleNotFound, ReadRoleForUpdate, ReadRoleForDelete, ReadRoleForGrants,
        ReadPermissionsToAdd, ReadPermissionsToRemove, PermissionNotFound, ReadPermissionName,
        ReadPermissionForUpdate, ExistsOnUpdate, ReadPermissionForDelete, LoadRole, LoadPermission,
        UpdatePermission, Reread

LEMMA SaveDoesAsAsked ==
  ASSUME CInv, CInv', NEW c \in Caller, Saved(c), NEW r \in Role, req[c].role = r,
         req[c].op \in {"role-add-permission", "role-delete-permission"}
  PROVE IF req[c].op = "role-add-permission"
          THEN NamesHeld(r)' = NamesHeld(r) \cup {Normalise[s] : s \in req[c].asked}
          ELSE NamesHeld(r)' = NamesHeld(r) \ req[c].asked
<1> DEFINE q == req[c]
<1>1. q.op \in RoleOp /\ q.step = "commit" /\ RoleKnown(q)
  BY DEF RoleOp, Saved, CInv, Known
<1>2. PICK list \in SUBSET Permission : RoleSave(c, r, list)
  BY <1>1, SavesRole DEF RoleSave
<1>3. list = ListOf(q)
  BY <1>2 DEF RoleSave
<1>4. PermissionsOf(r)' = list
  <2>1. PermissionsOf(r)' = {p \in Permission : <<r, p>> \in held'}
    BY HeldIsLiveNext DEF CInv, IInv
  <2> QED BY <1>2, <2>1 DEF RoleSave
<1>5. \A p \in list : permissions'[p].name = q.copy[p]
  <2> SUFFICES ASSUME NEW p \in list PROVE permissions'[p].name = q.copy[p]
    OBVIOUS
  <2>1. permissions'[p] = [row |-> "live", name |-> q.copy[p]]
    BY <1>2 DEF RoleSave
  <2> QED BY <2>1
<1>6. NamesHeld(r)' = {q.copy[p] : p \in ListOf(q)}
  BY <1>3, <1>4, <1>5 DEF NamesHeld
<1>7. CASE q.op = "role-add-permission"
  BY <1>1, <1>6, <1>7 DEF RoleKnown, ListAsked
<1>8. CASE q.op = "role-delete-permission"
  <2>1. ListOf(q) = {p \in PermissionsOf(r) : permissions[p].name \notin q.asked}
    BY <1>1, <1>8 DEF RoleKnown, ListAsked
  <2>2. \A p \in ListOf(q) : q.copy[p] = permissions[p].name
    BY <1>1, <1>8 DEF RoleKnown, ListKnown
  <2> QED BY <1>6, <1>8, <2>1, <2>2 DEF NamesHeld
<1> QED BY <1>7, <1>8

(* Coordinated requests: an answer of 200 to role-add-permission or        *)
(* role-delete-permission says that the role now holds what was asked.     *)
THEOREM GrantsAreDone == Spec /\ Coordinated => AskedIsDone
<1>1. CInv /\ CInv' /\ [Next]_vars => DoesAsAsked
  <2> SUFFICES ASSUME CInv, CInv', [Next]_vars PROVE DoesAsAsked
    OBVIOUS
  <2>1. ASSUME NEW c \in Caller, NEW r \in Role, Answered(c, "role-add-permission", r)
        PROVE NamesHeld(r)' = NamesHeld(r) \cup {Normalise[s] : s \in req[c].asked}
    BY <2>1, AnsweredBySaving, SaveDoesAsAsked DEF Answered
  <2>2. ASSUME NEW c \in Caller, NEW r \in Role, Answered(c, "role-delete-permission", r)
        PROVE NamesHeld(r)' = NamesHeld(r) \ req[c].asked
    BY <2>2, AnsweredBySaving, SaveDoesAsAsked DEF Answered
  <2> QED BY <2>1, <2>2 DEF DoesAsAsked
<1> QED BY <1>1, CoordinatedInductive, PTL DEF Spec, AskedIsDone

(* What RoleBasedAccess sees of the tables. *)
RoleNames == [r \in Role |-> IF LiveRole(r) THEN roles[r].name ELSE NoName]
PermissionNames == [p \in Permission |-> IF LivePermission(p) THEN permissions[p].name ELSE NoName]

LEMMA StartsAsPromised == CInv => Abstract!Init
<1> SUFFICES ASSUME CInv PROVE Abstract!Init
  OBVIOUS
<1>1. roles \in [Role -> RoleRow] /\ permissions \in [Permission -> PermissionRow]
      /\ held \subseteq Role \X Permission /\ RowsNamed
  BY DEF CInv, IInv, TypeOK
<1>2. ASSUME NEW rp \in held
      PROVE RoleNames[rp[1]] # NoName /\ PermissionNames[rp[2]] # NoName
  BY <1>1 DEF CInv, NothingHeldOnDeletedRows, LiveRole, LivePermission, RowsNamed, RoleNames,
     PermissionNames
<1>3. /\ RoleNames \in [Role -> RoleName \cup {NoName}]
      /\ PermissionNames \in [Permission -> PermissionName \cup {NoName}]
  BY <1>1 DEF RoleNames, PermissionNames, RoleRow, PermissionRow
<1>4. held \subseteq {r \in Role : RoleNames[r] # NoName} \X {p \in Permission : PermissionNames[p] # NoName}
  BY <1>1, <1>2
<1> QED BY <1>3, <1>4
        DEF Abstract!Init, Abstract!IsRole, Abstract!IsPermission, RoleNames, PermissionNames

LEMMA SameTables == UNCHANGED Data => UNCHANGED <<RoleNames, PermissionNames, held>>
BY DEF Data, RoleNames, PermissionNames, LiveRole, LivePermission

(* Names are unique among live rows, in the tables and as they are seen.   *)
LEMMA RoleNameFree ==
  ASSUME CInv, NEW c \in Caller, NEW r \in Role, NEW n \in RoleName, Unique(roles'),
         roles' = [roles EXCEPT ![r] = [row |-> "live", name |-> n]]
  PROVE Abstract!FreeFor(RoleNames, r, n)
<1>1. roles \in [Role -> RoleRow] /\ n # NoName
  BY ConstantsAssumption DEF CInv, IInv, TypeOK
<1>2. roles'[r].name = n /\ \A y \in Role \ {r} : roles'[y] = roles[y]
  BY <1>1
<1>3. DOMAIN RoleNames = Role /\ DOMAIN roles' = Role
  BY <1>1 DEF RoleNames
<1>4. ASSUME NEW y \in Role, y # r, RoleNames[y] = n PROVE FALSE
  <2>1. roles[y].name = n
    BY <1>1, <1>4 DEF RoleNames
  <2>2. roles'[y].name = n
    BY <1>2, <1>4, <2>1
  <2> QED BY <1>1, <1>2, <1>3, <1>4, <2>2 DEF Unique
<1> QED BY <1>3, <1>4 DEF Abstract!FreeFor

LEMMA RoleSaveIsPromised ==
  ASSUME CInv, CInv', NEW c \in Caller, Saved(c), req[c].op \in RoleOp
  PROVE Abstract!Next
<1> DEFINE q == req[c]
<1>1. q \in Request /\ RoleDocument(q) /\ q.step = "commit" /\ RoleKnown(q)
  BY RunningRequest DEF Saved, CInv, IInv, Known
<1>2. PICK r \in Role, list \in SUBSET Permission : RoleSave(c, r, list)
  BY SavesRole
<1>3. PICK n \in RoleName : n = q.name
  BY <1>1 DEF RoleDocument
<1>4. /\ r = q.role /\ list = ListOf(q) /\ n # NoName
      /\ roles \in [Role -> RoleRow] /\ permissions \in [Permission -> PermissionRow]
      /\ held \subseteq Role \X Permission /\ held' \subseteq Role \X Permission
      /\ permissions' \in [Permission -> PermissionRow]
      /\ Unique(roles') /\ Unique(permissions')
  BY <1>2, <1>3, ConstantsAssumption DEF RoleSave, CInv, IInv, TypeOK, Saved
<1>5. \A p \in Permission : LivePermission(p) \/ p \notin list => permissions'[p] = permissions[p]
  BY <1>1, <1>2, ListStays DEF LivePermission
<1>6. PermissionsOf(r) = {p \in Permission : <<r, p>> \in held}
  BY HeldIsLive DEF CInv, IInv
<1>7. q.op # "role-delete" => roles' = [roles EXCEPT ![r] = [row |-> "live", name |-> n]]
  BY <1>2, <1>3 DEF RoleSave
<1>8. RoleNames' = [RoleNames EXCEPT ![r] = IF q.op = "role-delete" THEN NoName ELSE n]
  <2>1. /\ roles'[r].row = (IF q.op = "role-delete" THEN "deleted" ELSE "live")
        /\ roles'[r].name = n
    BY <1>2, <1>3, <1>4 DEF RoleSave
  <2>2. \A x \in Role \ {r} : roles'[x] = roles[x]
    BY <1>2, <1>4 DEF RoleSave
  <2> QED BY <2>1, <2>2 DEF RoleNames, LiveRole
<1>9. q.op # "role-add-permission" => PermissionNames' = PermissionNames
  <2>1. q.op # "role-add-permission" => \A p \in list : LivePermission(p)
    BY <1>1, <1>4 DEF RoleKnown, ListKnown
  <2> QED BY <1>5, <2>1 DEF PermissionNames, LivePermission
<1>10. q.op \notin {"role-add-permission", "role-delete-permission"} =>
         held' = held /\ list = PermissionsOf(r)
  <2> SUFFICES ASSUME q.op \notin {"role-add-permission", "role-delete-permission"}
               PROVE held' = held /\ list = PermissionsOf(r)
    OBVIOUS
  <2>1. list = PermissionsOf(r)
    BY <1>1, <1>4 DEF RoleKnown, ListAsked
  <2>2. ASSUME NEW x \in Role, NEW p \in Permission PROVE <<x, p>> \in held' <=> <<x, p>> \in held
    <3>1. <<x, p>> \in held' <=> IF x = r THEN p \in list ELSE <<x, p>> \in held
      BY <1>2 DEF RoleSave
    <3>2. p \in list <=> <<r, p>> \in held
      BY <1>6, <2>1
    <3> QED BY <3>1, <3>2
  <2>3. held \subseteq Role \X Permission /\ held' \subseteq Role \X Permission
    BY <1>2 DEF RoleSave, CInv, IInv, TypeOK
  <2>4. held' = held
    BY <2>2, <2>3
  <2> QED BY <2>1, <2>4
<1>11. q.op \notin {"role-create"} => RoleNames[r] # NoName
  BY <1>1, <1>4 DEF RoleKnown, RoleNames, LiveRole, CInv, IInv, RowsNamed
<1>12. q.op \in {"role-delete", "role-add-permission", "role-delete-permission"} =>
         RoleNames[r] = n
  BY <1>1, <1>3, <1>4 DEF RoleKnown, RoleNames
<1>13. CASE q.op \in {"role-create", "role-update"}
  <2>1. Abstract!FreeFor(RoleNames, r, n)
    BY <1>4, <1>7, <1>13, RoleNameFree
  <2>2. Abstract!NameRole(r, n)
    BY <1>8, <1>9, <1>10, <1>13, <2>1
       DEF Abstract!NameRole, Abstract!FreeFor, RoleNames, PermissionNames
  <2> QED BY <2>2 DEF Abstract!Next
<1>14. CASE q.op = "role-delete"
  <2>1. \A p \in Permission : <<r, p>> \notin held
    BY <1>1, <1>4, <1>6, <1>10, <1>14 DEF RoleKnown, ListAsked
  <2>2. Abstract!DeleteRole(r)
    BY <1>8, <1>9, <1>10, <1>11, <1>14, <2>1
       DEF Abstract!DeleteRole, Abstract!IsRole, RoleNames, PermissionNames
  <2> QED BY <2>2 DEF Abstract!Next
<1>15. CASE q.op = "role-delete-permission"
  <2> DEFINE dropped == PermissionsOf(r) \ list
  <2>1. held' = held \ ({r} \X dropped)
    <3>1. list \subseteq PermissionsOf(r)
      BY <1>1, <1>4, <1>15 DEF RoleKnown, ListAsked
    <3>2. \A x \in Role, p \in Permission :
            <<x, p>> \in held' <=> <<x, p>> \in held /\ ~(x = r /\ p \in dropped)
      BY <1>2, <1>6, <3>1 DEF RoleSave
    <3> QED BY <1>4, <3>2
  <2>2. RoleNames' = RoleNames
    BY <1>8, <1>12, <1>15 DEF RoleNames
  <2>3. Abstract!DeletePermissions(r, dropped)
    BY <1>9, <1>11, <1>15, <2>1, <2>2
       DEF Abstract!DeletePermissions, Abstract!IsRole, RoleNames, PermissionNames
  <2>4. dropped \in SUBSET Permission
    BY <1>6
  <2> QED BY <2>3, <2>4 DEF Abstract!Next
<1>16. CASE q.op = "role-add-permission"
  <2>1. held' = held \cup ({r} \X list)
    <3>1. PermissionsOf(r) \subseteq list
      BY <1>1, <1>4, <1>16 DEF RoleKnown, ListAsked
    <3>2. \A x \in Role, p \in Permission :
            <<x, p>> \in held' <=> <<x, p>> \in held \/ (x = r /\ p \in list)
      BY <1>2, <1>6, <3>1 DEF RoleSave
    <3> QED BY <1>4, <3>2
  <2>2. RoleNames' = RoleNames
    BY <1>8, <1>12, <1>16 DEF RoleNames
  <2>3. \A p \in list : permissions'[p].row = "live" /\ permissions'[p].name # NoName
    <3> SUFFICES ASSUME NEW p \in list
                 PROVE permissions'[p].row = "live" /\ permissions'[p].name # NoName
      OBVIOUS
    <3>1. permissions'[p] = [row |-> "live", name |-> q.copy[p]]
      BY <1>2 DEF RoleSave
    <3> QED BY <1>4, <3>1 DEF ListOf
  <2>4. \A p \in Permission :
          PermissionNames[p] # NoName \/ p \notin list => PermissionNames'[p] = PermissionNames[p]
    BY <1>5 DEF PermissionNames, LivePermission
  <2>5. \A p \in list : PermissionNames'[p] # NoName
    BY <2>3 DEF PermissionNames, LivePermission
  <2>6. \A p \in list : Abstract!FreeFor(PermissionNames', p, PermissionNames'[p])
    <3> SUFFICES ASSUME NEW p \in list, NEW y \in Permission,
                        PermissionNames'[y] = PermissionNames'[p]
                 PROVE y = p
      BY DEF Abstract!FreeFor, PermissionNames
    <3>1. permissions'[y].name = permissions'[p].name /\ permissions'[p].name # NoName
      BY <2>3, <2>5 DEF PermissionNames, LivePermission
    <3> QED BY <1>4, <3>1 DEF Unique
  <2>7. PermissionNames' \in [Permission -> PermissionName \cup {NoName}]
    BY <1>4 DEF PermissionNames, PermissionRow
  <2>8. Abstract!AddPermissions(r, list)
    BY <1>11, <1>16, <2>1, <2>2, <2>4, <2>5, <2>6, <2>7
       DEF Abstract!AddPermissions, Abstract!IsRole, Abstract!IsPermission, RoleNames,
       PermissionNames, Abstract!FreeFor
  <2> QED BY <2>8 DEF Abstract!Next
<1> QED BY <1>1, <1>13, <1>14, <1>15, <1>16 DEF RoleDocument, RoleOp

LEMMA PermissionSaveIsPromised ==
  ASSUME CInv, CInv', NEW c \in Caller, NEW p \in Permission, PermissionSave(c, p),
         Unique(permissions'), req[c].op \in PermissionOp
  PROVE Abstract!Next
<1> DEFINE q == req[c]
<1>1. /\ permissions \in [Permission -> PermissionRow] /\ permissions' \in [Permission -> PermissionRow]
      /\ UNCHANGED <<roles, held>>
  BY DEF CInv, IInv, TypeOK, PermissionSave
<1>2. RoleNames' = RoleNames /\ held' = held
  BY <1>1 DEF RoleNames, LiveRole
<1>3. /\ permissions'[p].row = (IF q.op = "permission-delete" THEN "deleted" ELSE "live")
      /\ permissions'[p].name = q.name
      /\ \A x \in Permission \ {p} : permissions'[x] = permissions[x]
  BY <1>1 DEF PermissionSave
<1>4. PermissionNames' =
        [PermissionNames EXCEPT ![p] = IF q.op = "permission-delete" THEN NoName ELSE q.name]
  BY <1>3 DEF PermissionNames, LivePermission
<1>5. CASE q.op = "permission-delete"
  <2>1. PermissionNames[p] # NoName /\ \A r \in Role : <<r, p>> \notin held
    BY <1>5 DEF PermissionSave, PermissionNames, LivePermission, CInv, IInv, RowsNamed
  <2>2. Abstract!DeletePermission(p)
    BY <1>2, <1>4, <1>5, <2>1
       DEF Abstract!DeletePermission, Abstract!IsPermission, RoleNames, PermissionNames
  <2> QED BY <2>2 DEF Abstract!Next
<1>6. CASE q.op # "permission-delete"
  <2>1. PICK n \in PermissionName : n = q.name
    <3>1. permissions'[p].row = "live"
      BY <1>3, <1>6
    <3>2. permissions'[p].name # NoName
      BY <3>1 DEF CInv, IInv, RowsNamed
    <3> QED BY <1>1, <1>3, <3>2 DEF PermissionRow
  <2>2. n # NoName
    BY <2>1, ConstantsAssumption
  <2>3. ASSUME NEW y \in Permission, PermissionNames[y] = n PROVE y = p
    <3> SUFFICES ASSUME y # p PROVE FALSE
      OBVIOUS
    <3>1. permissions'[y].name = n
      BY <1>3, <2>2, <2>3 DEF PermissionNames
    <3> QED BY <1>1, <1>3, <2>1, <2>2, <3>1 DEF Unique
  <2>4. Abstract!FreeFor(PermissionNames, p, n)
    BY <2>3 DEF Abstract!FreeFor, PermissionNames
  <2>5. Abstract!NamePermission(p, n)
    BY <1>2, <1>4, <1>6, <2>1, <2>4
       DEF Abstract!NamePermission, Abstract!FreeFor, RoleNames, PermissionNames
  <2> QED BY <2>5 DEF Abstract!Next
<1> QED BY <1>5, <1>6

LEMMA NextIsPromised == CInv /\ CInv' /\ [Next]_vars => [Abstract!Next]_(Abstract!vars)
<1> SUFFICES ASSUME CInv, CInv', [Next]_vars PROVE [Abstract!Next]_(Abstract!vars)
  OBVIOUS
<1>1. CASE UNCHANGED Data
  BY <1>1, SameTables DEF Abstract!vars, RoleNames, PermissionNames
<1>2. CASE UNCHANGED vars
  BY <1>1, <1>2 DEF vars, Data
<1>3. ASSUME NEW c \in Caller, Saved(c) PROVE Abstract!Next
  <2>1. CASE req[c].op \in RoleOp
    BY <1>3, <2>1, RoleSaveIsPromised
  <2>2. CASE req[c].op \in PermissionOp
    <3>1. PICK p \in Permission : PermissionSave(c, p)
      BY <1>3, <2>2, SavesPermission
    <3>2. Unique(permissions')
      BY <1>3 DEF Saved
    <3> QED BY <2>2, <3>1, <3>2, PermissionSaveIsPromised
  <2> QED BY <1>3, <2>1, <2>2, RunningRequest DEF Saved, CInv, RoleDocument, PermissionDocument
<1>4. ASSUME NEW c \in Caller, UpdatePermission(c), permissions' # permissions PROVE Abstract!Next
  <2>1. PICK p \in Permission : PermissionSave(c, p)
    BY <1>4, SavesPermission
  <2>2. Unique(permissions')
    BY <1>4 DEF UpdatePermission
  <2>3. req[c].op \in PermissionOp
    BY <1>4, RunningRequest DEF UpdatePermission, CInv, PermissionDocument
  <2> QED BY <2>1, <2>2, <2>3, PermissionSaveIsPromised
<1>5. ASSUME NEW c \in Caller, Start(c) PROVE UNCHANGED Data
  BY <1>5, StartsRequest DEF Begin
<1>6. ASSUME NEW c \in Caller, Handle(c)
      PROVE UNCHANGED Data \/ Saved(c) \/ (UpdatePermission(c) /\ permissions' # permissions)
  BY <1>6 DEF Handle, RoleNotFound, ReadRoleForUpdate, ReadRoleForDelete, ReadRoleForGrants,
     ReadPermissionsToAdd, ReadPermissionsToRemove, PermissionNotFound, ReadPermissionName,
     ReadPermissionForUpdate, ExistsOnUpdate, ReadPermissionForDelete, LoadRole, LoadPermission,
     SaveRejected, UpdatePermission, Reread, Data
<1> QED BY <1>1, <1>2, <1>3, <1>4, <1>5, <1>6 DEF Next

(* Coordinated requests implement role-based access control: names are     *)
(* unique, nothing in use is deleted, and each save that answers 200 is    *)
(* one operation on what the guard sees (RoleBasedAccess).                 *)
THEOREM Refinement == Spec /\ Coordinated => Promise
<1>1. Init /\ Coordinated => Abstract!Init
  BY InitCInv, StartsAsPromised
<1> QED BY <1>1, NextIsPromised, CoordinatedInductive, PTL DEF Spec, Promise, Abstract!Spec
=============================================================================
