--------------------------- MODULE AccessControl ---------------------------
(***************************************************************************)
(* Roles, permissions and the grants between them: the use cases under     *)
(* core/role and core/permission, the repository they save through         *)
(* (infra/repository/postgres) and the decision of AuthorizationRoleGuard. *)
(*                                                                         *)
(* A request runs in steps, one per database round trip of the handler.    *)
(* Any other request may run between two steps: Node interleaves handlers  *)
(* at every await, and no use case opens a transaction around its reads    *)
(* and its save.  A save is two round trips of TypeORM: it first loads the *)
(* rows it is about to write and computes the difference to the document   *)
(* (Load), then applies that difference in one transaction (Saved), which  *)
(* a UNIQUE or PRIMARY KEY constraint may roll back (SaveRejected).        *)
(***************************************************************************)
EXTENDS Naturals

CONSTANTS
  Role, Permission,            \* row ids; the sets bound how many rows exist
  RoleName, PermissionName,    \* normalised names
  Spelling,                    \* permission names as a client may write them
  Normalise,                   \* what PermissionEntity makes of a spelling
  Account, AccountRoles,       \* accounts_roles, which no operation here writes
  RequiredPermission,          \* the @Permission decorator of each operation
  Caller,                      \* requests in flight at the same time, at most
  MaxRequests,                 \* requests in a behaviour, at most
  Coordinated,                 \* TRUE: the administrators avoid conflicting requests
  SeedRoles, SeedPermissions, SeedHeld,   \* rows the migrations insert
  NoName, NoId

RoleOp == {"role-create", "role-update", "role-delete",
           "role-add-permission", "role-delete-permission"}
PermissionOp == {"permission-create", "permission-update", "permission-delete"}
Op == RoleOp \cup PermissionOp

RowState == {"absent", "live", "deleted"}    \* deleted: deletedAt is set
RoleRow == [row : RowState, name : RoleName \cup {NoName}]
PermissionRow == [row : RowState, name : PermissionName \cup {NoName}]

ASSUME ConstantsAssumption ==
  /\ PermissionName \subseteq Spelling
  /\ Normalise \in [Spelling -> PermissionName]
  /\ \A n \in PermissionName : Normalise[n] = n
  /\ NoName \notin RoleName \cup Spelling
  /\ NoId \notin Role \cup Permission
  /\ AccountRoles \in [Account -> SUBSET Role]
  /\ RequiredPermission \in [Op -> PermissionName]
  /\ MaxRequests \in Nat
  /\ Coordinated \in BOOLEAN

ASSUME SeedAssumption ==
  /\ SeedRoles \in [Role -> RoleRow]
  /\ SeedPermissions \in [Permission -> PermissionRow]
  /\ SeedHeld \subseteq Role \X Permission
  /\ \A r \in Role : (SeedRoles[r].row = "absent") <=> (SeedRoles[r].name = NoName)
  /\ \A p \in Permission :
       (SeedPermissions[p].row = "absent") <=> (SeedPermissions[p].name = NoName)
  /\ \A rp \in SeedHeld : SeedRoles[rp[1]].row = "live" /\ SeedPermissions[rp[2]].row = "live"

VARIABLES
  roles,        \* table roles
  permissions,  \* table permissions
  held,         \* join table permissions_roles
  req,          \* the handlers in flight and the documents they hold
  requests,     \* how many requests have started
  granted,      \* history: <<role, name>> some add-permission request asked for
  borne         \* history: <<permission, name>> pairs the table has contained

vars == <<roles, permissions, held, req, requests, granted, borne>>

----------------------------------------------------------------------------
(* What a handler holds while it runs. *)

Step == {"idle", "read", "permissions", "exists", "update", "load", "commit", "reread"}
Answer == {"none", "200", "404", "409", "500"}

NoCopy == [p \in Permission |-> NoName]
NoPlan == [insert |-> {}, rename |-> {}, revive |-> {},
           link |-> {}, unlink |-> {}, columns |-> {}]
Idle == [op |-> "none", step |-> "idle", answer |-> "none",
         role |-> NoId, permission |-> NoId, asked |-> {}, name |-> NoName,
         deleted |-> FALSE, copy |-> NoCopy, plan |-> NoPlan]

Busy(c) == req[c].step # "idle"
Goto(c, step) == req' = [req EXCEPT ![c].step = step]
Respond(c, code) == req' = [req EXCEPT ![c] = [Idle EXCEPT !.answer = code]]
Data == <<roles, permissions, held>>
History == <<requests, granted, borne>>

(* Reads: TypeORM hides soft-deleted rows from finds and from their joins. *)
(* Fault: finds return soft-deleted rows.                                  *)
StoredRole(r) == roles[r].row # "absent"
LiveRole(r) == roles[r].row = "live"
LivePermission(p) == permissions[p].row = "live"
PermissionsOf(r) == {p \in Permission : <<r, p>> \in held /\ LivePermission(p)}
RolesOf(p) == {r \in Role : <<r, p>> \in held /\ LiveRole(r)}
LiveNamed(n) == {p \in Permission : LivePermission(p) /\ permissions[p].name = n}

(* The guard: the permission names of the account's live roles. *)
PermissionNamesOf(a) ==
  {permissions[p].name : p \in UNION {PermissionsOf(r) : r \in {x \in AccountRoles[a] : LiveRole(x)}}}
Allowed(a, n) == n \in PermissionNamesOf(a)

----------------------------------------------------------------------------
(* Admission of a request. *)

(* UUIDs: an id no row and no document in flight has. *)
FreshRole == {r \in Role : roles[r].row = "absent" /\ \A c \in Caller : req[c].role # r}
FreshPermission ==
  {p \in Permission : /\ permissions[p].row = "absent"
                      /\ \A c \in Caller : req[c].permission # p /\ req[c].copy[p] = NoName}

(* The discipline under which the use cases keep their promises: no two    *)
(* requests for one role at a time, and permissions are renamed or deleted *)
(* while nothing else runs.                                                *)
MayOverlap(q, s) ==
  /\ {q.op, s.op} \cap {"permission-update", "permission-delete"} = {}
  /\ q.op \in RoleOp /\ s.op \in RoleOp => q.role # s.role

Begin(c, s) ==
  /\ ~Busy(c)
  /\ requests < MaxRequests
  /\ \E a \in Account : Allowed(a, RequiredPermission[s.op])
  /\ Coordinated => \A d \in Caller : Busy(d) => MayOverlap(req[d], s)
  /\ req' = [req EXCEPT ![c] = s]
  /\ requests' = requests + 1
  /\ UNCHANGED <<Data, granted, borne>>

StartRoleCreate(c) ==
  \E r \in FreshRole, n \in RoleName :
    Begin(c, [Idle EXCEPT !.op = "role-create", !.step = "load", !.role = r, !.name = n])

StartRoleUpdate(c) ==
  \E r \in Role, n \in RoleName \cup {NoName} :
    Begin(c, [Idle EXCEPT !.op = "role-update", !.step = "read", !.role = r, !.name = n])

StartRoleDelete(c) ==
  \E r \in Role :
    Begin(c, [Idle EXCEPT !.op = "role-delete", !.step = "read", !.role = r])

(* The names arrive as a list.  A repetition changes nothing, except that  *)
(* a missing name sent twice is two new rows of one name, as two of its    *)
(* spellings are: the save is rejected.                                    *)
StartRoleGrants(c) ==
  \E r \in Role, asked \in SUBSET Spelling,
     op \in {"role-add-permission", "role-delete-permission"} :
    Begin(c, [Idle EXCEPT !.op = op, !.step = "read", !.role = r, !.asked = asked])

StartPermissionCreate(c) ==
  \E p \in FreshPermission, n \in PermissionName :
    Begin(c, [Idle EXCEPT !.op = "permission-create", !.step = "read",
                          !.permission = p, !.name = n])

StartPermissionUpdate(c) ==
  \E p \in Permission, n \in PermissionName \cup {NoName} :
    Begin(c, [Idle EXCEPT !.op = "permission-update", !.step = "read",
                          !.permission = p, !.name = n])

StartPermissionDelete(c) ==
  \E p \in Permission :
    Begin(c, [Idle EXCEPT !.op = "permission-delete", !.step = "read", !.permission = p])

----------------------------------------------------------------------------
(* The handlers up to their save. *)

RoleNotFound(c) ==
  /\ req[c].step = "read" /\ req[c].op \in RoleOp
  /\ ~LiveRole(req[c].role)
  /\ Respond(c, "404")
  /\ UNCHANGED <<Data, History>>

(* The document of a role request: the row as read, the permissions it     *)
(* holds as read, and the input's name over the row's.                     *)
CopiesOf(r) == [p \in Permission |-> IF p \in PermissionsOf(r) THEN permissions[p].name ELSE NoName]
ReadInto(c, step, deleted) ==
  LET r == req[c].role IN
  req' = [req EXCEPT ![c].step = step,
                     ![c].name = IF @ = NoName THEN roles[r].name ELSE @,
                     ![c].deleted = deleted,
                     ![c].copy = CopiesOf(r)]

ReadRoleForUpdate(c) ==
  /\ req[c].step = "read" /\ req[c].op = "role-update"
  /\ LiveRole(req[c].role)
  /\ ReadInto(c, "load", FALSE)
  /\ UNCHANGED <<Data, History>>

(* Fault: the roleHasAssociationWithPermission check is lost.              *)
ReadRoleForDeleteUnchecked(c) ==
  /\ req[c].step = "read" /\ req[c].op = "role-delete"
  /\ LiveRole(req[c].role)
  /\ ReadInto(c, "load", TRUE)
  /\ UNCHANGED <<Data, History>>

ReadRoleForDelete(c) ==
  /\ req[c].step = "read" /\ req[c].op = "role-delete"
  /\ LiveRole(req[c].role)
  /\ IF PermissionsOf(req[c].role) # {}
       THEN Respond(c, "409")
       ELSE ReadInto(c, "load", TRUE)
  /\ UNCHANGED <<Data, History>>

ReadRoleForGrants(c) ==
  /\ req[c].step = "read" /\ req[c].op \in {"role-add-permission", "role-delete-permission"}
  /\ LiveRole(req[c].role)
  /\ ReadInto(c, "permissions", FALSE)
  /\ UNCHANGED <<Data, History>>

(* Fault: the name filter of findIn is lost.                               *)
JoiningAnyName(q) == {p \in Permission :
                        /\ LivePermission(p) /\ q.asked # {}
                        /\ \A x \in Permission : q.copy[x] # permissions[p].name}

(* role-add-permission after findIn: spellings no live row bears become    *)
(* new permissions, the others join the document unless it already holds   *)
(* the name.  A row the document holds under an older name takes the name  *)
(* just read: TypeORM merges list members of one id, the last one winning. *)
Missing(q) == {s \in q.asked : LiveNamed(s) = {}}
Joining(q) == {p \in Permission :
                 /\ LivePermission(p) /\ permissions[p].name \in q.asked
                 /\ \A x \in Permission : q.copy[x] # permissions[p].name}

(* Fault: a new permission is saved as the client spelled it.              *)
NewCopyAsSpelled(q, id, p) == CHOOSE s \in Missing(q) : id[s] = p
NewCopy(q, id, p) == Normalise[CHOOSE s \in Missing(q) : id[s] = p]

ReadPermissionsToAdd(c) ==
  LET q == req[c] IN
  /\ q.step = "permissions" /\ q.op = "role-add-permission"
  /\ \E id \in [Missing(q) -> FreshPermission] :
       /\ \A s, t \in Missing(q) : id[s] = id[t] => s = t
       /\ req' = [req EXCEPT ![c].step = "load",
                             ![c].copy = [p \in Permission |->
                                IF p \in Joining(q) THEN permissions[p].name
                                ELSE IF \E s \in Missing(q) : id[s] = p THEN NewCopy(q, id, p)
                                ELSE q.copy[p]]]
  /\ granted' = granted \cup {<<q.role, Normalise[s]>> : s \in q.asked}
  /\ UNCHANGED <<Data, requests, borne>>

(* role-delete-permission after findIn: a spelling no live row bears is    *)
(* skipped, the others leave the document by name.                         *)
(* Fault: finding any of the names empties the list.                       *)
FoundAnyName(q) == {s \in PermissionName : \E t \in q.asked : LiveNamed(t) # {}}
Found(q) == {s \in q.asked : LiveNamed(s) # {}}
ReadPermissionsToRemove(c) ==
  LET q == req[c] IN
  /\ q.step = "permissions" /\ q.op = "role-delete-permission"
  /\ req' = [req EXCEPT ![c].step = "load",
                        ![c].copy = [p \in Permission |->
                           IF q.copy[p] \in Found(q) THEN NoName ELSE q.copy[p]]]
  /\ UNCHANGED <<Data, History>>

ReadPermissionName(c) ==
  /\ req[c].step = "read" /\ req[c].op = "permission-create"
  /\ IF LiveNamed(req[c].name) # {} THEN Respond(c, "409") ELSE Goto(c, "load")
  /\ UNCHANGED <<Data, History>>

PermissionNotFound(c) ==
  /\ req[c].step = "read" /\ req[c].op \in {"permission-update", "permission-delete"}
  /\ ~LivePermission(req[c].permission)
  /\ Respond(c, "404")
  /\ UNCHANGED <<Data, History>>

(* permission-update looks for a name clash only when a name was sent. *)
ReadPermissionForUpdate(c) ==
  LET q == req[c] IN
  /\ q.step = "read" /\ q.op = "permission-update"
  /\ LivePermission(q.permission)
  /\ IF q.name = NoName
       THEN req' = [req EXCEPT ![c].step = "update",
                               ![c].name = permissions[q.permission].name]
       ELSE Goto(c, "exists")
  /\ UNCHANGED <<Data, History>>

ExistsOnUpdate(c) ==
  /\ req[c].step = "exists"
  /\ IF LiveNamed(req[c].name) \ {req[c].permission} # {}
       THEN Respond(c, "409")
       ELSE Goto(c, "update")
  /\ UNCHANGED <<Data, History>>

(* Fault: the permissionHasAssociationWithRole check is lost.              *)
ReadPermissionForDeleteUnchecked(c) ==
  LET q == req[c] IN
  /\ q.step = "read" /\ q.op = "permission-delete"
  /\ LivePermission(q.permission)
  /\ req' = [req EXCEPT ![c].step = "load", ![c].deleted = TRUE,
                        ![c].name = permissions[q.permission].name]
  /\ UNCHANGED <<Data, History>>

ReadPermissionForDelete(c) ==
  LET q == req[c] IN
  /\ q.step = "read" /\ q.op = "permission-delete"
  /\ LivePermission(q.permission)
  /\ IF RolesOf(q.permission) # {}
       THEN Respond(c, "409")
       ELSE req' = [req EXCEPT ![c].step = "load", ![c].deleted = TRUE,
                               ![c].name = permissions[q.permission].name]
  /\ UNCHANGED <<Data, History>>

----------------------------------------------------------------------------
(* The save. *)

(* The columns in which a row differs from the document. *)
Changed(row, q) ==
  {col \in {"name", "deletedAt"} :
     \/ col = "name" /\ row.name # q.name
     \/ col = "deletedAt" /\ (row.row = "deleted") # q.deleted}

(* A role document replaces the role's join rows by its permission list,   *)
(* and cascades insert and update to the copies in that list.              *)
ListOf(q) == {p \in Permission : q.copy[p] # NoName}
RolePlan(q) ==
  LET known == {p \in ListOf(q) : permissions[p].row # "absent"} IN
  [insert |-> ListOf(q) \ known,
   rename |-> {p \in known : permissions[p].name # q.copy[p]},
   revive |-> {p \in known : permissions[p].row = "deleted"},
   link   |-> ({q.role} \X ListOf(q)) \ held,
   unlink |-> {rp \in held : rp[1] = q.role /\ rp[2] \notin ListOf(q)},
   columns |-> Changed(roles[q.role], q)]
LoadRole(c) ==
  LET q == req[c] IN
  /\ q.step = "load" /\ q.op \in RoleOp
  /\ req' = [req EXCEPT ![c].step = "commit", ![c].plan = RolePlan(q)]
  /\ UNCHANGED <<Data, History>>

(* permission-delete saves the empty list of roles it has read. *)
PermissionPlan(q) ==
  [NoPlan EXCEPT !.unlink = {rp \in held : rp[2] = q.permission},
                 !.columns = Changed(permissions[q.permission], q)]
LoadPermission(c) ==
  LET q == req[c] IN
  /\ q.step = "load" /\ q.op \in PermissionOp
  /\ req' = [req EXCEPT ![c].step = "commit", ![c].plan = PermissionPlan(q)]
  /\ UNCHANGED <<Data, History>>

(* The row after the changed columns of the document are written; a row    *)
(* that is not there is inserted.                                          *)
Written(row, q) ==
  [row |-> IF row.row = "absent" \/ "deletedAt" \in q.plan.columns
             THEN IF q.deleted THEN "deleted" ELSE "live"
             ELSE row.row,
   name |-> IF row.row = "absent" \/ "name" \in q.plan.columns THEN q.name ELSE row.name]

RolesAfter(q) ==
  IF q.op \in RoleOp THEN [roles EXCEPT ![q.role] = Written(@, q)] ELSE roles
PermissionsAfter(q) ==
  IF q.op \in RoleOp
    THEN [p \in Permission |->
            [row |-> IF p \in q.plan.insert \cup q.plan.revive THEN "live"
                     ELSE permissions[p].row,
             name |-> IF p \in q.plan.insert \cup q.plan.rename THEN q.copy[p]
                      ELSE permissions[p].name]]
    ELSE [permissions EXCEPT ![q.permission] = Written(@, q)]
BorneAfter(table) == borne \cup {<<p, table[p].name>> : p \in {x \in Permission : table[x].row # "absent"}}

(* UNIQUE (name): soft-deleted rows keep their name.  PRIMARY KEY          *)
(* (roles_id, permissions_id): a join row is inserted once.                *)
Unique(table) ==
  \A x, y \in DOMAIN table : table[x].name = table[y].name /\ table[x].name # NoName => x = y
Taken(table, x, n) == \E y \in DOMAIN table \ {x} : table[y].name = n

(* role-update drops its document and reads the role once more.            *)
Rereading(r) == [Idle EXCEPT !.op = "role-update", !.step = "reread", !.role = r]

Saved(c) ==
  LET q == req[c] IN
  /\ q.step = "commit"
  /\ q.plan.link \cap held = {}
  /\ \A p \in q.plan.insert : ~Taken(permissions, p, q.copy[p])
  /\ Unique(RolesAfter(q)) /\ Unique(PermissionsAfter(q))
  /\ roles' = RolesAfter(q)
  /\ permissions' = PermissionsAfter(q)
  /\ held' = (held \cup q.plan.link) \ q.plan.unlink
  /\ borne' = BorneAfter(PermissionsAfter(q))
  /\ IF q.op = "role-update" THEN req' = [req EXCEPT ![c] = Rereading(q.role)]
                             ELSE Respond(c, "200")
  /\ UNCHANGED <<requests, granted>>

(* The statements run one by one, so a name some row still bears when its  *)
(* new bearer is written fails even if that row is to be renamed too.      *)
SaveRejected(c) ==
  LET q == req[c] IN
  /\ q.step = "commit"
  /\ \/ q.plan.link \cap held # {}
     \/ \E p \in q.plan.insert \cup q.plan.rename : Taken(permissions, p, q.copy[p])
     \/ ~Unique(RolesAfter(q)) \/ ~Unique(PermissionsAfter(q))
  /\ Respond(c, "500")
  /\ UNCHANGED <<Data, History>>

(* RoleEntity cannot be built from the null findById gives for a role      *)
(* deleted since: the answer is an error, and the save stands.             *)
Reread(c) ==
  /\ req[c].step = "reread"
  /\ Respond(c, IF LiveRole(req[c].role) THEN "200" ELSE "500")
  /\ UNCHANGED <<Data, History>>

(* permission-update writes with one UPDATE by id: the name, and the       *)
(* deletedAt it has read, which was null.                                  *)
UpdatePermission(c) ==
  LET q == req[c]
      table == [permissions EXCEPT ![q.permission] = [row |-> "live", name |-> q.name]]
  IN
  /\ q.step = "update"
  /\ \/ /\ Unique(table)
        /\ permissions' = table
        /\ borne' = BorneAfter(table)
        /\ Respond(c, "200")
     \/ /\ ~Unique(table)
        /\ Respond(c, "500")
        /\ UNCHANGED <<permissions, borne>>
  /\ UNCHANGED <<roles, held, requests, granted>>

----------------------------------------------------------------------------
Init ==
  /\ roles = SeedRoles
  /\ permissions = SeedPermissions
  /\ held = SeedHeld
  /\ req = [c \in Caller |-> Idle]
  /\ requests = 0
  /\ granted = {<<rp[1], SeedPermissions[rp[2]].name>> : rp \in SeedHeld}
  /\ borne = {<<p, SeedPermissions[p].name>> : p \in {x \in Permission : SeedPermissions[x].row # "absent"}}

Start(c) ==
  \/ StartRoleCreate(c) \/ StartRoleUpdate(c) \/ StartRoleDelete(c) \/ StartRoleGrants(c)
  \/ StartPermissionCreate(c) \/ StartPermissionUpdate(c) \/ StartPermissionDelete(c)

Handle(c) ==
  \/ RoleNotFound(c) \/ ReadRoleForUpdate(c) \/ ReadRoleForDelete(c) \/ ReadRoleForGrants(c)
  \/ ReadPermissionsToAdd(c) \/ ReadPermissionsToRemove(c)
  \/ PermissionNotFound(c) \/ ReadPermissionName(c) \/ ReadPermissionForUpdate(c)
  \/ ExistsOnUpdate(c) \/ ReadPermissionForDelete(c)
  \/ LoadRole(c) \/ LoadPermission(c) \/ Saved(c) \/ SaveRejected(c) \/ UpdatePermission(c)
  \/ Reread(c)

Next == \E c \in Caller : Start(c) \/ Handle(c)

Spec == Init /\ [][Next]_vars

----------------------------------------------------------------------------
(* Types. *)

Plan == [insert : SUBSET Permission, rename : SUBSET Permission, revive : SUBSET Permission,
         link : SUBSET (Role \X Permission), unlink : SUBSET (Role \X Permission),
         columns : SUBSET {"name", "deletedAt"}]
Request == [op : Op \cup {"none"}, step : Step, answer : Answer,
            role : Role \cup {NoId}, permission : Permission \cup {NoId},
            asked : SUBSET Spelling, name : RoleName \cup PermissionName \cup {NoName},
            deleted : BOOLEAN, copy : [Permission -> PermissionName \cup {NoName}],
            plan : Plan]

(* Every variable keeps its type; the join table refers to rows that exist.*)
TypeOK ==
  /\ roles \in [Role -> RoleRow]
  /\ permissions \in [Permission -> PermissionRow]
  /\ held \subseteq Role \X Permission
  /\ req \in [Caller -> Request]
  /\ requests \in 0..MaxRequests
  /\ granted \subseteq Role \X PermissionName
  /\ borne \subseteq Permission \X PermissionName

----------------------------------------------------------------------------
(* Properties. *)

(* GrantTrail: whatever requests overlap, the guard lets an account use a  *)
(* permission only if one of its roles was seeded with it or some          *)
(* role-add-permission request asked for it, under a name the permission   *)
(* row has borne.  Stale documents may bring a revoked grant back; they    *)
(* never bring one nobody made (role-add-permission.ts, repository.create).*)
Trail(r, p) == \E n \in PermissionName : <<r, n>> \in granted /\ <<p, n>> \in borne
GrantTrail ==
  \A a \in Account, n \in PermissionName :
    Allowed(a, n) => \E r \in AccountRoles[a], p \in Permission :
                       permissions[p].name = n /\ Trail(r, p)

(* IInv: the inductive strengthening behind TypeOK and GrantTrail.         *)
(* RowsNamed: exactly the rows that exist have a name, and have borne one. *)
(* DocumentOf: a document has the rows and the name its operation needs at *)
(* each step, and its plan inserts every copy whose row does not exist.    *)
(* CopiesTrailed: each copy in a role document is of a granted permission, *)
(* or of a permission this request alone is about to insert.               *)
RowsNamed ==
  /\ \A r \in Role : (roles[r].row = "absent") <=> (roles[r].name = NoName)
  /\ \A p \in Permission : (permissions[p].row = "absent") <=> (permissions[p].name = NoName)
  /\ \A p \in Permission : permissions[p].row # "absent" => <<p, permissions[p].name>> \in borne
  /\ \A p \in Permission, n \in PermissionName : <<p, n>> \in borne => permissions[p].row # "absent"

RoleDocument(q) ==
  /\ q.op \in RoleOp
  /\ q.step \in {"read", "permissions", "load", "commit"}
  /\ q.role \in Role /\ q.permission = NoId
  /\ q.name \in RoleName \cup {NoName}
  /\ q.step # "read" => q.name \in RoleName
  /\ q.step # "commit" => q.plan = NoPlan
  /\ q.plan.link \subseteq {q.role} \X {p \in Permission : q.copy[p] # NoName}
  /\ \A p \in q.plan.insert \cup q.plan.rename \cup q.plan.revive : q.copy[p] # NoName
  /\ q.step = "commit" =>
       \A p \in Permission :
         q.copy[p] # NoName /\ permissions[p].row = "absent" => p \in q.plan.insert
PermissionDocument(q) ==
  /\ q.op \in PermissionOp
  /\ q.step \in {"read", "exists", "update", "load", "commit"}
  /\ q.permission \in Permission /\ q.role = NoId
  /\ q.copy = NoCopy
  /\ q.name \in PermissionName \cup {NoName}
  /\ q.step # "read" \/ q.op = "permission-create" => q.name \in PermissionName
  /\ q.step # "read" /\ q.op # "permission-create" => permissions[q.permission].row # "absent"
  /\ q.step \in {"exists", "update"} => q.op = "permission-update"
  /\ q.plan.link = {}
DocumentOf(q) ==
  \/ q.op = "none" /\ q.step = "idle" /\ q.copy = NoCopy
  \/ q.op = "role-update" /\ q.step = "reread" /\ q.role \in Role /\ q.copy = NoCopy
  \/ RoleDocument(q)
  \/ PermissionDocument(q)

AboutToInsert(c, p) ==
  /\ permissions[p].row = "absent"
  /\ <<req[c].role, req[c].copy[p]>> \in granted
  /\ \A d \in Caller \ {c} : req[d].copy[p] = NoName
  /\ \A d \in Caller : req[d].op = "permission-create" => req[d].permission # p
CopiesTrailed ==
  \A c \in Caller, p \in Permission :
    req[c].copy[p] # NoName =>
      \/ Trail(req[c].role, p) /\ <<p, req[c].copy[p]>> \in borne
      \/ AboutToInsert(c, p)

IInv ==
  /\ TypeOK
  /\ RowsNamed
  /\ \A c \in Caller : DocumentOf(req[c])
  /\ \A rp \in held : Trail(rp[1], rp[2])
  /\ CopiesTrailed

(* OnlyStaleCopiesUndelete: with no document of it in flight a deleted     *)
(* role or permission stays deleted, and no request gets hold of it again: *)
(* only a request that had read a row while it was live undoes a deletion  *)
(* (repository.create saves whole documents, deletedAt included).          *)
HasRead(c) == req[c].step \notin {"idle", "read", "reread"} \/ req[c].op = "permission-create"
CopyOfRole(r) == \E c \in Caller : HasRead(c) /\ req[c].role = r
CopyOfPermission(p) ==
  \E c \in Caller : HasRead(c) /\ (req[c].permission = p \/ req[c].copy[p] # NoName)
DeletionIsFinal ==
  /\ \A r \in Role : roles[r].row = "deleted" /\ ~CopyOfRole(r) =>
       roles'[r].row = "deleted" /\ ~CopyOfRole(r)'
  /\ \A p \in Permission : permissions[p].row = "deleted" /\ ~CopyOfPermission(p) =>
       permissions'[p].row = "deleted" /\ ~CopyOfPermission(p)'
OnlyStaleCopiesUndelete == [][DeletionIsFinal]_vars

(* OnlyOutdatedPlansStrand: role-delete and permission-delete refuse a row *)
(* with associations they have read, a save takes away the join rows of    *)
(* what it deletes and brings back to life what it lists.  So a grant is   *)
(* stranded on a deleted role or permission only by a save whose plan is   *)
(* out of date: another request has saved between its load and its commit. *)
(* A grant or a deletion that comes between read and load strands nothing  *)
(* (role-delete.ts:24, permission-delete.ts:24, role-add-permission.ts:52).*)
Stranded == {rp \in held : ~LiveRole(rp[1]) \/ ~LivePermission(rp[2])}
Outdated(q) == q.plan # IF q.op \in RoleOp THEN RolePlan(q) ELSE PermissionPlan(q)
SavesOutdated(c) == req[c].step = "commit" /\ Outdated(req[c]) /\ req'[c].step # "commit"
StrandsByRace == Stranded' \subseteq Stranded \/ \E c \in Caller : SavesOutdated(c)
OnlyOutdatedPlansStrand == [][StrandsByRace]_vars

(* NothingHeldOnDeletedRows: among coordinated requests no join row refers *)
(* to a deleted role or permission; a part of CInv below.                  *)
NothingHeldOnDeletedRows == \A rp \in held : LiveRole(rp[1]) /\ LivePermission(rp[2])

(* AskedIsDone: when role-add-permission answers 200 the role holds what   *)
(* it held before plus the names asked for, normalised; when               *)
(* role-delete-permission does, what it held before minus the names as     *)
(* they were spelled.  Coordinated requests only.                          *)
NamesHeld(r) == {permissions[p].name : p \in PermissionsOf(r)}
Answered(c, op, r) ==
  /\ req[c].op = op /\ req[c].role = r /\ req[c].step = "commit"
  /\ req'[c].answer = "200"
DoesAsAsked ==
  \A c \in Caller, r \in Role :
    /\ Answered(c, "role-add-permission", r) =>
         NamesHeld(r)' = NamesHeld(r) \cup {Normalise[s] : s \in req[c].asked}
    /\ Answered(c, "role-delete-permission", r) =>
         NamesHeld(r)' = NamesHeld(r) \ req[c].asked
AskedIsDone == [][DoesAsAsked]_vars

(* CInv: what coordinated requests keep besides IInv, and the inductive    *)
(* strengthening behind AskedIsDone and Promise.                           *)
(* Apart: no two requests work on one role or permission.  A request in    *)
(* flight knows its rows as they are: RoleKnown, its role, the permissions *)
(* in its list, and that the list is the one it is about to save;          *)
(* PermissionKnown, its permission.  A plan is still the one a load would  *)
(* make (repository.create, TypeORM's two round trips).                    *)
Apart ==
  \A c, d \in Caller : Busy(c) /\ Busy(d) /\ c # d =>
    /\ MayOverlap(req[c], req[d])
    /\ req[c].op \in PermissionOp /\ req[d].op \in PermissionOp =>
         req[c].permission # req[d].permission
ListKnown(q) ==
  \A p \in ListOf(q) :
    \/ LivePermission(p) /\ permissions[p].name = q.copy[p]
    \/ q.op = "role-add-permission" /\ q.step # "permissions" /\ permissions[p].row = "absent"
ListAsked(q) ==
  /\ q.op \notin {"role-add-permission", "role-delete-permission"} \/ q.step = "permissions" =>
       ListOf(q) = PermissionsOf(q.role)
  /\ q.op = "role-delete" => ListOf(q) = {}
  /\ q.op = "role-add-permission" /\ q.step # "permissions" =>
       /\ PermissionsOf(q.role) \subseteq ListOf(q)
       /\ {q.copy[p] : p \in ListOf(q)} = NamesHeld(q.role) \cup {Normalise[s] : s \in q.asked}
  /\ q.op = "role-delete-permission" /\ q.step # "permissions" =>
       ListOf(q) = {p \in PermissionsOf(q.role) : permissions[p].name \notin q.asked}
RoleKnown(q) ==
  /\ IF q.op = "role-create" THEN roles[q.role].row = "absent" ELSE LiveRole(q.role)
  /\ q.deleted = (q.op = "role-delete")
  /\ q.op \notin {"role-create", "role-update"} => q.name = roles[q.role].name
  /\ ListKnown(q) /\ ListAsked(q)
  /\ q.step = "commit" => q.plan = RolePlan(q)
PermissionKnown(q) ==
  /\ q.op = "permission-create" => permissions[q.permission].row = "absent"
  /\ q.op # "permission-create" /\ q.step # "read" => LivePermission(q.permission)
  /\ q.op = "permission-delete" /\ q.step # "read" =>
       /\ q.name = permissions[q.permission].name
       /\ \A r \in Role : <<r, q.permission>> \notin held
  /\ q.step \in {"load", "commit"} =>
       q.op \in {"permission-create", "permission-delete"} /\ q.deleted = (q.op = "permission-delete")
  /\ q.step = "commit" => q.plan = PermissionPlan(q)
Known(q) ==
  /\ q.step # "idle" => q.answer = "none"
  /\ q.step = "read" => ~q.deleted
  /\ q.step = "read" /\ q.op \in RoleOp \ {"role-update"} => q.name = NoName
  /\ q.op \in RoleOp /\ q.step \in {"permissions", "load", "commit"} => RoleKnown(q)
  /\ q.op \in PermissionOp => PermissionKnown(q)
CInv ==
  /\ Coordinated /\ IInv
  /\ NothingHeldOnDeletedRows
  /\ Apart
  /\ \A c \in Caller : Known(req[c])

(* Promise: coordinated requests implement RoleBasedAccess.  Its roles and *)
(* permissions are the live rows; every save that answers 200 is one of    *)
(* its operations and every other step changes nothing it can see.         *)
Abstract == INSTANCE RoleBasedAccess WITH
  roleName <- [r \in Role |-> IF LiveRole(r) THEN roles[r].name ELSE NoName],
  permissionName <- [p \in Permission |-> IF LivePermission(p) THEN permissions[p].name ELSE NoName],
  holds <- held
Promise == Abstract!Spec

(* EveryAccountKeepsARole: AccountEntitySchema (account.ts:19) requires    *)
(* roles to have at least one element, so an account has a role to show    *)
(* whenever it is read.                                                    *)
EveryAccountKeepsARole == \A a \in Account : \E r \in AccountRoles[a] : LiveRole(r)
=============================================================================
