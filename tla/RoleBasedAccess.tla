-------------------------- MODULE RoleBasedAccess --------------------------
(***************************************************************************)
(* What the role and permission endpoints promise an administrator: roles  *)
(* and permissions with a name each, and a relation "role holds            *)
(* permission", changed by operations that take effect at once.            *)
(* AccessControl implements it when requests are coordinated.              *)
(***************************************************************************)
CONSTANTS Role, Permission, RoleName, PermissionName, NoName

VARIABLES
  roleName,        \* name of each role, NoName when there is none
  permissionName,  \* name of each permission, NoName when there is none
  holds            \* <<role, permission>>

vars == <<roleName, permissionName, holds>>

IsRole(r) == roleName[r] # NoName
IsPermission(p) == permissionName[p] # NoName
FreeFor(table, x, n) == \A y \in DOMAIN table : table[y] = n => y = x

Init ==
  /\ roleName \in [Role -> RoleName \cup {NoName}]
  /\ permissionName \in [Permission -> PermissionName \cup {NoName}]
  /\ holds \subseteq {r \in Role : IsRole(r)} \X {p \in Permission : IsPermission(p)}

(* Creating or renaming a role. *)
NameRole(r, n) ==
  /\ FreeFor(roleName, r, n)
  /\ roleName' = [roleName EXCEPT ![r] = n]
  /\ UNCHANGED <<permissionName, holds>>

DeleteRole(r) ==
  /\ IsRole(r)
  /\ \A p \in Permission : <<r, p>> \notin holds
  /\ roleName' = [roleName EXCEPT ![r] = NoName]
  /\ UNCHANGED <<permissionName, holds>>

(* Adding permissions to a role; those that do not exist come into being.  *)
AddPermissions(r, P) ==
  /\ IsRole(r)
  /\ permissionName' \in [Permission -> PermissionName \cup {NoName}]
  /\ \A p \in Permission :
       /\ IsPermission(p) \/ p \notin P => permissionName'[p] = permissionName[p]
       /\ p \in P => /\ permissionName'[p] # NoName
                     /\ FreeFor(permissionName', p, permissionName'[p])
  /\ holds' = holds \cup ({r} \X P)
  /\ UNCHANGED roleName

DeletePermissions(r, P) ==
  /\ IsRole(r)
  /\ holds' = holds \ ({r} \X P)
  /\ UNCHANGED <<roleName, permissionName>>

(* Creating or renaming a permission. *)
NamePermission(p, n) ==
  /\ FreeFor(permissionName, p, n)
  /\ permissionName' = [permissionName EXCEPT ![p] = n]
  /\ UNCHANGED <<roleName, holds>>

DeletePermission(p) ==
  /\ IsPermission(p)
  /\ \A r \in Role : <<r, p>> \notin holds
  /\ permissionName' = [permissionName EXCEPT ![p] = NoName]
  /\ UNCHANGED <<roleName, holds>>

Next ==
  \/ \E r \in Role : \/ \E n \in RoleName : NameRole(r, n)
                     \/ DeleteRole(r)
                     \/ \E P \in SUBSET Permission : AddPermissions(r, P) \/ DeletePermissions(r, P)
  \/ \E p \in Permission : \/ \E n \in PermissionName : NamePermission(p, n)
                           \/ DeletePermission(p)

Spec == Init /\ [][Next]_vars
=============================================================================
