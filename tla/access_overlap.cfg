SPECIFICATION Spec
CONSTANTS
  r1 = r1 r2 = r2 r3 = r3 p1 = p1 p2 = p2 p3 = p3 a1 = a1 a2 = a2
  c1 = c1 c2 = c2
  NoName = NoName NoId = NoId
  Role = {r1, r2, r3}
  Permission = {p1, p2, p3}
  RoleName = {"BACKOFFICE", "USER", "GUEST"}
  PermissionName = {"manage", "use", "view"}
  Spelling = {"manage", "use", "view"}
  Normalise <- MCNormalise
  Account = {a1, a2}
  AccountRoles <- MCAccountRoles
  RequiredPermission <- MCRequiredPermission
  Caller = {c1, c2}
  MaxRequests = 3
  Coordinated = FALSE
  SeedRoles <- MCSeedRoles
  SeedPermissions <- MCSeedPermissions
  SeedHeld <- MCSeedHeld
SYMMETRY CallerSymmetry
INVARIANTS IInv GrantTrail
PROPERTIES OnlyStaleCopiesUndelete OnlyOutdatedPlansStrand
CHECK_DEADLOCK FALSE
