SPECIFICATION Spec
CONSTANTS
  a1 = a1 a2 = a2 a3 = a3 u1 = u1 u2 = u2 u3 = u3 c1 = c1 c2 = c2 n1 = n1 n2 = n2
  NoName = NoName NoId = NoId Null = Null
  Account = {a1, a2, a3}
  User = {u1, u2, u3}
  Email = {"admin@", "new@"}
  Username = {"admin", n1, n2}
  Role = {"USER", "BACKOFFICE"}
  RoleList <- MCRoleList
  Column = {"fullName", "phone"}
  Value = {Null, "old"}
  Required = {"fullName"}
  Caller = {c1, c2}
  MaxRequests = 3
  Coordinated = TRUE
  SeedAccounts <- MCSeedAccounts
  SeedUsers <- MCSeedUsers
SYMMETRY FreshSymmetry
INVARIANTS CInv
PROPERTIES AnswersTell Promise
CHECK_DEADLOCK FALSE
