SPECIFICATION Spec
CONSTANTS
  u1 = u1 u2 = u2 c1 = c1 c2 = c2
  NoUser = NoUser
  User = {u1}
  Profile = {"old", "new"}
  Caller = {c1, c2}
  RowLife = 2
  TokenLife = 3
  Latency = 1
  MaxTime = 4
  MaxRequests = 3
SYMMETRY Callers
INVARIANTS IInv FreshRowsAreUsable MailedTokensAreKept OnlyOverlapDuplicates
PROPERTIES OnlyStaleResetsRevert
CHECK_DEADLOCK FALSE
