SPECIFICATION Spec
CONSTANTS
  u1 = u1 c1 = c1 c2 = c2
  Nobody = Nobody
  User = {u1}
  Caller = {c1, c2}
  Second = 2
  Lifetime = 3
  MaxTime = 3
  MaxRequests = 3
  FirstTokens <- MCFirstTokens
INVARIANTS IInv RevokedIsRefused RefusedIsNotHandled DeletedUsersAreOut
PROPERTIES AnsweredUnlessItHangs
CHECK_DEADLOCK FALSE
