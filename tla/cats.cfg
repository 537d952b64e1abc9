SPECIFICATION Spec
CONSTANTS
  None = None
  NaN = NaN
  k1 = k1
  k2 = k2
  k3 = k3
  p1 = p1
  p2 = p2
  Cat = {k1, k2, k3}
  Caller = {p1, p2}
  Kitten <- MCKitten
  Change <- MCChange
  Part <- MCPart
  Queries <- MCQueries
  Searches <- MCSearches
  SortAllowed <- MCSortAllowed
  LikeAllowed = {"name", "breed"}
  EqualAllowed = {"age"}
  DefaultLimit = 1
  MaxLimit = 2
  MaxCalls = 2
  MaxTime = 3
SYMMETRY Symmetry
INVARIANTS UpdateAnswersTruly PagesMissNobody ReadsFindWhatWasAsked
PROPERTIES DeletedStaysDeleted
CHECK_DEADLOCK FALSE
