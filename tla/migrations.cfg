SPECIFICATION Spec
CONSTANTS
  r1 = r1
  r2 = r2
  Runner = {r1, r2}
  UserPermission <- MCUserPermission
  BackofficePermission <- MCBackofficePermission
  MaxRuns = 5
SYMMETRY Symmetry
INVARIANTS  CleanRunsDoNotFail
CHECK_DEADLOCK FALSE
