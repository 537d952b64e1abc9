SPECIFICATION Spec
CONSTANTS
  c1 = c1
  Caller = {c1}
  RequestTimeout = 4
  Retries = 3
  ClientError = {404, 422, 503}
INVARIANTS Inv
PROPERTIES AskedInMeasure EveryRequestIsAnswered
CHECK_DEADLOCK FALSE
