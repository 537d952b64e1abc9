SPECIFICATION Spec
CONSTANTS
  s1 = s1 s2 = s2 m1 = m1 m2 = m2 k1 = k1
  NoMethod = NoMethod
  Method = {m1, m2}
  Key = {k1}
  KeyOf <- MCKeyOf
  Slot = {s1, s2}
  Threshold = 20
  Volume = 3
  Buckets = 2
  ResetTimeout = 2
  Timeout = 3
  WarmUp = TRUE
  MaxFires = 5
INVARIANTS Inv
PROPERTIES RestsWhenOpen EveryCallIsSettled RecoversWhenHealthy
CHECK_DEADLOCK FALSE
