CONSTANTS
  i1 = i1
  i2 = i2
  Instances = {i1, i2}
  None = None
  Torn = Torn
  Orphan = Orphan
  RenewUnderId = TRUE
  MaxCalls = 3
  MaxEvents = 2
SPECIFICATION Spec
SYMMETRY Symmetry
INVARIANTS
  TypeOK
  CacheExclusive
  AnswerIsFresh
  RetryHeals
  RenewedKey
\* Calls are bounded: the system may stop.
CHECK_DEADLOCK FALSE
