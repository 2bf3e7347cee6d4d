CONSTANTS
  t1 = t1
  Callers = {t1}
  HasKey = TRUE
  Honest = TRUE
  Flaky = FALSE
  Poison = FALSE
  Overlap = {}
  MaxSends = 2
  MaxPackets = 2
  MaxDrops = 1
  MaxCancels = 0
SPECIFICATION Spec
INVARIANTS
  LockReleased
\* Calls, packets and links are bounded: the system may stop.
CHECK_DEADLOCK FALSE
