CONSTANTS
  t1 = t1
  Callers = {t1}
  HasKey = TRUE
  Honest = TRUE
  Flaky = FALSE
  Poison = FALSE
  Overlap = {}
  MaxSends = 1
  MaxPackets = 0
  MaxDrops = 1
  MaxCancels = 0
SPECIFICATION Spec
INVARIANTS
  SendTransmits
\* Calls, packets and links are bounded: the system may stop.
CHECK_DEADLOCK FALSE
