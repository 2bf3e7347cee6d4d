CONSTANTS
  t1 = t1
  t2 = t2
  Callers = {t1, t2}
  HasKey = TRUE
  Honest = TRUE
  Flaky = FALSE
  Poison = FALSE
  Overlap = {}
  MaxSends = 2
  MaxPackets = 2
  MaxDrops = 0
  MaxCancels = 0
SPECIFICATION FairSpec
PROPERTIES
  CallsEnd
  StatesHandled
\* Calls, packets and links are bounded: the system may stop.
CHECK_DEADLOCK FALSE
