CONSTANTS
  t1 = t1
  t2 = t2
  Callers = {t1, t2}
  HasKey = FALSE
  Honest = TRUE
  Flaky = FALSE
  Poison = FALSE
  Overlap = {"disconnect"}
  MaxSends = 3
  MaxPackets = 2
  MaxDrops = 0
  MaxCancels = 0
SPECIFICATION Spec
SYMMETRY Symmetry
INVARIANTS
  SessionAgreed
  RightHandler
\* Calls, packets and links are bounded: the system may stop.
CHECK_DEADLOCK FALSE
