CONSTANTS
  t1 = t1
  t2 = t2
  Callers = {t1, t2}
  HasKey = TRUE
  Honest = FALSE
  Flaky = FALSE
  Poison = FALSE
  Overlap = {}
  MaxSends = 3
  MaxPackets = 2
  MaxDrops = 0
  MaxCancels = 0
SPECIFICATION Spec
SYMMETRY Symmetry
INVARIANTS
  TypeOK
  RightHandler
  RespondsToThisHello
  InOrder
  LockReleased
  WholeOrGone
\* Calls, packets and links are bounded: the system may stop.
CHECK_DEADLOCK FALSE
