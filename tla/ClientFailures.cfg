CONSTANTS
  t1 = t1
  t2 = t2
  Callers = {t1, t2}
  HasKey = TRUE
  Honest = TRUE
  Flaky = TRUE
  Poison = FALSE
  Overlap = {"send"}
  MaxSends = 2
  MaxPackets = 0
  MaxDrops = 1
  MaxCancels = 1
SPECIFICATION Spec
SYMMETRY Symmetry
INVARIANTS
  MutualExclusion
  AtMostOnce
  NonceFresh
CONSTRAINT FewTroubles
PROPERTIES
  Delivers
\* Calls, packets and links are bounded: the system may stop.
CHECK_DEADLOCK FALSE
