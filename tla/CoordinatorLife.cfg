CONSTANTS
  k1 = k1
  k2 = k2
  Commands = {k1, k2}
  LossReports = {TRUE, FALSE}
  InitialDelay = 5
  MaxDelay = 10
  MaxLinks = 2
  MaxCoords = 2
  MaxCalls = 2
  MaxFaults = 2
SPECIFICATION FairSpec
INVARIANTS
  TypeOK
  OneInside
  ShutdownFinal
  DataIsCurrent
PROPERTIES
  CommandsEnd
  SetupEnds
\* Commands, faults and set-ups are bounded: the system may stop.
CHECK_DEADLOCK FALSE
