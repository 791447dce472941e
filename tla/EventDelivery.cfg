SPECIFICATION FairSpec
CONSTANTS
  MaxEvents = 2
  MaxConns = 3
  MaxFaults = 2
  MaxBeatId = 2
INVARIANTS
  EachEventInOnePlace
  NeverRejected

  
CHECK_DEADLOCK FALSE
