SPECIFICATION FairSpec
CONSTANTS
  MaxEvents = 1
  MaxConns = 3
  MaxFaults = 2
  MaxBeatId = 2
PROPERTIES
  EventuallyApplied
CHECK_DEADLOCK FALSE
