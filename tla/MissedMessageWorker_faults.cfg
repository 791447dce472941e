SPECIFICATION FairSpec
CONSTANTS
  Events <- MCTwoEvents
  e1 = e1
  e2 = e2
  e3 = e3
  NoEvent = NoEvent
  Users <- MCUsers
  Recipient <- MCTwoRecipient
  MaxFaults = 3
CHECK_DEADLOCK FALSE
INVARIANT NoLostWakeup
INVARIANT ProcessedUnlessLate
PROPERTY EventuallySettled
PROPERTY StopEndsUnlessLocked
