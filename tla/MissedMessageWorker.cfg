SPECIFICATION Spec
CONSTANTS
  Events <- MCEvents
  e1 = e1
  e2 = e2
  e3 = e3
  NoEvent = NoEvent
  Users <- MCUsers
  Recipient <- MCRecipient
  MaxFaults = 2
CHECK_DEADLOCK FALSE
INVARIANT OneBatchPerUser
INVARIANT SentOnceWithoutFaults
