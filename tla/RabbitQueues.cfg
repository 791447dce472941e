SPECIFICATION FairSpec
CONSTANTS
  NumNotices = 2
  NumUsers = 2
  NumHookJobs = 1
  Idle = {1}
  Prefetch = 2
  BatchSize = 2
  MAX_REQUEST_RETRIES = 1
  MaxFaults = 2
INVARIANTS
  TypeOK
  NothingForgotten
  OnceUnlessRepeated
  DeliveredInOrder
  OneConsumer
PROPERTIES
  EventuallySettled
CHECK_DEADLOCK FALSE
