SPECIFICATION FairSpec
CONSTANTS
  q1 = q1 q2 = q2 q3 = q3 u1 = u1 u2 = u2 r1 = r1
  Queues = {q1, q2}
  Users = {u1}
  Realms = {r1}
  Owner <- MCOwner2
  RealmOf <- MCRealmOf
  Wide = {q2}
  Reloadable = {q1}
  MaxHandlers = 3
  NoQueue = NoQueue
INVARIANTS
  ListsMatchClients
  HandlersMatchDescriptors
  WaitersAreServed
  NoneStrandedUnlessZeroLeft
PROPERTIES
  LongPollsEnd
