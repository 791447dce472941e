SPECIFICATION Spec
CONSTANTS
  q1 = q1 q2 = q2 q3 = q3 q4 = q4 q5 = q5 m1 = m1
  Messages = {m1}
  Queues <- Clients
  Listening <- ClientsListening
  MaxMentions = 3
SYMMETRY TabSymmetry
CHECK_DEADLOCK FALSE
INVARIANT TypeOK
INVARIANT NotifiedAtMostOnce
INVARIANT MissedIsNotified
