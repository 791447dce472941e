SPECIFICATION Spec
CONSTANTS
  Messages = {m1, m2}
  Flag = "starred"
  Workers = 2
  MaxUpdates = 4
INVARIANTS
  ConvergesUnlessCrossed
CHECK_DEADLOCK FALSE
