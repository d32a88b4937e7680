SPECIFICATION MSpec
CONSTANTS
  Records = {x1, x2, x3}
  Capacity = 2
  Nothing = Nothing
INVARIANTS
  AbandonedCounted
CHECK_DEADLOCK FALSE
