SPECIFICATION MFairSpec
CONSTANTS
  Records = {x1, x2, x3}
  Capacity = 1
  Nothing = Nothing
INVARIANTS
  NoSendOnClosed
  CountersBalance
PROPERTIES
  AcceptedIsReported
  ExitReached
CHECK_DEADLOCK FALSE
