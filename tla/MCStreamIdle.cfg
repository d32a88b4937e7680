CONSTANTS
  Timeout = 3
  MaxPending = 2
SPECIFICATION FairSpec
PROPERTIES
  NeverFiresEarly
  EveryWaitEnds
CHECK_DEADLOCK FALSE
