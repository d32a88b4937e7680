SPECIFICATION FairSpec
CONSTANTS
  FailureThreshold = 2
  OpenDuration = 2
  Callers = {c1, c2, c3}
  None = None
  MaxGeneration = 8
INVARIANTS
  TrialExclusive
  ClosedBelowThreshold
  TransitionsBalance
PROPERTIES
  NeverLockedOut
  ImplementsBreaker
CHECK_DEADLOCK FALSE
