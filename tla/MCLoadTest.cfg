SPECIFICATION Spec
CONSTANTS
  w1 = w1
  w2 = w2
  Setups <- LoadSetups
  Warmup = 1
  Offset = 2
INVARIANTS
  SamplesAccounted
  ReportExact
  VerifiedIsTrue
PROPERTIES
  RunEnds
CHECK_DEADLOCK FALSE
