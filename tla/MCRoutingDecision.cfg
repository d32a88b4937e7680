CONSTANTS
  Nil = Nil
  MinSamples = 2
  SampleMaxAge = 4
  Width = 7
  Inputs <- DecisionInputs
SPECIFICATION Spec
INVARIANTS
  CostOrderStable
  LatencyOrderJustified
  ToleranceBeforePrice
CHECK_DEADLOCK FALSE
