SPECIFICATION Spec
CONSTANTS
  FailureThreshold = 2
  OpenDuration = 3
  MaxUint64 = 31
  TokensPerMillion = 4
  Nil = Nil
  NoUsage = NoUsage
  Capacity = 2
  FailureOutcomes = {"timeout", "unavailable", "rate_limited", "internal"}
  Scenarios <- Benchmarks
  MinSamples = 1
  SampleMaxAge = 3
  ExplorationInterval = 2
  Percent = 50
  Width = 7
  Gap = 1
  Millisecond = 2
INVARIANTS
  AttemptsAgree
  ExplorationAgrees
  FailuresContained
  ReportAgrees
  FiguresExactOrFlagged
CHECK_DEADLOCK FALSE
