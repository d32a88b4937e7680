CONSTANTS
  Documents <- MCDocuments
  EventTypes <- MCEventTypes
  MaxEventSize = 3
  MaxUint64 = 3
  MaxLines = 6
  Nil = Nil
  NoUsage = NoUsage
SPECIFICATION Spec
INVARIANTS
  CompletionIsEarned
  OneResponse
  UsageIsLatest
  NothingLeaks
CHECK_DEADLOCK FALSE
