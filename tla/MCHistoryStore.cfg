SPECIFICATION Spec
CONSTANTS
  p1 = p1
  p2 = p2
  Processes = {p1, p2}
  Release <- Releases
  Free = Free
  Records <- Requests
  Data <- RequestData
  Nothing = Nothing
  Filters <- ListQueries
  PageSizes = {2}
  Microsecond = 2
  MaxInt64 = 7
  MaxDetailAttempts = 1
INVARIANTS
  MigrationsSerialize
  RecordsWhole
  PagesComplete
PROPERTIES
  NewerRefused
CHECK_DEADLOCK FALSE
