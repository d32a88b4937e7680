SPECIFICATION Spec
CONSTANTS
  FailureThreshold = 1
  OpenDuration = 1
  Requests = {r1, r2, r3}
  p1 = p1
  p2 = p2
  p3 = p3
  Nobody = Nobody
  Services <- AllServices
SYMMETRY Symmetry
INVARIANTS
  FallbackJustified
  RecordConsistent
  TrialsAccounted
PROPERTIES
  CancellationNeutral
  HandlersEnd
  ImplementsChatRequest
CHECK_DEADLOCK FALSE
