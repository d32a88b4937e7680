CONSTANTS
  Clients = {c1, c2}
  Keys = {k1, k2, k3, k4}
  NoCookie = NoCookie
  MaxSessions = 2
  MaxLogins = 2
  Window = 2
  TTL = 2
  MaxTime = 5
SPECIFICATION Spec
INVARIANTS
  SessionsEnd
SYMMETRY Symmetry
CHECK_DEADLOCK FALSE
