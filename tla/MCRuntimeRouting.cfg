CONSTANTS
  Requests = {r1, r2}
  Writers = {w1, w2}
  Nil = Nil
  Settings <- SettingsSent
  Startup <- StartupSettings
  MaxInterval = 3
  MaxPercent = 100
  Modes = {"sync", "stream"}
  MaxDecisions = 5
SPECIFICATION Spec
INVARIANTS
  OneVersionPerRequest
  WarmUpNotStarved
SYMMETRY Symmetry
CHECK_DEADLOCK FALSE
