CONSTANTS
  RequireAuthorization = TRUE
  HoldEnabled = TRUE
  HoldMs = 1
  WatchdogMs = 2
  LeaseMs = 3
  AgeCap = 4
  Moving = {m1, m2}
  Zero = zero
  Creep = creep
  Sequences = {0, 1}
  References = {0}
  SampleAges <- MCSampleAges
SPECIFICATION HistorySpec
INVARIANTS StopIsNotSwallowedByHold
