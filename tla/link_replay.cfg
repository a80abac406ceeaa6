CONSTANTS
  RequireAuthorization = TRUE
  HoldEnabled = FALSE
  HoldMs <- MCOff
  WatchdogMs <- MCOff
  LeaseMs = 0
  AgeCap = 0
  Moving = {m1}
  Zero = zero
  Creep = zero
  Sequences = {0}
  References = {0}
  SampleAges <- MCSampleAges
  Reporters = {"receive"}
SPECIFICATION LinkSpec
PROPERTIES ReconnectNeverReplaysMotion
