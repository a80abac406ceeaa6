CONSTANTS
  RequireAuthorization = TRUE
  HoldEnabled = FALSE
  HoldMs <- MCOff
  WatchdogMs <- MCOff
  LeaseMs = 0
  AgeCap = 0
  Moving = {}
  Zero = zero
  Creep = zero
  Sequences = {}
  References = {0}
  SampleAges <- MCSampleAges
  Reporters = {"receive"}
SPECIFICATION FairLinkSpec
PROPERTIES GateLearnsOfReconnection
