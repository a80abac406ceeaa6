CONSTANTS
  RequireAuthorization = TRUE
  HoldEnabled = FALSE
  HoldMs <- MCOff
  WatchdogMs <- MCOff
  LeaseMs = 0
  AgeCap = 0
  Moving = {}
  Zero = zero
  Creep = zero
  Sequences = {}
  References = {}
  SampleAges = {}
  Reporters = {"gimbal"}
  FireInhibit = TRUE
  GimbalTimeoutMs = 1
  GimbalCommands = {4}
SPECIFICATION FairBridgeSpec
INVARIANTS BridgeTypeOK AtMostOneLateFire
PROPERTIES ImplementsLink GimbalFallsSilent EmergencyStopEndsFire
