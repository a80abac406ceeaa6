CONSTANTS
  RequireAuthorization = FALSE
  HoldEnabled = FALSE
  HoldMs <- MCOff
  WatchdogMs <- MCOff
  LeaseMs = 0
  AgeCap = 0
  Moving = {m1}
  Zero = zero
  Creep = zero
  Sequences = {0}
  References = {0}
  SampleAges <- MCSampleAges
  Reporters = {"receive"}
SPECIFICATION FairLinkSpec
INVARIANTS AtMostOneLateMotion ClosedPortIsDown
PROPERTIES ImplementsChassis ImplementsMotionLease EmergencyStopReachesWire LinkRecovers LossIsNoticed
