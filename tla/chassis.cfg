CONSTANTS
  RequireAuthorization = TRUE
  HoldEnabled <- MCHoldEnabled
  HoldMs <- MCHoldMs
  WatchdogMs <- MCWatchdogMs
  LeaseMs <- MCLeaseMs
  AgeCap = 4
  Moving = {m1, m2}
  Zero = zero
  Creep = creep
  Sequences = {0, 1, 2}
  References = {0}
  SampleAges <- MCSampleAges
  ModeRequests = {1, 7}
  FireRequests = {1}
SPECIFICATION FieldsSpec
INVARIANTS FieldsTypeOK NothingToHoldWhileBlocked RememberedMotionIsRecent ForbiddenFrameIsZero FrameMotionIsRemembered JitterCannotSustainMotion MotionNeedsExecute HaltLastsUntilCmdVel
PROPERTIES AuthorizationIsNeverReplayed ModeSettles ImplementsMotionLease
