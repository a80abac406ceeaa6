CONSTANTS
  JointTimeoutMs = 2
  TfTimeoutMs = 3
  LockDwellMs = 2
  SlowMs = 2
  AllowBodyYawFollow = FALSE
  PublishMs = 1
  LeaseMs = 4
  AgeCap = 4
  Positions = 4
  Authorities = {}
  Sequences = {}
  TfFaults = {"stale"}
SPECIFICATION YawSpec
INVARIANTS TfHealthyIsFresh
