CONSTANTS
  JointTimeoutMs <- MCJointTimeoutMs
  TfTimeoutMs <- MCTfTimeoutMs
  LockDwellMs <- MCLockDwellMs
  SlowMs = 2
  AllowBodyYawFollow = FALSE
  PublishMs = 2
  LeaseMs = 5
  AgeCap = 5
  Positions = 2
  Authorities <- MCAuthorities
  Sequences = {1, 2}
  TfFaults = {"fail", "stale"}
SPECIFICATION FairYawSpec
INVARIANTS YawTypeOK AckAnswersItsRequest AckNeverOutlivesFeedback
PROPERTIES RestIsAcknowledged
