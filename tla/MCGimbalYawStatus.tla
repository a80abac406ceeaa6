-------------------------- MODULE MCGimbalYawStatus --------------------------
(* Small instances of the yaw acknowledgement for TLC.  The timeouts of the   *)
(* passing run are what the constructor makes of a joint state timeout beyond *)
(* the TF timeout; its publish period is not below the joint state timeout.   *)
EXTENDS GimbalYawStatus, ExitConfig

MCConfig == YawConfig(2, 1, 2)
MCJointTimeoutMs == MCConfig.joint
MCTfTimeoutMs == MCConfig.tf
MCLockDwellMs == MCConfig.dwell

\* The three modes of the message, and one it does not define.
MCAuthorities == {GIMBAL_COMPENSATED, BODY_YAW_FOLLOW, 3}
=============================================================================
