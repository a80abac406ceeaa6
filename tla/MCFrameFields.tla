--------------------------- MODULE MCFrameFields ---------------------------
(* A small instance of the chassis exit and its frame for TLC.  The timeouts  *)
(* are what getParams makes of a watchdog that is slacker than the lease.     *)
EXTENDS FrameFields, ExitConfig

MCConfig == GateConfig(TRUE, 1, 9, 2)
MCHoldEnabled == MCConfig.hold_enabled
MCHoldMs == MCConfig.hold
MCWatchdogMs == MCConfig.watchdog
MCLeaseMs == MCConfig.lease

\* A sample that has just been sent, the oldest accepted one and one too old.
MCSampleAges == {0, LeaseMs, LeaseMs + 1}
=============================================================================
