-------------------------- MODULE MCChassisHistory --------------------------
(* Small instances of the chassis exit and its history for TLC.               *)
EXTENDS ChassisHistory

\* A sample that has just been sent, the oldest accepted one and one too old.
MCSampleAges == {0, LeaseMs, LeaseMs + 1}
=============================================================================
