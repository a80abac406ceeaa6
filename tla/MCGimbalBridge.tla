--------------------------- MODULE MCGimbalBridge ---------------------------
(* A small instance of the gimbal bridge over the serial link for TLC.  The   *)
(* chassis gets no commands: the other runs are about it.                     *)
EXTENDS GimbalBridge

\* A timeout that is switched off.
MCOff == -1
=============================================================================
