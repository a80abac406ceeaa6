----------------------------- MODULE ExitConfig -----------------------------
(***************************************************************************)
(* What the two nodes make of the timeouts they are given: the end of      *)
(* getParams for the chassis exit, the constructor of                      *)
(* GimbalYawStatusBridgeNode for the acknowledgement.  Timeouts are whole  *)
(* milliseconds, as after the casts; the arguments are any integers.       *)
(***************************************************************************)
EXTENDS Integers

\* A watchdog slacker than the lease is tightened to it.
TightenedWatchdog(watchdog, lease) == IF watchdog > lease THEN lease ELSE watchdog

\* A hold that is not below the watchdog in force is switched off.
HoldSurvives(enabled, hold, watchdog, lease) ==
  enabled /\ hold < TightenedWatchdog(watchdog, lease)

\* The gate's configuration, from the parameters.
GateConfig(enabled, hold, watchdog, lease) ==
  [hold_enabled |-> HoldSurvives(enabled, hold, watchdog, lease), hold |-> hold,
   watchdog |-> TightenedWatchdog(watchdog, lease), lease |-> lease]

AtLeastOne(n) == IF n < 1 THEN 1 ELSE n

\* The yaw node: a joint state timeout beyond the TF timeout raises the TF timeout.
YawConfig(joint, tf, dwell) ==
  [joint |-> AtLeastOne(joint),
   tf |-> IF AtLeastOne(joint) > AtLeastOne(tf) THEN AtLeastOne(joint) ELSE AtLeastOne(tf),
   dwell |-> IF dwell < 0 THEN 0 ELSE dwell]
=============================================================================
