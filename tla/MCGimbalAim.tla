---------------------------- MODULE MCGimbalAim ----------------------------
(* A small instance of the gimbal manager and its topic for TLC.              *)
EXTENDS GimbalAim

Angle(n) == [type |-> "angle", angle |-> n, velocity |-> 0, min |-> 0, max |-> 0]
Sweep(velocity, min, max) ==
  [type |-> "sweep", angle |-> 0, velocity |-> velocity, min |-> min, max |-> max]
Unknown == [type |-> "unknown", angle |-> 0, velocity |-> 0, min |-> 0, max |-> 0]

\* Sweeps in both directions, over part of a turn and over a full one, and aims.
MCCommands ==
  {[pitch |-> Sweep(1, 0, 2), yaw |-> Angle(-2)],
   [pitch |-> Sweep(1, 0, 2), yaw |-> Sweep(-1, -2, 2)],
   [pitch |-> Angle(-1), yaw |-> Sweep(1, -1, 1)],
   [pitch |-> Angle(1), yaw |-> Unknown]}

\* Another node aims one joint, or sends arrays of different sizes.
MCForeign ==
  {[name |-> <<"yaw", "other">>, position |-> <<1, 2>>],
   [name |-> <<"pitch", "yaw">>, position |-> <<7>>]}

MCLowest == -2

\* The clock is set back by one period and by two.
MCClockSteps == {0, -1}
=============================================================================
