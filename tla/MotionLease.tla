----------------------------- MODULE MotionLease -----------------------------
(***************************************************************************)
(* What the chassis exit promises, without the gate: motion needs a        *)
(* permit, losing the permit stops the motion in the same step, getting    *)
(* the permit starts none, and a motion outlives the command that asked    *)
(* for it by at most MaxAge milliseconds.                                  *)
(***************************************************************************)
EXTENDS Integers

CONSTANTS Moving, Rest,
          Window,   \* a lapse no longer than this may bring the last motion back
          MaxAge    \* no motion is older than this

VARIABLES permit,   \* may the chassis move
          motion,   \* what the next frame asks of the chassis
          last,     \* the last motion commanded
          age       \* its age

lease_vars == <<permit, motion, last, age>>

Init == permit = FALSE /\ motion = Rest /\ last = Rest /\ age \in Nat

Grant ==
  /\ ~permit /\ motion = Rest
  /\ permit' = TRUE
  /\ UNCHANGED <<motion, last, age>>

Revoke ==
  /\ permit' = FALSE /\ motion' = Rest
  /\ UNCHANGED <<last, age>>

Drive ==
  /\ permit
  /\ motion' \in Moving /\ last' = motion' /\ age' = 0
  /\ UNCHANGED permit

Resume ==
  /\ permit /\ last \in Moving /\ age <= Window
  /\ motion' = last
  /\ UNCHANGED <<permit, last, age>>

Halt ==
  /\ motion' = Rest
  /\ UNCHANGED <<permit, last, age>>

Elapse ==
  /\ age' \in {age, age + 1}
  /\ motion' \in {motion, Rest}
  /\ motion' # Rest => age' <= MaxAge
  /\ UNCHANGED <<permit, last>>

Next == Grant \/ Revoke \/ Drive \/ Resume \/ Halt \/ Elapse

Spec == Init /\ [][Next]_lease_vars
=============================================================================
