--------------------------- MODULE ChassisHistory ---------------------------
(***************************************************************************)
(* The chassis exit with history variables, for the promises that speak of *)
(* what happened before: which revocations no EXECUTE has answered,        *)
(* whether a STOP came after the last cmd_vel that asked for motion, how   *)
(* long ago that was, and whether the exit has been told to stand still    *)
(* since a cmd_vel was last let through.  The history never constrains a   *)
(* step.                                                                   *)
(***************************************************************************)
EXTENDS ChassisCommand

VARIABLES
  unanswered,  \* causes of revocation that no accepted EXECUTE has followed
  stopped,     \* a MODE_STOP came since the last non-zero cmd_vel
  motion_age,  \* ms since a cmd_vel last asked for motion, up to AgeCap
  halted       \* told to stand still, and no cmd_vel has been let through since

history_vars == <<unanswered, stopped, motion_age, halted>>

Causes == {"start", "stop", "emergency", "link"}

HistoryInit ==
  /\ ChassisInit
  /\ unanswered = {"start"}
  /\ stopped = FALSE /\ motion_age = AgeCap /\ halted = FALSE

Authorizes(sample) == sample.execute /\ link_up

AcceptedWithHistory(sample) ==
  /\ ExecutionAccepted(sample.execute, sample.sequence, sample.reference, sample.age)
  /\ unanswered' = IF Authorizes(sample) THEN {}
                   ELSE unanswered \cup (IF sample.execute THEN {} ELSE {"stop"})
  /\ stopped' = (stopped \/ ~sample.execute)
  /\ halted' = (halted \/ ~sample.execute)
  /\ UNCHANGED motion_age

RefusedWithHistory(sample) ==
  /\ ExecutionRefused(sample.sequence, sample.age)
  /\ stopped' = (stopped \/ ~sample.execute)
  /\ halted' = TRUE
  /\ UNCHANGED <<unanswered, motion_age>>

CmdVelWithHistory(v) ==
  /\ CmdVelCallback(v)
  /\ stopped' = (stopped /\ IsZero(v))
  /\ motion_age' = IF IsZero(v) THEN motion_age ELSE 0
  /\ halted' = MotionForbidden
  /\ UNCHANGED unanswered

EmergencyStopWithHistory(active) ==
  /\ EmergencyStopCallback(active)
  /\ unanswered' = IF active THEN unanswered \cup {"emergency"} ELSE unanswered
  /\ halted' = (halted \/ active)
  /\ UNCHANGED <<stopped, motion_age>>

LinkDownWithHistory ==
  /\ LinkDown
  /\ unanswered' = unanswered \cup {"link"}
  /\ halted' = TRUE
  /\ UNCHANGED <<stopped, motion_age>>

TimePassesWithHistory ==
  /\ TimePasses
  /\ motion_age' = Older(motion_age)
  /\ UNCHANGED <<unanswered, stopped, halted>>

\* A beat halts the chassis when motion is forbidden or the last cmd_vel is too old.
SendBeatWithHistory ==
  /\ SendBeat
  /\ halted' = (halted \/ MotionForbidden \/ WatchdogExpired)
  /\ UNCHANGED <<unanswered, stopped, motion_age>>

HistoryNext ==
  \/ \E sample \in Samples : AcceptedWithHistory(sample)
  \/ \E sample \in Samples : RefusedWithHistory(sample)
  \/ \E v \in Commands : CmdVelWithHistory(v)
  \/ \E active \in BOOLEAN : EmergencyStopWithHistory(active)
  \/ LinkDownWithHistory
  \/ TimePassesWithHistory
  \/ SendBeatWithHistory
  \/ (LinkUp \/ SendInit) /\ UNCHANGED history_vars

HistorySpec == HistoryInit /\ [][HistoryNext]_<<chassis_vars, history_vars>>
-----------------------------------------------------------------------------
\* After a start, a STOP, an emergency stop or a link loss the chassis stands still
\* until an EXECUTE is accepted over a link that is up: neither clearing the
\* emergency stop nor reconnecting is enough (cmd_vel_authorization.hpp:12-14).
MotionNeedsExecute == unanswered # {} => BeatOutput.v = Zero

\* With the watchdog on, no beat carries a motion unless cmd_vel asked for one within
\* the watchdog plus one hold window: a stream of jitter zeros feeds the watchdog but
\* cannot keep the chassis moving (cmd_vel_authorization.hpp:10-11).
JitterCannotSustainMotion == BeatOutput.v \in Moving => motion_age <= MotionLeaseMs

\* No zero that follows a STOP is answered with an earlier motion
\* (cmd_vel_authorization.hpp:7-9: a STOP is never swallowed by the hold window).
StopIsNotSwallowedByHold == stopped => BeatOutput.v = Zero

\* A halt is undone by a cmd_vel and by nothing else: once the exit has been told to
\* stand still, every beat asks the MCU to stop (and not merely for a velocity of
\* zero), until a cmd_vel is let through.  No accepted EXECUTE, cleared emergency stop,
\* reconnection, time or late start of the send thread, whose prologue writes the same
\* struct (sendData, lines 1051-1064), lifts the stop, in any profile.
HaltLastsUntilCmdVel == halted => BeatOutput = ZeroOutput
=============================================================================
