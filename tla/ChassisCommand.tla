--------------------------- MODULE ChassisCommand ---------------------------
(***************************************************************************)
(* The chassis exit of StandardRobotPpRos2Node: the gate together with     *)
(* send_robot_cmd_data_.data.speed_vector, both guarded by send_cmd_mutex_.*)
(* Every critical section that touches them is one action: the callbacks   *)
(* of cmd_vel, ExecutionCommand and emergency_stop, the locked half of     *)
(* setSerialLinkState, and the prologue and beat of the send thread.       *)
(***************************************************************************)
EXTENDS CmdVelGate

VARIABLES
  frame,    \* send_robot_cmd_data_.data.speed_vector
  sending   \* sendData has run its prologue

chassis_vars == <<gate_vars, frame, sending>>

\* The constructor: the struct is value-initialised, so stop is false.
ChassisInit ==
  /\ GateInit
  /\ frame = [v |-> Zero, stop |-> FALSE]
  /\ sending = FALSE

\* Mutant: the prologue resets the whole speed_vector, an asserted stop included.
SendInit_ClearsStop ==
  /\ ~sending /\ sending' = TRUE
  /\ frame' = [v |-> Zero, stop |-> FALSE]
  /\ UNCHANGED gate_vars

\* sendData's prologue zeroes the velocity and leaves stop as it was.
SendInit ==
  /\ ~sending /\ sending' = TRUE
  /\ frame' = [frame EXCEPT !.v = Zero]
  /\ UNCHANGED gate_vars

CmdVelCallback(v) ==
  /\ OnCmdVel(v)
  /\ frame' = CmdVelOutput(v)
  /\ UNCHANGED sending

\* A STOP writes a zero frame at once; an accepted EXECUTE leaves the frame alone.
ExecutionAccepted(execute, sequence, reference, age) ==
  /\ AcceptCommand(execute, sequence, reference, age)
  /\ frame' = IF execute THEN frame ELSE ZeroOutput
  /\ UNCHANGED sending

\* A refused sample, STOP or EXECUTE, also zeroes the frame.
ExecutionRefused(sequence, age) ==
  /\ RefuseCommand(sequence, age)
  /\ frame' = ZeroOutput
  /\ UNCHANGED sending

\* Mutant: the callback tells the gate and leaves the frame to the next beat.
EmergencyStopCallback_GateOnly(active) == OnEmergencyStop(active) /\ UNCHANGED <<frame, sending>>

EmergencyStopCallback(active) ==
  /\ OnEmergencyStop(active)
  /\ frame' = IF active THEN ZeroOutput ELSE frame
  /\ UNCHANGED sending

\* Mutant: the link loss is told to the gate alone.
LinkDown_GateOnly == OnSerialLinkDown /\ UNCHANGED <<frame, sending>>

\* setSerialLinkState, under the mutex.
LinkDown ==
  /\ OnSerialLinkDown
  /\ frame' = ZeroOutput
  /\ UNCHANGED sending

LinkUp ==
  /\ OnSerialLinkUp
  /\ UNCHANGED <<frame, sending>>

\* What the next beat of the send thread copies into its packet.
BeatOutput == IF TickOverrides THEN ZeroOutput ELSE frame

\* Mutant: the output of the tick is not applied.
SendBeat_KeepsFrame == sending /\ Tick /\ UNCHANGED <<frame, sending>>

SendBeat ==
  /\ sending
  /\ Tick
  /\ frame' = BeatOutput
  /\ UNCHANGED sending

TimePasses == PassTime /\ UNCHANGED <<frame, sending>>

Samples == [execute : BOOLEAN, sequence : Sequences, reference : References,
            age : SampleAges]

ExecutionCommandCallback(sample) ==
  \/ ExecutionAccepted(sample.execute, sample.sequence, sample.reference, sample.age)
  \/ ExecutionRefused(sample.sequence, sample.age)

ChassisNext ==
  \/ SendInit
  \/ \E v \in Commands : CmdVelCallback(v)
  \/ \E sample \in Samples : ExecutionCommandCallback(sample)
  \/ \E active \in BOOLEAN : EmergencyStopCallback(active)
  \/ LinkDown
  \/ LinkUp
  \/ SendBeat
  \/ TimePasses

ChassisSpec == ChassisInit /\ [][ChassisNext]_chassis_vars
-----------------------------------------------------------------------------
\* The type invariant of the chassis exit.
ChassisTypeOK == GateTypeOK /\ frame \in Outputs /\ sending \in BOOLEAN

\* The reasons to stand still, as the safety contract lists them
\* (cmd_vel_authorization.hpp:7-14), said of the state and not of the code.
MotionForbidden ==
  link_up = FALSE \/ TRUE \in {emergency_stop, execution_stop}
    \/ (RequireAuthorization /\ authorized = FALSE)

\* In every state, and not only at the next beat, a reason to stand still means a
\* zero velocity in the shared frame: no critical section that raises a reason
\* leaves the old velocity for another thread to copy.
ForbiddenFrameIsZero == MotionForbidden => frame.v = Zero

\* The frame moves the chassis only with the motion the gate remembers, so clearing
\* the gate and writing the frame never come apart.
FrameMotionIsRemembered ==
  frame.v \in Moving => has_nonzero /\ frame.v = last_nonzero

\* With the watchdog on, no beat carries a motion whose command is older than the
\* hold window plus the watchdog: jitter zeros restart the watchdog, and this
\* bounds what the two timeouts do together.
MotionLeaseMs == IF WatchdogMs > 0 THEN WatchdogMs + HoldWindow ELSE AgeCap
BeatMotionIsRecent == BeatOutput.v \in Moving => nonzero_age <= MotionLeaseMs

\* The exit implements the abstract motion lease.
Lease == INSTANCE MotionLease WITH
  Moving <- Moving, Rest <- Zero, Window <- HoldWindow, MaxAge <- MotionLeaseMs,
  permit <- ~MotionForbidden, motion <- BeatOutput.v, last <- last_nonzero, age <- nonzero_age

ImplementsMotionLease == Lease!Spec
=============================================================================
