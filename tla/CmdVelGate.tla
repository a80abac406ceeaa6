----------------------------- MODULE CmdVelGate -----------------------------
(***************************************************************************)
(* CmdVelAuthorizationGate (cmd_vel_authorization.hpp): decides, for every *)
(* cmd_vel and for every 5 ms beat of the send thread, whether the chassis *)
(* may move.  The caller serialises the methods with one mutex, so each    *)
(* method is one action.                                                   *)
(*                                                                         *)
(* Abstractions.  A velocity triple is one value: a member of Moving (some *)
(* component is beyond its epsilon, NaN included), Zero, or Creep (not     *)
(* zero, but every component within its epsilon).  The two steady_clock    *)
(* stamps are ages in the whole milliseconds duration_cast yields; they    *)
(* stop growing at AgeCap, past every threshold.  Reason codes only feed   *)
(* log lines and are left out.                                             *)
(***************************************************************************)
EXTENDS Integers

CONSTANTS
  RequireAuthorization,  \* config_.require_execution_authorization
  HoldEnabled,           \* config_.enable_transient_zero_cmd_hold
  HoldMs,                \* config_.transient_zero_cmd_hold_timeout
  WatchdogMs,            \* config_.cmd_vel_watchdog_timeout
  LeaseMs,               \* config_.execution_command_timeout
  Moving, Zero, Creep,   \* velocity commands, see above
  Sequences,             \* bound: the command_sequence values upstream uses
  References,            \* (localization_epoch, map_generation) pairs
  SampleAges,            \* header ages, in ms, of ExecutionCommand samples
  AgeCap                 \* bound: ages are counted up to here

\* getParams leaves the timeouts in this order.
ASSUME ConfigAssumption ==
  /\ RequireAuthorization \in BOOLEAN /\ HoldEnabled \in BOOLEAN
  /\ HoldMs \in Int /\ WatchdogMs \in Int /\ LeaseMs \in Int
  /\ WatchdogMs <= LeaseMs
  /\ HoldEnabled => HoldMs < WatchdogMs

ASSUME InputAssumption ==
  /\ Zero \notin Moving /\ Creep \notin Moving
  /\ Sequences \subseteq Nat /\ References \subseteq Nat
  /\ SampleAges \subseteq Nat

\* How long a zero may be answered with the last motion.
HoldWindow == IF HoldEnabled /\ HoldMs > 0 THEN HoldMs ELSE 0

ASSUME AgeCapAssumption ==
  /\ AgeCap \in Nat /\ AgeCap > HoldMs /\ AgeCap > WatchdogMs + HoldWindow

VARIABLES
  link_up, authorized, emergency_stop, execution_stop,
  last_sequence,   \* last_command_sequence_, NoSequence before the first
  last_reference,  \* last_localization_epoch_ and last_map_generation_
  has_cmd, has_nonzero, last_nonzero,
  cmd_age,         \* now - last_cmd_time_
  nonzero_age      \* now - last_nonzero_time_

permission_vars == <<link_up, authorized, emergency_stop, execution_stop>>
reference_vars == <<last_sequence, last_reference>>
command_vars == <<has_cmd, has_nonzero, last_nonzero, cmd_age, nonzero_age>>
gate_vars == <<permission_vars, reference_vars, command_vars>>

NoSequence == -1
Commands == Moving \cup {Zero, Creep}
Ages == 0..AgeCap

\* CmdVelGateOutput: the velocity and speed_vector.stop.
Outputs == [v : Commands, stop : BOOLEAN]
ZeroOutput == [v |-> Zero, stop |-> TRUE]
-----------------------------------------------------------------------------
\* The gate as getParams leaves it: configured, then onSerialLinkDown().
GateInit ==
  /\ link_up = FALSE /\ authorized = FALSE
  /\ emergency_stop = FALSE /\ execution_stop = FALSE
  /\ last_sequence = NoSequence /\ last_reference = 0
  /\ has_cmd = FALSE /\ has_nonzero = FALSE /\ last_nonzero = Zero
  /\ cmd_age = AgeCap /\ nonzero_age = AgeCap

\* The three early returns onCmdVel and tick share.
Blocked ==
  \/ ~link_up
  \/ emergency_stop \/ execution_stop
  \/ RequireAuthorization /\ ~authorized

\* Mutant: freshness alone, any sequence is accepted.
Accepts_AnySequence(sequence, age) == age <= LeaseMs

Accepts(sequence, age) == age <= LeaseMs /\ sequence > last_sequence

\* Mutant: an EXECUTE received while the link is down counts.
AcceptCommand_Offline(execute, sequence, reference, age) ==
  /\ Accepts(sequence, age)
  /\ last_sequence' = sequence /\ last_reference' = reference
  /\ execution_stop' = ~execute /\ authorized' = execute
  /\ has_nonzero' = (execute /\ has_nonzero)
  /\ UNCHANGED <<link_up, emergency_stop, has_cmd, last_nonzero, cmd_age, nonzero_age>>

\* onExecutionCommand, the sample is used.
AcceptCommand(execute, sequence, reference, age) ==
  /\ Accepts(sequence, age)
  /\ last_sequence' = sequence
  /\ last_reference' = reference
  /\ execution_stop' = ~execute
  /\ authorized' = (execute /\ link_up)
  /\ has_nonzero' = (execute /\ has_nonzero)
  /\ UNCHANGED <<link_up, emergency_stop, has_cmd, last_nonzero, cmd_age, nonzero_age>>

\* onExecutionCommand, the sample is too old or its sequence is not new.
RefuseCommand(sequence, age) ==
  /\ ~Accepts(sequence, age)
  /\ UNCHANGED gate_vars

\* Mutant: the emergency stop forgets the remembered motion.
OnEmergencyStop_KeepsMotion(active) ==
  /\ emergency_stop' = active
  /\ authorized' = (authorized /\ ~active)
  /\ UNCHANGED <<link_up, execution_stop, reference_vars, command_vars>>

OnEmergencyStop(active) ==
  /\ emergency_stop' = active
  /\ authorized' = (authorized /\ ~active)
  /\ has_nonzero' = (has_nonzero /\ ~active)
  /\ UNCHANGED <<link_up, execution_stop, reference_vars, has_cmd, last_nonzero,
                 cmd_age, nonzero_age>>

OnSerialLinkDown ==
  /\ link_up' = FALSE /\ authorized' = FALSE
  /\ has_nonzero' = FALSE /\ has_cmd' = FALSE
  /\ UNCHANGED <<emergency_stop, execution_stop, reference_vars, last_nonzero,
                 cmd_age, nonzero_age>>

OnSerialLinkUp ==
  /\ link_up' = TRUE
  /\ UNCHANGED <<authorized, emergency_stop, execution_stop, reference_vars, command_vars>>

IsZero(v) == v \notin Moving

\* Mutant: the hold has no window.
Holds_Unbounded(v) == IsZero(v) /\ HoldEnabled /\ has_nonzero /\ HoldMs > 0

\* A zero that is taken for jitter and answered with the last motion.
Holds(v) == IsZero(v) /\ HoldEnabled /\ has_nonzero /\ HoldMs > 0 /\ nonzero_age <= HoldMs

CmdVelOutput(v) ==
  IF Blocked THEN ZeroOutput
  ELSE [v |-> IF ~IsZero(v) THEN v ELSE IF Holds(v) THEN last_nonzero ELSE Zero,
        stop |-> FALSE]

ForwardsMotion(v) == ~Blocked /\ ~IsZero(v)

\* Mutant: a hold refreshes the stamp of the motion it repeats.
OnCmdVel_HoldRefreshes(v) ==
  /\ has_cmd' = TRUE /\ cmd_age' = 0
  /\ has_nonzero' = (~Blocked /\ (~IsZero(v) \/ Holds(v)))
  /\ last_nonzero' = IF ForwardsMotion(v) THEN v ELSE last_nonzero
  /\ nonzero_age' = IF has_nonzero' THEN 0 ELSE nonzero_age
  /\ UNCHANGED <<permission_vars, reference_vars>>

OnCmdVel(v) ==
  /\ has_cmd' = TRUE /\ cmd_age' = 0
  /\ has_nonzero' = (~Blocked /\ (~IsZero(v) \/ Holds(v)))
  /\ last_nonzero' = IF ForwardsMotion(v) THEN v ELSE last_nonzero
  /\ nonzero_age' = IF ForwardsMotion(v) THEN 0 ELSE nonzero_age
  /\ UNCHANGED <<permission_vars, reference_vars>>

WatchdogExpired == has_cmd /\ WatchdogMs > 0 /\ cmd_age > WatchdogMs

\* tick() returns true: the beat must carry ZeroOutput.
TickOverrides == Blocked \/ WatchdogExpired

Tick ==
  /\ has_nonzero' = (has_nonzero /\ (Blocked \/ ~WatchdogExpired))
  /\ UNCHANGED <<permission_vars, reference_vars, has_cmd, last_nonzero, cmd_age, nonzero_age>>

Older(age) == IF age < AgeCap THEN age + 1 ELSE AgeCap

PassTime ==
  /\ cmd_age' = Older(cmd_age)
  /\ nonzero_age' = Older(nonzero_age)
  /\ UNCHANGED <<permission_vars, reference_vars, has_cmd, has_nonzero, last_nonzero>>

GateNext ==
  \/ \E execute \in BOOLEAN, sequence \in Sequences, reference \in References,
        age \in SampleAges : AcceptCommand(execute, sequence, reference, age)
  \/ \E sequence \in Sequences, age \in SampleAges : RefuseCommand(sequence, age)
  \/ \E active \in BOOLEAN : OnEmergencyStop(active)
  \/ OnSerialLinkDown
  \/ OnSerialLinkUp
  \/ \E v \in Commands : OnCmdVel(v)
  \/ Tick
  \/ PassTime

GateSpec == GateInit /\ [][GateNext]_gate_vars
-----------------------------------------------------------------------------
\* The type invariant of the gate.
GateTypeOK ==
  /\ link_up \in BOOLEAN /\ authorized \in BOOLEAN
  /\ emergency_stop \in BOOLEAN /\ execution_stop \in BOOLEAN
  /\ last_sequence \in Sequences \cup {NoSequence}
  /\ last_reference \in References \cup {0}
  /\ has_cmd \in BOOLEAN /\ has_nonzero \in BOOLEAN /\ last_nonzero \in Commands
  /\ cmd_age \in Ages /\ nonzero_age \in Ages

\* What the gate remembers of an earlier motion never survives a revocation:
\* while any reason to stand still is in force there is nothing a hold could
\* bring back, whichever method raised the reason (cmd_vel_authorization.hpp:7-11).
NothingToHoldWhileBlocked == Blocked => ~has_nonzero

\* A remembered motion was really commanded, and no more than one hold window
\* before the latest cmd_vel: a run of jitter zeros cannot stretch the window it
\* lives in (onCmdVel does not refresh last_nonzero_time_ when it holds).
RememberedMotionIsRecent ==
  has_nonzero =>
    /\ has_cmd /\ last_nonzero \in Moving
    /\ cmd_age <= nonzero_age /\ nonzero_age <= cmd_age + HoldWindow

\* Authorization comes back only over a link that is up and only with a sequence
\* never used before, so neither a reconnection nor a redelivered sample restores
\* it (cmd_vel_authorization.hpp:12-13).
AuthorizationIsNeverReplayed ==
  [][~authorized /\ authorized' => link_up /\ last_sequence' > last_sequence]_gate_vars

\* A later sample never lowers the sequence floor, also across a link loss: what was
\* refused once stays refused.
SequenceFloorNeverDrops == [][last_sequence' >= last_sequence]_gate_vars
=============================================================================
