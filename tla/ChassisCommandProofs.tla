------------------------ MODULE ChassisCommandProofs ------------------------
(***************************************************************************)
(* The gate's invariants and action properties, for every configuration    *)
(* getParams can leave behind and any set of inputs; and the chassis exit, *)
(* which keeps the gate's promises, keeps the frame in step with the gate, *)
(* and implements the motion lease, with and without execution             *)
(* authorization.                                                          *)
(***************************************************************************)
EXTENDS ChassisCommand, ExitConfig, TLAPS

-----------------------------------------------------------------------------
(* The gate *)

\* What getParams leaves is in the order ConfigAssumption asks for, whatever the
\* parameters are.  It also shows when the watchdog is on: a lease of zero or less, which
\* only tightens it, switches it off.
THEOREM GateConfigIsOrdered ==
  ASSUME NEW enabled \in BOOLEAN, NEW hold \in Int, NEW watchdog \in Int, NEW lease \in Int
  PROVE  LET config == GateConfig(enabled, hold, watchdog, lease)
         IN  /\ config.watchdog <= config.lease
             /\ config.hold_enabled => config.hold < config.watchdog
             /\ config.watchdog > 0 <=> watchdog > 0 /\ lease > 0
<1> DEFINE config == GateConfig(enabled, hold, watchdog, lease)
<1>1. /\ config.hold_enabled = HoldSurvives(enabled, hold, watchdog, lease)
      /\ config.hold = hold /\ config.lease = lease
      /\ config.watchdog = TightenedWatchdog(watchdog, lease)
  BY DEF GateConfig
<1>2. /\ TightenedWatchdog(watchdog, lease) <= lease
      /\ TightenedWatchdog(watchdog, lease) > 0 <=> watchdog > 0 /\ lease > 0
  BY DEF TightenedWatchdog
<1>3. HoldSurvives(enabled, hold, watchdog, lease) => hold < TightenedWatchdog(watchdog, lease)
  BY DEF HoldSurvives
<1> HIDE DEF config
<1> QED
  BY <1>1, <1>2, <1>3 DEF config

\* The hold window is a natural number, whatever hold timeout is configured.
LEMMA HoldWindowIsNat == HoldWindow \in Nat
BY ConfigAssumption DEF ConfigAssumption, HoldWindow

\* Ages stay ages, keep their order and their distance, and never shrink.
LEMMA OlderIsAge ==
  ASSUME NEW a \in Ages, NEW b \in Ages
  PROVE  /\ Older(a) \in Ages /\ a <= Older(a)
         /\ a <= b => Older(a) <= Older(b)
         /\ b <= a + HoldWindow => Older(b) <= Older(a) + HoldWindow
BY HoldWindowIsNat, AgeCapAssumption DEF AgeCapAssumption, Older, Ages

\* The gate's variables always have their types (GateTypeOK), for every instance.
THEOREM GateTypeCorrect == GateSpec => []GateTypeOK
<1>1. GateInit => GateTypeOK
  <2>1. AgeCap \in Ages
    BY AgeCapAssumption DEF AgeCapAssumption, Ages
  <2> QED
    BY <2>1 DEF GateInit, GateTypeOK, Commands
<1>2. ASSUME GateTypeOK, [GateNext]_gate_vars
      PROVE  GateTypeOK'
  <2> USE <1>2 DEF GateTypeOK
  <2>1. ASSUME NEW execute \in BOOLEAN, NEW sequence \in Sequences,
               NEW reference \in References, NEW age \in SampleAges,
               AcceptCommand(execute, sequence, reference, age)
        PROVE  GateTypeOK'
    BY <2>1 DEF AcceptCommand
  <2>2. ASSUME NEW active \in BOOLEAN, OnEmergencyStop(active)
        PROVE  GateTypeOK'
    BY <2>2 DEF OnEmergencyStop, reference_vars
  <2>3. CASE OnSerialLinkDown
    BY <2>3 DEF OnSerialLinkDown, reference_vars
  <2>4. CASE OnSerialLinkUp
    BY <2>4 DEF OnSerialLinkUp, reference_vars, command_vars
  <2>5. ASSUME NEW v \in Commands, OnCmdVel(v)
        PROVE  GateTypeOK'
    <3>1. cmd_age' \in Ages /\ nonzero_age' \in Ages
      BY <2>5, AgeCapAssumption DEF AgeCapAssumption, OnCmdVel, Ages
    <3>2. last_nonzero' \in Commands /\ has_nonzero' \in BOOLEAN /\ has_cmd' \in BOOLEAN
      BY <2>5 DEF OnCmdVel
    <3> QED
      BY <2>5, <3>1, <3>2 DEF OnCmdVel, permission_vars, reference_vars
  <2>6. CASE Tick
    BY <2>6 DEF Tick, permission_vars, reference_vars
  <2>7. CASE PassTime
    BY <2>7, OlderIsAge DEF PassTime, permission_vars, reference_vars
  <2>8. CASE UNCHANGED gate_vars
    BY <2>8 DEF gate_vars, permission_vars, reference_vars, command_vars
  <2> QED
    BY <2>1, <2>2, <2>3, <2>4, <2>5, <2>6, <2>7, <2>8 DEF GateNext, RefuseCommand
<1> QED
  BY <1>1, <1>2, PTL DEF GateSpec

\* While a reason to stand still is in force the gate remembers no motion, in every
\* configuration: each method that raises a reason also forgets the motion.
THEOREM NothingHeldWhileBlocked == GateSpec => []NothingToHoldWhileBlocked
<1>1. GateInit => NothingToHoldWhileBlocked
  BY DEF GateInit, NothingToHoldWhileBlocked
<1>2. ASSUME GateTypeOK, NothingToHoldWhileBlocked, [GateNext]_gate_vars
      PROVE  NothingToHoldWhileBlocked'
  <2> USE <1>2 DEF NothingToHoldWhileBlocked, Blocked
  <2>1. ASSUME NEW execute \in BOOLEAN, NEW sequence \in Sequences,
               NEW reference \in References, NEW age \in SampleAges,
               AcceptCommand(execute, sequence, reference, age)
        PROVE  NothingToHoldWhileBlocked'
    BY <2>1 DEF AcceptCommand
  <2>2. ASSUME NEW active \in BOOLEAN, OnEmergencyStop(active)
        PROVE  NothingToHoldWhileBlocked'
    BY <2>2 DEF OnEmergencyStop
  <2>3. CASE OnSerialLinkDown
    BY <2>3 DEF OnSerialLinkDown
  <2>4. CASE OnSerialLinkUp
    BY <2>4 DEF OnSerialLinkUp, command_vars
  <2>5. ASSUME NEW v \in Commands, OnCmdVel(v)
        PROVE  NothingToHoldWhileBlocked'
    BY <2>5 DEF OnCmdVel, permission_vars
  <2>6. CASE Tick
    BY <2>6 DEF Tick, permission_vars
  <2>7. CASE PassTime
    BY <2>7 DEF PassTime, permission_vars
  <2>8. CASE UNCHANGED gate_vars
    BY <2>8 DEF gate_vars, permission_vars, command_vars
  <2> QED
    BY <2>1, <2>2, <2>3, <2>4, <2>5, <2>6, <2>7, <2>8 DEF GateNext, RefuseCommand
<1> QED
  BY <1>1, <1>2, GateTypeCorrect, PTL DEF GateSpec

\* A remembered motion is never older than the latest cmd_vel plus one hold window,
\* in every configuration: holding does not refresh what is held.
THEOREM RememberedMotionStaysRecent == GateSpec => []RememberedMotionIsRecent
<1>1. GateInit => RememberedMotionIsRecent
  BY DEF GateInit, RememberedMotionIsRecent
<1>2. ASSUME GateTypeOK, RememberedMotionIsRecent, [GateNext]_gate_vars
      PROVE  RememberedMotionIsRecent'
  <2> USE <1>2 DEF RememberedMotionIsRecent
  <2>1. ASSUME NEW execute \in BOOLEAN, NEW sequence \in Sequences,
               NEW reference \in References, NEW age \in SampleAges,
               AcceptCommand(execute, sequence, reference, age)
        PROVE  RememberedMotionIsRecent'
    BY <2>1 DEF AcceptCommand
  <2>2. ASSUME NEW active \in BOOLEAN, OnEmergencyStop(active)
        PROVE  RememberedMotionIsRecent'
    BY <2>2 DEF OnEmergencyStop
  <2>3. CASE OnSerialLinkDown
    BY <2>3 DEF OnSerialLinkDown
  <2>4. CASE OnSerialLinkUp
    BY <2>4 DEF OnSerialLinkUp, command_vars
  <2>5. ASSUME NEW v \in Commands, OnCmdVel(v)
        PROVE  RememberedMotionIsRecent'
    <3>1. CASE ForwardsMotion(v)
      BY <2>5, <3>1, HoldWindowIsNat DEF OnCmdVel, ForwardsMotion, IsZero
    <3>2. CASE ~ForwardsMotion(v) /\ has_nonzero'
      <4>1. Holds(v)
        BY <2>5, <3>2 DEF OnCmdVel, ForwardsMotion
      <4>2. nonzero_age <= HoldWindow
        BY <4>1 DEF Holds, HoldWindow
      <4> QED
        BY <2>5, <3>2, <4>1, <4>2, HoldWindowIsNat
        DEF OnCmdVel, Holds, GateTypeOK, Ages
    <3> QED
      BY <3>1, <3>2
  <2>6. CASE Tick
    BY <2>6 DEF Tick
  <2>7. CASE PassTime
    <3>1. cmd_age \in Ages /\ nonzero_age \in Ages
      BY DEF GateTypeOK
    <3> QED
      BY <2>7, <3>1, OlderIsAge DEF PassTime
  <2>8. CASE UNCHANGED gate_vars
    BY <2>8 DEF gate_vars, command_vars
  <2> QED
    BY <2>1, <2>2, <2>3, <2>4, <2>5, <2>6, <2>7, <2>8 DEF GateNext, RefuseCommand
<1> QED
  BY <1>1, <1>2, GateTypeCorrect, PTL DEF GateSpec

\* The sequence floor never drops: only onExecutionCommand writes it, and only upwards.
THEOREM SequenceFloorHolds == GateSpec => SequenceFloorNeverDrops
<1>1. ASSUME GateTypeOK, [GateNext]_gate_vars
      PROVE  [last_sequence' >= last_sequence]_gate_vars
  <2>1. last_sequence \in Int
    BY <1>1, InputAssumption DEF InputAssumption, GateTypeOK, NoSequence
  <2>2. ASSUME NEW execute \in BOOLEAN, NEW sequence \in Sequences,
               NEW reference \in References, NEW age \in SampleAges,
               AcceptCommand(execute, sequence, reference, age)
        PROVE  last_sequence' >= last_sequence
    BY <2>1, <2>2, InputAssumption DEF InputAssumption, AcceptCommand, Accepts
  <2>3. last_sequence' = last_sequence => last_sequence' >= last_sequence
    BY <2>1
  <2> QED
    BY <1>1, <2>2, <2>3
    DEF GateNext, RefuseCommand, OnEmergencyStop, OnSerialLinkDown, OnSerialLinkUp, OnCmdVel,
        Tick, PassTime, reference_vars
<1> QED
  BY <1>1, GateTypeCorrect, PTL DEF GateSpec, SequenceFloorNeverDrops

\* Whoever is authorized was authorized by a new sequence over a link that was up: no
\* other method of the gate raises the authorization.
THEOREM AuthorizationNeedsNewSequence == GateSpec => AuthorizationIsNeverReplayed
<1>1. ASSUME GateTypeOK, [GateNext]_gate_vars
      PROVE  [~authorized /\ authorized' => link_up /\ last_sequence' > last_sequence]_gate_vars
  <2>1. ASSUME NEW execute \in BOOLEAN, NEW sequence \in Sequences,
               NEW reference \in References, NEW age \in SampleAges,
               AcceptCommand(execute, sequence, reference, age)
        PROVE  authorized' => link_up /\ last_sequence' > last_sequence
    BY <2>1 DEF AcceptCommand, Accepts
  <2>2. ASSUME NEW active \in BOOLEAN, OnEmergencyStop(active)
        PROVE  ~authorized => ~authorized'
    BY <2>2 DEF OnEmergencyStop
  <2>3. OnSerialLinkDown \/ OnSerialLinkUp \/ Tick \/ PassTime => (~authorized => ~authorized')
    BY DEF OnSerialLinkDown, OnSerialLinkUp, Tick, PassTime, permission_vars
  <2>4. ASSUME NEW v \in Commands, OnCmdVel(v)
        PROVE  ~authorized => ~authorized'
    BY <2>4 DEF OnCmdVel, permission_vars
  <2> QED
    BY <1>1, <2>1, <2>2, <2>3, <2>4 DEF GateNext, RefuseCommand
<1> QED
  BY <1>1, GateTypeCorrect, PTL DEF GateSpec, AuthorizationIsNeverReplayed

-----------------------------------------------------------------------------
(* The exit: every critical section calls the gate *)

\* Every critical section calls one method of the gate, or leaves it alone.
LEMMA CriticalSectionIsGateStep ==
  ASSUME [ChassisNext]_chassis_vars PROVE [GateNext]_gate_vars
<1>1. ASSUME NEW v \in Commands, CmdVelCallback(v) PROVE GateNext
  BY <1>1 DEF CmdVelCallback, GateNext
<1>2. ASSUME NEW sample \in Samples, ExecutionCommandCallback(sample)
      PROVE  GateNext \/ UNCHANGED gate_vars
  <2>1. /\ sample.execute \in BOOLEAN /\ sample.sequence \in Sequences
        /\ sample.reference \in References /\ sample.age \in SampleAges
    BY DEF Samples
  <2> QED
    BY <1>2, <2>1 DEF ExecutionCommandCallback, ExecutionAccepted, ExecutionRefused,
                      RefuseCommand, GateNext
<1>3. ASSUME NEW active \in BOOLEAN, EmergencyStopCallback(active) PROVE GateNext
  BY <1>3 DEF EmergencyStopCallback, GateNext
<1>4. LinkDown \/ LinkUp \/ SendBeat \/ TimePasses => GateNext
  BY DEF LinkDown, LinkUp, SendBeat, TimePasses, GateNext
<1>5. SendInit \/ UNCHANGED chassis_vars => UNCHANGED gate_vars
  BY DEF SendInit, chassis_vars
<1> QED
  BY <1>1, <1>2, <1>3, <1>4, <1>5 DEF ChassisNext

\* The exit uses the gate as the gate is meant to be used: what the gate promises on
\* its own it promises here.
THEOREM ChassisImplementsGate == ChassisSpec => GateSpec
<1>1. ChassisInit => GateInit
  BY DEF ChassisInit
<1> QED
  BY <1>1, CriticalSectionIsGateStep, PTL DEF ChassisSpec, GateSpec

\* The velocity a cmd_vel leaves in the frame is its own, the remembered one or zero.
LEMMA CmdVelOutputIsSound ==
  ASSUME GateTypeOK, RememberedMotionIsRecent, NEW v \in Commands
  PROVE  /\ CmdVelOutput(v) \in Outputs
         /\ CmdVelOutput(v).v \in Moving \cup {Zero}
         /\ Blocked => CmdVelOutput(v).v = Zero
         /\ CmdVelOutput(v).v \in Moving =>
              \/ ForwardsMotion(v) /\ CmdVelOutput(v).v = v
              \/ ~Blocked /\ ~ForwardsMotion(v) /\ Holds(v) /\ CmdVelOutput(v).v = last_nonzero
<1> USE InputAssumption DEF InputAssumption
<1>1. CASE Blocked
  BY <1>1 DEF CmdVelOutput, ZeroOutput, Outputs, Commands
<1>2. CASE ~Blocked /\ ~IsZero(v)
  BY <1>2 DEF CmdVelOutput, Outputs, IsZero, ForwardsMotion
<1>3. CASE ~Blocked /\ IsZero(v) /\ Holds(v)
  <2>1. last_nonzero \in Moving
    BY <1>3 DEF Holds, RememberedMotionIsRecent
  <2> QED
    BY <1>3, <2>1 DEF CmdVelOutput, Outputs, Commands, ForwardsMotion
<1>4. CASE ~Blocked /\ IsZero(v) /\ ~Holds(v)
  BY <1>4 DEF CmdVelOutput, Outputs, Commands
<1> QED
  BY <1>1, <1>2, <1>3, <1>4

\* The contract's reasons to stand still are the code's early returns.
LEMMA ForbiddenIsBlocked == ASSUME GateTypeOK PROVE MotionForbidden <=> Blocked
BY DEF MotionForbidden, Blocked, GateTypeOK

-----------------------------------------------------------------------------
\* The inductive invariant of the exit.  The gate's invariants say what a hold may bring
\* back; the frame is zero while motion is forbidden, and otherwise moves only with the
\* motion the gate remembers.  Each part alone is not kept by the callbacks.
ChassisInv ==
  /\ GateTypeOK /\ RememberedMotionIsRecent /\ NothingToHoldWhileBlocked
  /\ frame \in Outputs /\ sending \in BOOLEAN
  /\ frame.v \in Moving \cup {Zero}
  /\ ForbiddenFrameIsZero
  /\ FrameMotionIsRemembered

\* What the rest of the invariant says of the frame, for the steps.
FrameInv ==
  /\ frame \in Outputs /\ sending \in BOOLEAN
  /\ frame.v \in Moving \cup {Zero}
  /\ Blocked => frame.v = Zero
  /\ frame.v \in Moving => has_nonzero /\ frame.v = last_nonzero

LEMMA FrameInvStep ==
  ASSUME GateTypeOK, RememberedMotionIsRecent, FrameInv, [ChassisNext]_chassis_vars
  PROVE  FrameInv'
<1> USE InputAssumption DEF InputAssumption, FrameInv
<1>z. ZeroOutput \in Outputs /\ ZeroOutput.v = Zero /\ Zero \notin Moving
  BY DEF ZeroOutput, Outputs, Commands
<1>f. ASSUME NEW f \in Outputs, f.v = Zero, frame' = f, sending' = sending PROVE FrameInv'
  BY <1>f, <1>z
<1>1. CASE SendInit
  <2>1. frame' = [v |-> Zero, stop |-> frame.stop]
    BY <1>1 DEF SendInit, Outputs
  <2>2. frame' \in Outputs
    BY <2>1 DEF Outputs, Commands
  <2> QED
    BY <1>1, <1>z, <2>1, <2>2 DEF SendInit
<1>2. ASSUME NEW v \in Commands, CmdVelCallback(v) PROVE FrameInv'
  <2>1. frame' = CmdVelOutput(v) /\ UNCHANGED sending /\ OnCmdVel(v)
    BY <1>2 DEF CmdVelCallback
  <2>2. Blocked' <=> Blocked
    BY <2>1 DEF OnCmdVel, permission_vars, Blocked
  <2>3. frame'.v \in Moving => has_nonzero' /\ frame'.v = last_nonzero'
    BY <2>1, CmdVelOutputIsSound DEF OnCmdVel, ForwardsMotion
  <2> QED
    BY <2>1, <2>2, <2>3, CmdVelOutputIsSound
<1>3. ASSUME NEW sample \in Samples, ExecutionCommandCallback(sample) PROVE FrameInv'
  <2>1. sample.execute \in BOOLEAN
    BY DEF Samples
  <2>2. CASE /\ sample.execute
             /\ ExecutionAccepted(sample.execute, sample.sequence, sample.reference, sample.age)
    <3>1. frame' = frame /\ sending' = sending /\ (Blocked' => Blocked)
      BY <2>2 DEF ExecutionAccepted, AcceptCommand, Blocked
    <3>2. has_nonzero' = has_nonzero /\ last_nonzero' = last_nonzero
      BY <2>2 DEF ExecutionAccepted, AcceptCommand, GateTypeOK
    <3> QED
      BY <3>1, <3>2
  <2>3. CASE /\ ~sample.execute
             /\ ExecutionAccepted(sample.execute, sample.sequence, sample.reference, sample.age)
    BY <2>3, <1>z, <1>f DEF ExecutionAccepted
  <2>4. CASE ExecutionRefused(sample.sequence, sample.age)
    BY <2>4, <1>z, <1>f DEF ExecutionRefused
  <2> QED
    BY <1>3, <2>1, <2>2, <2>3, <2>4 DEF ExecutionCommandCallback
<1>4. ASSUME NEW active \in BOOLEAN, EmergencyStopCallback(active) PROVE FrameInv'
  <2>1. CASE active
    BY <1>4, <2>1, <1>z, <1>f DEF EmergencyStopCallback
  <2>2. CASE ~active
    <3>1. frame' = frame /\ sending' = sending /\ (Blocked' => Blocked)
      BY <1>4, <2>2 DEF EmergencyStopCallback, OnEmergencyStop, Blocked, GateTypeOK
    <3>2. has_nonzero' = has_nonzero /\ last_nonzero' = last_nonzero
      BY <1>4, <2>2 DEF EmergencyStopCallback, OnEmergencyStop, GateTypeOK
    <3> QED
      BY <3>1, <3>2
  <2> QED
    BY <2>1, <2>2
<1>5. CASE LinkDown
  BY <1>5, <1>z, <1>f DEF LinkDown
<1>6. CASE LinkUp
  BY <1>6 DEF LinkUp, OnSerialLinkUp, command_vars, Blocked
<1>7. CASE SendBeat
  <2>1. CASE TickOverrides
    BY <1>7, <2>1, <1>z, <1>f DEF SendBeat, BeatOutput
  <2>2. CASE ~TickOverrides
    BY <1>7, <2>2 DEF SendBeat, BeatOutput, Tick, TickOverrides, Blocked, permission_vars
  <2> QED
    BY <2>1, <2>2
<1>8. CASE TimePasses
  BY <1>8 DEF TimePasses, PassTime, permission_vars, Blocked
<1>9. CASE UNCHANGED chassis_vars
  BY <1>9 DEF chassis_vars, gate_vars, permission_vars, command_vars, Blocked
<1> QED
  BY <1>1, <1>2, <1>3, <1>4, <1>5, <1>6, <1>7, <1>8, <1>9 DEF ChassisNext

LEMMA ChassisInvariant == ChassisSpec => []ChassisInv
<1>1. ChassisInit => FrameInv
  <2> SUFFICES ASSUME ChassisInit PROVE FrameInv
    OBVIOUS
  <2>1. frame \in Outputs /\ frame.v = Zero
    BY DEF ChassisInit, Outputs, Commands
  <2>2. sending \in BOOLEAN
    BY DEF ChassisInit
  <2> QED
    BY <2>1, <2>2, InputAssumption DEF InputAssumption, FrameInv
<1>2. GateTypeOK /\ RememberedMotionIsRecent /\ FrameInv /\ [ChassisNext]_chassis_vars => FrameInv'
  BY FrameInvStep
<1>3. GateTypeOK /\ RememberedMotionIsRecent /\ NothingToHoldWhileBlocked /\ FrameInv => ChassisInv
  BY ForbiddenIsBlocked DEF ChassisInv, FrameInv, ForbiddenFrameIsZero, FrameMotionIsRemembered
<1> QED
  BY <1>1, <1>2, <1>3, ChassisImplementsGate, GateTypeCorrect, RememberedMotionStaysRecent,
     NothingHeldWhileBlocked, PTL DEF ChassisSpec

\* The variables of the exit always have their types, for every instance.
THEOREM ChassisTypeCorrect == ChassisSpec => []ChassisTypeOK
<1>1. ChassisInv => ChassisTypeOK
  BY DEF ChassisInv, ChassisTypeOK
<1> QED
  BY <1>1, ChassisInvariant, PTL

\* In every configuration the shared frame is zero from the very step that forbids
\* motion until a later cmd_vel is allowed to move the chassis.
THEOREM ForbiddenFrameStaysZero == ChassisSpec => []ForbiddenFrameIsZero
<1>1. ChassisInv => ForbiddenFrameIsZero
  BY DEF ChassisInv
<1> QED
  BY <1>1, ChassisInvariant, PTL

\* In every configuration gate and frame agree about the motion under way.
THEOREM FrameFollowsGate == ChassisSpec => []FrameMotionIsRemembered
<1>1. ChassisInv => FrameMotionIsRemembered
  BY DEF ChassisInv
<1> QED
  BY <1>1, ChassisInvariant, PTL

LEMMA RecentBeat == ASSUME ChassisInv PROVE BeatMotionIsRecent
<1> SUFFICES ASSUME BeatOutput.v \in Moving PROVE nonzero_age <= MotionLeaseMs
  BY DEF BeatMotionIsRecent
<1>1. ~TickOverrides /\ has_nonzero
  BY InputAssumption
  DEF InputAssumption, ChassisInv, FrameMotionIsRemembered, BeatOutput, ZeroOutput
<1>2. /\ has_cmd /\ cmd_age \in Ages /\ nonzero_age \in Ages
      /\ nonzero_age <= cmd_age + HoldWindow
  BY <1>1 DEF ChassisInv, GateTypeOK, RememberedMotionIsRecent
<1>3. ~(WatchdogMs > 0 /\ cmd_age > WatchdogMs)
  BY <1>1, <1>2 DEF TickOverrides, WatchdogExpired
<1> QED
  BY <1>2, <1>3, HoldWindowIsNat, ConfigAssumption, AgeCapAssumption
  DEF ConfigAssumption, AgeCapAssumption, MotionLeaseMs, Ages

\* In every configuration with a watchdog, no beat carries a motion commanded longer
\* ago than the watchdog and the hold window together.
THEOREM BeatMotionStaysRecent == ChassisSpec => []BeatMotionIsRecent
BY RecentBeat, ChassisInvariant, PTL
-----------------------------------------------------------------------------
(* The refinement.  The permit of the lease is "motion is not forbidden",     *)
(* its motion is what the next beat would send.                               *)

\* A step that neither commands nor revokes: whoever may move goes on moving, and
\* whoever now may move stands still.
LEMMA PermitChangeIsLeaseStep ==
  ASSUME ChassisInv, ChassisInv', frame' = frame,
         has_cmd' = has_cmd, UNCHANGED <<cmd_age, nonzero_age, last_nonzero>>,
         ~MotionForbidden => ~MotionForbidden'
  PROVE  Lease!Next \/ UNCHANGED Lease!lease_vars
<1>1. (MotionForbidden <=> Blocked) /\ (MotionForbidden' <=> Blocked')
  BY ForbiddenIsBlocked DEF ChassisInv, MotionForbidden, Blocked, GateTypeOK
<1>2. WatchdogExpired' <=> WatchdogExpired
  BY DEF WatchdogExpired
<1>3. CASE ~MotionForbidden
  <2>1. (BeatOutput.v)' = BeatOutput.v
    BY <1>1, <1>2, <1>3 DEF BeatOutput, TickOverrides
  <2>2. (~MotionForbidden)' = ~MotionForbidden
    BY <1>3
  <2> QED
    BY <2>1, <2>2 DEF Lease!lease_vars
<1>4. CASE MotionForbidden
  <2>1. BeatOutput.v = Zero
    BY <1>1, <1>4 DEF BeatOutput, TickOverrides, ZeroOutput
  <2>2. frame.v = Zero
    BY <1>4 DEF ChassisInv, ForbiddenFrameIsZero
  <2>3. (BeatOutput.v)' = Zero
    BY <2>2 DEF BeatOutput, ZeroOutput
  <2>4. CASE MotionForbidden'
    <3>1. (~MotionForbidden)' = ~MotionForbidden
      BY <1>4, <2>4
    <3> QED
      BY <2>1, <2>3, <3>1 DEF Lease!lease_vars
  <2>5. CASE ~MotionForbidden'
    <3>1. Lease!Grant
      BY <1>4, <2>1, <2>3, <2>5 DEF Lease!Grant
    <3> QED
      BY <3>1 DEF Lease!Next
  <2> QED
    BY <2>4, <2>5
<1> QED
  BY <1>3, <1>4

\* A step that stops the chassis without touching the permit.
LEMMA StopIsLeaseHalt ==
  ASSUME (BeatOutput.v)' = Zero, (~MotionForbidden)' = ~MotionForbidden,
         UNCHANGED <<last_nonzero, nonzero_age>>
  PROVE  Lease!Next
BY DEF Lease!Next, Lease!Halt

\* A step that forbids motion.
LEMMA ForbiddingIsLeaseRevoke ==
  ASSUME ChassisInv', MotionForbidden', UNCHANGED <<last_nonzero, nonzero_age>>
  PROVE  Lease!Next
<1>1. frame'.v = Zero
  BY DEF ChassisInv, ForbiddenFrameIsZero
<1>2. (BeatOutput.v)' = Zero
  BY <1>1 DEF BeatOutput, ZeroOutput
<1>3. (~MotionForbidden)' = FALSE
  OBVIOUS
<1> QED
  BY <1>2, <1>3 DEF Lease!Next, Lease!Revoke

LEMMA CmdVelIsLeaseStep ==
  ASSUME ChassisInv, ChassisInv', NEW v \in Commands, CmdVelCallback(v)
  PROVE  Lease!Next
<1> USE ConfigAssumption DEF ConfigAssumption
<1>1. OnCmdVel(v) /\ frame' = CmdVelOutput(v)
  BY DEF CmdVelCallback
<1>2. (~MotionForbidden)' = ~MotionForbidden /\ (Blocked' <=> Blocked)
  BY <1>1 DEF OnCmdVel, permission_vars, MotionForbidden, Blocked
<1>3. MotionForbidden <=> Blocked
  BY ForbiddenIsBlocked DEF ChassisInv
<1>4. ~WatchdogExpired'
  BY <1>1 DEF OnCmdVel, WatchdogExpired
<1>5. ~Blocked => (BeatOutput.v)' = CmdVelOutput(v).v
  BY <1>1, <1>2, <1>4 DEF BeatOutput, TickOverrides
<1>6. CASE ForwardsMotion(v)
  <2>1. (BeatOutput.v)' = v /\ v \in Moving /\ ~MotionForbidden
    BY <1>3, <1>5, <1>6 DEF ForwardsMotion, CmdVelOutput, IsZero
  <2>2. last_nonzero' = v /\ nonzero_age' = 0
    BY <1>1, <1>6 DEF OnCmdVel
  <2> QED
    BY <1>2, <2>1, <2>2 DEF Lease!Next, Lease!Drive
<1>7. CASE ~ForwardsMotion(v)
  <2>1. UNCHANGED <<last_nonzero, nonzero_age>>
    BY <1>1, <1>7 DEF OnCmdVel
  <2>2. CASE Blocked
    <3>1. (BeatOutput.v)' = Zero
      BY <1>2, <2>2 DEF BeatOutput, TickOverrides, ZeroOutput
    <3> QED
      BY <1>2, <2>1, <3>1, StopIsLeaseHalt
  <2>3. CASE ~Blocked /\ Holds(v)
    <3>1. (BeatOutput.v)' = last_nonzero
      BY <1>5, <1>7, <2>3 DEF CmdVelOutput, ForwardsMotion
    <3>2. last_nonzero \in Moving /\ nonzero_age <= HoldWindow
      BY <2>3 DEF Holds, HoldWindow, ChassisInv, RememberedMotionIsRecent
    <3> QED
      BY <1>2, <1>3, <2>1, <2>3, <3>1, <3>2 DEF Lease!Next, Lease!Resume
  <2>4. CASE ~Blocked /\ ~Holds(v)
    <3>1. (BeatOutput.v)' = Zero
      BY <1>5, <1>7, <2>4 DEF CmdVelOutput, ForwardsMotion
    <3> QED
      BY <1>2, <2>1, <3>1, StopIsLeaseHalt
  <2> QED
    BY <2>2, <2>3, <2>4
<1> QED
  BY <1>6, <1>7

LEMMA ExecutionIsLeaseStep ==
  ASSUME ChassisInv, ChassisInv', NEW sample \in Samples, ExecutionCommandCallback(sample)
  PROVE  Lease!Next \/ UNCHANGED Lease!lease_vars
<1>1. sample.execute \in BOOLEAN
  BY DEF Samples
<1>2. CASE ExecutionAccepted(sample.execute, sample.sequence, sample.reference, sample.age)
  <2>1. UNCHANGED <<has_cmd, cmd_age, nonzero_age, last_nonzero>>
    BY <1>2 DEF ExecutionAccepted, AcceptCommand
  <2>2. CASE sample.execute
    <3>1. frame' = frame
      BY <1>2, <2>2 DEF ExecutionAccepted
    <3>2. ~MotionForbidden => ~MotionForbidden'
      BY <1>2, <2>2 DEF ExecutionAccepted, AcceptCommand, MotionForbidden, ChassisInv, GateTypeOK
    <3> QED
      BY <2>1, <3>1, <3>2, PermitChangeIsLeaseStep
  <2>3. CASE ~sample.execute
    <3>1. MotionForbidden'
      BY <1>2, <2>3 DEF ExecutionAccepted, AcceptCommand, MotionForbidden
    <3> QED
      BY <2>1, <3>1, ForbiddingIsLeaseRevoke
  <2> QED
    BY <1>1, <2>2, <2>3
<1>3. CASE ExecutionRefused(sample.sequence, sample.age)
  <2>1. frame' = ZeroOutput /\ UNCHANGED gate_vars
    BY <1>3 DEF ExecutionRefused, RefuseCommand
  <2>2. (BeatOutput.v)' = Zero
    BY <2>1 DEF BeatOutput, ZeroOutput
  <2>3. (~MotionForbidden)' = ~MotionForbidden
    BY <2>1 DEF gate_vars, permission_vars, MotionForbidden
  <2> QED
    BY <2>1, <2>2, <2>3, StopIsLeaseHalt DEF gate_vars, command_vars
<1> QED
  BY <1>2, <1>3 DEF ExecutionCommandCallback

LEMMA TimeIsLeaseStep ==
  ASSUME ChassisInv, ChassisInv', TimePasses
  PROVE  Lease!Next
<1>1. PassTime /\ frame' = frame
  BY DEF TimePasses
<1>2. (~MotionForbidden)' = ~MotionForbidden /\ (Blocked' <=> Blocked)
  BY <1>1 DEF PassTime, permission_vars, MotionForbidden, Blocked
<1>3. cmd_age \in Ages /\ nonzero_age \in Ages
  BY DEF ChassisInv, GateTypeOK
<1>4. WatchdogExpired => WatchdogExpired'
  BY <1>1, <1>3, OlderIsAge, ConfigAssumption
  DEF ConfigAssumption, PassTime, WatchdogExpired, Ages
<1>5. (BeatOutput.v)' \in {BeatOutput.v, Zero}
  BY <1>1, <1>2, <1>4 DEF BeatOutput, TickOverrides, ZeroOutput
<1>6. nonzero_age' \in {nonzero_age, nonzero_age + 1} /\ last_nonzero' = last_nonzero
  BY <1>1, <1>3, AgeCapAssumption DEF AgeCapAssumption, PassTime, Older, Ages
<1>7. (BeatOutput.v)' # Zero => nonzero_age' <= MotionLeaseMs
  <2>1. (BeatOutput.v)' # Zero => (BeatOutput.v)' \in Moving
    BY DEF ChassisInv, BeatOutput, ZeroOutput
  <2>2. BeatMotionIsRecent'
    BY RecentBeat, PTL
  <2> QED
    BY <2>1, <2>2 DEF BeatMotionIsRecent, MotionLeaseMs, HoldWindow
<1> QED
  BY <1>2, <1>5, <1>6, <1>7 DEF Lease!Next, Lease!Elapse, MotionLeaseMs, HoldWindow

LEMMA ChassisStepIsLeaseStep ==
  ASSUME ChassisInv, ChassisInv', [ChassisNext]_chassis_vars
  PROVE  [Lease!Next]_(Lease!lease_vars)
<1>1. CASE SendInit
  <2>1. frame'.v = Zero /\ UNCHANGED gate_vars
    <3>1. frame' = [v |-> Zero, stop |-> frame.stop]
      BY <1>1 DEF SendInit, ChassisInv, Outputs
    <3> QED
      BY <1>1, <3>1 DEF SendInit
  <2>2. (BeatOutput.v)' = Zero
    BY <2>1 DEF BeatOutput, ZeroOutput
  <2>3. (~MotionForbidden)' = ~MotionForbidden
    BY <2>1 DEF gate_vars, permission_vars, MotionForbidden
  <2> QED
    BY <2>1, <2>2, <2>3, StopIsLeaseHalt DEF gate_vars, command_vars
<1>2. ASSUME NEW active \in BOOLEAN, EmergencyStopCallback(active)
      PROVE  [Lease!Next]_(Lease!lease_vars)
  <2>1. UNCHANGED <<has_cmd, cmd_age, nonzero_age, last_nonzero>>
    BY <1>2 DEF EmergencyStopCallback, OnEmergencyStop
  <2>2. CASE active
    <3>1. MotionForbidden'
      BY <1>2, <2>2 DEF EmergencyStopCallback, OnEmergencyStop, MotionForbidden
    <3> QED
      BY <2>1, <3>1, ForbiddingIsLeaseRevoke
  <2>3. CASE ~active
    <3>1. frame' = frame
      BY <1>2, <2>3 DEF EmergencyStopCallback
    <3>2. ~MotionForbidden => ~MotionForbidden'
      BY <1>2, <2>3
      DEF EmergencyStopCallback, OnEmergencyStop, MotionForbidden, ChassisInv, GateTypeOK
    <3> QED
      BY <2>1, <3>1, <3>2, PermitChangeIsLeaseStep
  <2> QED
    BY <2>2, <2>3
<1>3. CASE LinkDown
  <2>1. MotionForbidden' /\ UNCHANGED <<nonzero_age, last_nonzero>>
    BY <1>3 DEF LinkDown, OnSerialLinkDown, MotionForbidden
  <2> QED
    BY <2>1, ForbiddingIsLeaseRevoke
<1>4. CASE LinkUp
  <2>1. frame' = frame /\ UNCHANGED <<has_cmd, cmd_age, nonzero_age, last_nonzero>>
    BY <1>4 DEF LinkUp, OnSerialLinkUp, command_vars
  <2>2. ~MotionForbidden => ~MotionForbidden'
    BY <1>4 DEF LinkUp, OnSerialLinkUp, MotionForbidden
  <2> QED
    BY <2>1, <2>2, PermitChangeIsLeaseStep
<1>5. CASE SendBeat
  <2>1. Tick /\ frame' = BeatOutput
    BY <1>5 DEF SendBeat
  <2>2. TickOverrides' <=> TickOverrides
    BY <2>1 DEF Tick, permission_vars, TickOverrides, Blocked, WatchdogExpired
  <2>3. (BeatOutput.v)' = BeatOutput.v
    BY <2>1, <2>2 DEF BeatOutput
  <2>4. (~MotionForbidden)' = ~MotionForbidden /\ UNCHANGED <<last_nonzero, nonzero_age>>
    BY <2>1 DEF Tick, permission_vars, MotionForbidden
  <2> QED
    BY <2>3, <2>4 DEF Lease!lease_vars
<1>6. CASE UNCHANGED chassis_vars
  <2>1. UNCHANGED <<BeatOutput, MotionForbidden, last_nonzero, nonzero_age>>
    BY <1>6
    DEF chassis_vars, gate_vars, permission_vars, command_vars, BeatOutput, TickOverrides,
        Blocked, WatchdogExpired, MotionForbidden
  <2> QED
    BY <2>1 DEF Lease!lease_vars
<1> QED
  BY <1>1, <1>2, <1>3, <1>4, <1>5, <1>6, CmdVelIsLeaseStep, ExecutionIsLeaseStep, TimeIsLeaseStep
  DEF ChassisNext

\* The chassis exit implements the motion lease in every configuration: motion needs a
\* permit, losing the permit stops it in the same step, gaining one starts none, and it
\* outlives its command by at most the watchdog and the hold window.
THEOREM ChassisImplementsLease == ChassisSpec => ImplementsMotionLease
<1>1. ChassisInit => Lease!Init
  <2> SUFFICES ASSUME ChassisInit PROVE Lease!Init
    OBVIOUS
  <2>1. MotionForbidden
    BY DEF ChassisInit, GateInit, MotionForbidden
  <2>2. BeatOutput.v = Zero
    BY DEF ChassisInit, GateInit, BeatOutput, ZeroOutput
  <2>3. last_nonzero = Zero /\ nonzero_age \in Nat
    BY AgeCapAssumption DEF AgeCapAssumption, ChassisInit, GateInit
  <2> QED
    BY <2>1, <2>2, <2>3 DEF Lease!Init
<1> QED
  BY <1>1, ChassisStepIsLeaseStep, ChassisInvariant, PTL
  DEF ChassisSpec, ImplementsMotionLease, Lease!Spec
=============================================================================
