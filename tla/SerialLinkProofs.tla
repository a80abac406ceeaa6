-------------------------- MODULE SerialLinkProofs --------------------------
(***************************************************************************)
(* The threads of the serial link keep the promises of the chassis exit,   *)
(* whatever set of reporters uses the port; the flag is down while the     *)
(* port is closed; and at most one late motion leaves the send thread.     *)
(* The gimbal thread is one of the reporters, so what is proved of the     *)
(* link holds with it running; and at most one fire frame slips past an    *)
(* emergency stop, for every timeout and command.                          *)
(***************************************************************************)
EXTENDS GimbalBridge, ChassisCommandProofs

\* Every step of a thread is one critical section of the exit or leaves it alone.
LEMMA LinkStepIsChassisStep ==
  ASSUME [LinkNext]_link_vars PROVE [ChassisNext]_chassis_vars
<1>1. CASE ExecutorStep
  BY <1>1 DEF ExecutorStep, ChassisNext
<1>2. ASSUME NEW active \in BOOLEAN, EStopStore(active) PROVE UNCHANGED chassis_vars
  BY <1>2 DEF EStopStore
<1>3. CASE EStopLocked
  <2>1. (estop_call = "raise") \in BOOLEAN
    OBVIOUS
  <2> QED
    BY <1>3, <2>1 DEF EStopLocked, ChassisNext
<1>4. CASE SendStep
  BY <1>4 DEF SendStep, SendPrologue, SendPoll, SendCopy, SendCheck, SendWrite, SendFail,
              SendReport, ChassisNext
<1>5. CASE ProtectStep
  BY <1>5 DEF ProtectStep, ProtectOpen, ProtectWatch, ProtectRecheck
<1>6. ASSUME NEW t \in Threads, LinkLocked(t) PROVE ChassisNext
  BY <1>6 DEF LinkLocked, ChassisNext
<1>7. ASSUME NEW r \in Reporters, ReporterStep(r) PROVE UNCHANGED chassis_vars
  BY <1>7 DEF ReporterStep, ReporterStart, ReporterDone, ReporterFail, ReporterReport,
              ReporterMoves
<1>8. CASE Unplug \/ Plug
  BY <1>8 DEF Unplug, Plug
<1>9. CASE Elapse
  BY <1>9 DEF Elapse, ChassisNext
<1>10. CASE UNCHANGED link_vars
  BY <1>10 DEF link_vars
<1> QED
  BY <1>1, <1>2, <1>3, <1>4, <1>5, <1>6, <1>7, <1>8, <1>9, <1>10 DEF LinkNext, CoreNext

\* The link implements the chassis exit: no interleaving of the threads, of link losses
\* and of reconnections shows the frame or the gate in a state the exit alone cannot
\* reach, so the motion lease holds of the link too.
THEOREM LinkImplementsChassis == LinkSpec => ImplementsChassis
<1>1. LinkInit => ChassisInit
  BY DEF LinkInit
<1> QED
  BY <1>1, LinkStepIsChassisStep, PTL DEF LinkSpec, ImplementsChassis, ChassisSpec

-----------------------------------------------------------------------------
\* The flag is never up on a closed port, whatever the reporters do: only an open that
\* succeeded raises it, and only a flag that is down closes the port.
THEOREM FlagDownOnClosedPort == LinkSpec => []ClosedPortIsDown
<1>1. LinkInit => ClosedPortIsDown
  BY DEF LinkInit, ClosedPortIsDown
<1>2. ASSUME ClosedPortIsDown, [LinkNext]_link_vars PROVE ClosedPortIsDown'
  <2> USE <1>2 DEF ClosedPortIsDown
  <2>1. CASE ExecutorStep
    BY <2>1 DEF ExecutorStep
  <2>2. ASSUME NEW active \in BOOLEAN, EStopStore(active) PROVE ClosedPortIsDown'
    BY <2>2 DEF EStopStore
  <2>3. CASE EStopLocked
    BY <2>3 DEF EStopLocked
  <2>4. CASE SendStep
    BY <2>4 DEF SendStep, SendPrologue, SendPoll, SendCopy, SendCheck, SendWrite, SendFail,
                SendReport, ExchangeFlag
  <2>5. CASE ProtectStep
    BY <2>5 DEF ProtectStep, ProtectOpen, ProtectWatch, ProtectRecheck, ExchangeFlag
  <2>6. ASSUME NEW t \in Threads, LinkLocked(t) PROVE ClosedPortIsDown'
    BY <2>6 DEF LinkLocked
  <2>7. ASSUME NEW r \in Reporters, ReporterStep(r) PROVE ClosedPortIsDown'
    BY <2>7 DEF ReporterStep, ReporterStart, ReporterDone, ReporterFail, ReporterReport,
                ReporterMoves, ExchangeFlag
  <2>8. CASE Unplug \/ Plug
    BY <2>8 DEF Unplug, Plug
  <2>9. CASE Elapse
    BY <2>9 DEF Elapse
  <2>10. CASE UNCHANGED link_vars
    BY <2>10 DEF link_vars
  <2> QED
    BY <2>1, <2>2, <2>3, <2>4, <2>5, <2>6, <2>7, <2>8, <2>9, <2>10 DEF LinkNext, CoreNext
<1> QED
  BY <1>1, <1>2, PTL DEF LinkSpec

-----------------------------------------------------------------------------
\* Why one late motion is the most there can be: while a packet waits to be written, it
\* is no motion or no late motion has been counted since its copy.
LateInv ==
  /\ late \in {0, 1}
  /\ tx_pc \in {"check", "write"} => late = 0 \/ packet.v \notin Moving

LEMMA LateInvStep ==
  ASSUME ChassisInv, LateInv, [LinkNext]_link_vars PROVE LateInv'
<1> USE DEF LateInv
<1>1. CASE ExecutorStep
  BY <1>1 DEF ExecutorStep, thread_vars
<1>2. ASSUME NEW active \in BOOLEAN, EStopStore(active) PROVE LateInv'
  BY <1>2 DEF EStopStore
<1>3. CASE EStopLocked
  BY <1>3 DEF EStopLocked
<1>4. CASE SendStep
  <2>1. CASE SendCopy
    <3>1. CASE MotionForbidden
      <4>1. BeatOutput.v = Zero
        BY <3>1, ForbiddenIsBlocked DEF ChassisInv, BeatOutput, TickOverrides, ZeroOutput
      <4> QED
        BY <2>1, <3>1, <4>1, InputAssumption DEF InputAssumption, SendCopy
    <3>2. CASE ~MotionForbidden
      BY <2>1, <3>2 DEF SendCopy
    <3> QED
      BY <3>1, <3>2
  <2>2. CASE SendWrite
    BY <2>2 DEF SendWrite
  <2>3. CASE SendPrologue
    BY <2>3 DEF SendPrologue, thread_vars
  <2>4. CASE SendPoll \/ SendCheck \/ SendFail \/ SendReport
    BY <2>4 DEF SendPoll, SendCheck, SendFail, SendReport
  <2> QED
    BY <1>4, <2>1, <2>2, <2>3, <2>4 DEF SendStep
<1>5. CASE ProtectStep
  BY <1>5 DEF ProtectStep, ProtectOpen, ProtectWatch, ProtectRecheck
<1>6. ASSUME NEW t \in Threads, LinkLocked(t) PROVE LateInv'
  BY <1>6 DEF LinkLocked
<1>7. ASSUME NEW r \in Reporters, ReporterStep(r) PROVE LateInv'
  BY <1>7 DEF ReporterStep, ReporterStart, ReporterDone, ReporterFail, ReporterReport,
              ReporterMoves
<1>8. CASE Unplug \/ Plug
  BY <1>8 DEF Unplug, Plug, thread_vars
<1>9. CASE Elapse
  BY <1>9 DEF Elapse, thread_vars
<1>10. CASE UNCHANGED link_vars
  BY <1>10 DEF link_vars, thread_vars
<1> QED
  BY <1>1, <1>2, <1>3, <1>4, <1>5, <1>6, <1>7, <1>8, <1>9, <1>10 DEF LinkNext, CoreNext

\* At most one motion is written after motion has been forbidden, for any number of
\* threads, commands and reconnections.
THEOREM LateMotionIsBounded == LinkSpec => []AtMostOneLateMotion
<1>1. LinkInit => LateInv
  BY DEF LinkInit, LateInv
<1>2. ChassisInv /\ LateInv /\ [LinkNext]_link_vars => LateInv'
  BY LateInvStep
<1>3. LateInv => AtMostOneLateMotion
  BY DEF LateInv, AtMostOneLateMotion
<1> QED
  BY <1>1, <1>2, <1>3, LinkImplementsChassis, ChassisInvariant, PTL
  DEF LinkSpec, ImplementsChassis
-----------------------------------------------------------------------------
\* What the link adds to the types of the chassis exit.
ThreadTypeOK ==
  /\ is_usb_ok \in BOOLEAN /\ link_call \in [Threads -> {"none", "up", "down"}]
  /\ emergency_stop_active \in BOOLEAN /\ estop_call \in {"none", "raise", "clear"}
  /\ device \in BOOLEAN /\ port \in {"closed", "open", "stale"}
  /\ protect_pc \in {"open", "watch", "recheck"}
  /\ reporter \in [Reporters -> {"idle", "busy", "failed"}]
  /\ tx_pc \in {"poll", "beat", "check", "write", "failed"}
  /\ packet \in Outputs /\ wire \in Outputs
  /\ late \in 0..2 /\ outage \in {"none", "lost", "back"}

\* The exchange leaves a flag and a half-done call behind.
LEMMA ExchangeType ==
  ASSUME ThreadTypeOK, NEW t \in Threads, NEW up \in BOOLEAN, ExchangeFlag(t, up)
  PROVE  is_usb_ok' \in BOOLEAN /\ link_call' \in [Threads -> {"none", "up", "down"}]
<1>1. is_usb_ok' \in BOOLEAN
  BY DEF ExchangeFlag
<1>2. link_call' \in [Threads -> {"none", "up", "down"}]
  BY DEF ExchangeFlag, ThreadTypeOK
<1> QED
  BY <1>1, <1>2

\* A step of the send thread.  What it copies is the frame of the beat, so it has the
\* frame's type.
LEMMA SendKeepsTypes ==
  ASSUME ThreadTypeOK, ChassisTypeOK', SendStep
  PROVE  ThreadTypeOK'
<1> USE DEF ThreadTypeOK
<1>1. CASE SendPrologue
  BY <1>1 DEF SendPrologue, thread_vars
<1>2. CASE SendPoll \/ SendCheck \/ SendFail
  BY <1>2 DEF SendPoll, SendCheck, SendFail
<1>3. CASE SendCopy
  <2>1. packet' \in Outputs
    BY <1>3 DEF SendCopy, SendBeat, ChassisTypeOK
  <2> QED
    BY <1>3, <2>1 DEF SendCopy
<1>4. CASE SendWrite
  BY <1>4 DEF SendWrite
<1>5. CASE SendReport
  <2>1. "tx" \in Threads
    BY DEF Threads
  <2> QED
    BY <1>5, <2>1, ExchangeType DEF SendReport
<1> QED
  BY <1>1, <1>2, <1>3, <1>4, <1>5 DEF SendStep

\* A step of the port protection.
LEMMA ProtectKeepsTypes ==
  ASSUME ThreadTypeOK, ProtectStep
  PROVE  ThreadTypeOK'
<1> USE DEF ThreadTypeOK
<1>1. "protect" \in Threads
  BY DEF Threads
<1>2. CASE ProtectOpen
  BY <1>1, <1>2, ExchangeType DEF ProtectOpen
<1>3. CASE ProtectWatch
  BY <1>1, <1>3, ExchangeType DEF ProtectWatch
<1>4. CASE ProtectRecheck
  BY <1>4 DEF ProtectRecheck
<1> QED
  BY <1>2, <1>3, <1>4 DEF ProtectStep

\* A step of a reporter.
LEMMA ReporterKeepsTypes ==
  ASSUME ThreadTypeOK, NEW r \in Reporters, ReporterStep(r)
  PROVE  ThreadTypeOK'
<1> USE DEF ThreadTypeOK
<1>1. CASE ReporterStart(r) \/ ReporterDone(r) \/ ReporterFail(r)
  BY <1>1 DEF ReporterStart, ReporterDone, ReporterFail, ReporterMoves
<1>2. CASE ReporterReport(r)
  <2>1. r \in Threads
    BY DEF Threads
  <2> QED
    BY <1>2, <2>1, ExchangeType DEF ReporterReport, ReporterMoves
<1> QED
  BY <1>1, <1>2 DEF ReporterStep

\* The link keeps its types (LinkTypeOK), for any set of reporters and any threads'
\* interleaving.
THEOREM LinkTypeCorrect == LinkSpec => []LinkTypeOK
<1>1. LinkInit => ThreadTypeOK
  <2>1. ZeroOutput \in Outputs
    BY DEF ZeroOutput, Outputs, Commands
  <2> SUFFICES ASSUME LinkInit PROVE ThreadTypeOK
    OBVIOUS
  <2>2. is_usb_ok \in BOOLEAN /\ emergency_stop_active \in BOOLEAN /\ device \in BOOLEAN
    BY DEF LinkInit
  <2>3. link_call \in [Threads -> {"none", "up", "down"}]
    BY DEF LinkInit
  <2>4. reporter \in [Reporters -> {"idle", "busy", "failed"}]
    BY DEF LinkInit
  <2> QED
    BY <2>1, <2>2, <2>3, <2>4 DEF LinkInit, ThreadTypeOK
<1>2. ChassisTypeOK' /\ ThreadTypeOK /\ [LinkNext]_link_vars => ThreadTypeOK'
  <2> SUFFICES ASSUME ChassisTypeOK', ThreadTypeOK, [LinkNext]_link_vars PROVE ThreadTypeOK'
    OBVIOUS
  <2> USE DEF ThreadTypeOK
  <2>1. CASE ExecutorStep
    BY <2>1 DEF ExecutorStep, thread_vars
  <2>2. ASSUME NEW active \in BOOLEAN, EStopStore(active) PROVE ThreadTypeOK'
    BY <2>2 DEF EStopStore
  <2>3. CASE EStopLocked
    BY <2>3 DEF EStopLocked
  <2>4. ASSUME NEW t \in Threads, LinkLocked(t) PROVE ThreadTypeOK'
    BY <2>4 DEF LinkLocked
  <2>5. CASE Unplug \/ Plug
    <3>1. device' \in BOOLEAN /\ port' \in {"closed", "open", "stale"}
      BY <2>5 DEF Unplug, Plug
    <3> QED
      BY <2>5, <3>1 DEF Unplug, Plug, thread_vars
  <2>6. CASE Elapse
    BY <2>6 DEF Elapse, thread_vars
  <2>7. CASE UNCHANGED link_vars
    BY <2>7 DEF link_vars, thread_vars
  <2> HIDE DEF ThreadTypeOK
  <2> QED
    BY <2>1, <2>2, <2>3, <2>4, <2>5, <2>6, <2>7,
       SendKeepsTypes, ProtectKeepsTypes, ReporterKeepsTypes DEF LinkNext, CoreNext
<1>3. ChassisTypeOK /\ ThreadTypeOK => LinkTypeOK
  BY DEF ThreadTypeOK, LinkTypeOK
<1> QED
  BY <1>1, <1>2, <1>3, LinkImplementsChassis, ChassisTypeCorrect, PTL
  DEF LinkSpec, ImplementsChassis

-----------------------------------------------------------------------------
(* The gimbal thread *)

\* A step of the loop either uses the port as any reporter does or leaves the link alone.
LEMMA BridgeStepIsLinkStep ==
  ASSUME [BridgeNext]_bridge_vars PROVE [LinkNext]_link_vars
<1>1. ASSUME NEW command \in GimbalCommands, GimbalCmdCallback(command)
      PROVE  UNCHANGED link_vars
  BY <1>1 DEF GimbalCmdCallback
<1>2. CASE BridgeStep
  <2>1. CASE GimbalFetch \/ FirePermittedByLink \/ FirePermittedByStop
    BY <2>1 DEF GimbalFetch, FirePermittedByLink, FirePermittedByStop
  <2>2. CASE GimbalCheck \/ GimbalWrite \/ GimbalFail \/ GimbalReport
    <3>1. "gimbal" \in Reporters
      BY GimbalAssumption DEF GimbalAssumption
    <3>2. ReporterStep("gimbal") \/ UNCHANGED link_vars
      BY <2>2 DEF GimbalCheck, GimbalWrite, GimbalFail, GimbalReport, ReporterStep
    <3> QED
      BY <3>1, <3>2 DEF LinkNext
  <2> QED
    BY <1>2, <2>1, <2>2 DEF BridgeStep
<1>3. CASE CommandAges
  BY <1>3 DEF CommandAges, LinkNext
<1>4. CASE CoreNext \/ \E r \in Reporters \ {"gimbal"} : ReporterStep(r)
  BY <1>4 DEF LinkNext
<1>5. CASE UNCHANGED bridge_vars
  BY <1>5 DEF bridge_vars
<1> QED
  BY <1>1, <1>2, <1>3, <1>4, <1>5 DEF BridgeNext

\* The bridge implements the link: with vision commands and fire permissions
\* interleaved, the port, the flag and the chassis frame behave as the link alone.
THEOREM BridgeImplementsLink == BridgeSpec => ImplementsLink
<1>1. BridgeInit => LinkInit
  BY DEF BridgeInit
<1> QED
  BY <1>1, BridgeStepIsLinkStep, PTL DEF BridgeSpec, ImplementsLink, LinkSpec

-----------------------------------------------------------------------------
\* Why one late fire is the most there can be: past the permission, a fire frame is in
\* hand only if the stop was seen lifted and nothing has been written since.
LateFireInv ==
  FireInhibit =>
    /\ late_fire \in {0, 1}
    /\ bridge_pc \in {"check", "write"} => late_fire = 0 \/ mode # TrackAndFire

LEMMA LateFireInvStep ==
  ASSUME LateFireInv, [BridgeNext]_bridge_vars PROVE LateFireInv'
<1> USE DEF LateFireInv, TrackNoFire, TrackAndFire
<1>1. ASSUME NEW command \in GimbalCommands, GimbalCmdCallback(command) PROVE LateFireInv'
  BY <1>1 DEF GimbalCmdCallback
<1>2. CASE GimbalFetch
  BY <1>2 DEF GimbalFetch
<1>3. CASE FirePermittedByLink
  BY <1>3 DEF FirePermittedByLink
<1>4. CASE FirePermittedByStop
  BY <1>4 DEF FirePermittedByStop
<1>5. CASE GimbalCheck
  BY <1>5 DEF GimbalCheck
<1>6. CASE GimbalWrite
  BY <1>6 DEF GimbalWrite
<1>7. CASE GimbalFail \/ GimbalReport
  BY <1>7 DEF GimbalFail, GimbalReport
<1>8. CASE CommandAges
  BY <1>8 DEF CommandAges
<1>9. CASE UNCHANGED gimbal_vars
  BY <1>9 DEF gimbal_vars
<1> QED
  BY <1>1, <1>2, <1>3, <1>4, <1>5, <1>6, <1>7, <1>8, <1>9
     DEF BridgeNext, BridgeStep, bridge_vars

\* At most one fire frame is written under an emergency stop after the permission that
\* let it pass, however the stop, the loop and the port interleave.
THEOREM LateFireIsBounded == BridgeSpec => []AtMostOneLateFire
<1>1. BridgeInit => LateFireInv
  BY DEF BridgeInit, LateFireInv
<1>2. LateFireInv /\ [BridgeNext]_bridge_vars => LateFireInv'
  BY LateFireInvStep
<1>3. LateFireInv => AtMostOneLateFire
  BY DEF LateFireInv, AtMostOneLateFire
<1> QED
  BY <1>1, <1>2, <1>3, PTL DEF BridgeSpec

-----------------------------------------------------------------------------
\* What the bridge adds to the types of the link.
LoopTypeOK ==
  /\ latest \in GimbalCommands \cup {Unusable} /\ latest_age \in 0..GimbalTimeoutMs
  /\ bridge_pc \in {"fetch", "permit_link", "permit_estop", "check", "write", "failed"}
  /\ mode \in 0..TrackAndFire
  /\ late_fire \in 0..2

\* A cast that is undefined still yields a number, and the clamp leaves a mode of the
\* protocol of any of them.
LEMMA ClampedMode ==
  ASSUME NEW n \in 0..Wild, NEW m \in CastModes(n)
  PROVE  (IF m > TrackAndFire THEN 0 ELSE m) \in 0..TrackAndFire
BY DEF CastModes, Wild, Unknown, TrackAndFire

\* The bridge keeps its types (BridgeTypeOK), and with them the promise that no mode the
\* MCU does not know is ever in a frame, whatever number vision sends.
THEOREM BridgeTypeCorrect == BridgeSpec => []BridgeTypeOK
<1>1. BridgeInit => LoopTypeOK
  BY GimbalAssumption DEF BridgeInit, LoopTypeOK, GimbalAssumption, TrackAndFire
<1>2. LoopTypeOK /\ [BridgeNext]_bridge_vars => LoopTypeOK'
  <2> SUFFICES ASSUME LoopTypeOK, [BridgeNext]_bridge_vars PROVE LoopTypeOK'
    OBVIOUS
  <2> USE DEF LoopTypeOK
  <2>1. ASSUME NEW command \in GimbalCommands, GimbalCmdCallback(command) PROVE LoopTypeOK'
    BY <2>1, GimbalAssumption DEF GimbalCmdCallback, GimbalAssumption
  <2>2. CASE GimbalFetch
    <3>1. latest \in 0..Wild
      BY <2>2, GimbalAssumption DEF GimbalFetch, GimbalAssumption, Unusable, Wild
    <3>2. mode' \in 0..TrackAndFire
      BY <2>2, <3>1, ClampedMode DEF GimbalFetch
    <3> QED
      BY <2>2, <3>2 DEF GimbalFetch
  <2>3. CASE FirePermittedByLink
    BY <2>3 DEF FirePermittedByLink, TrackNoFire, TrackAndFire
  <2>4. CASE FirePermittedByStop
    BY <2>4 DEF FirePermittedByStop, TrackNoFire, TrackAndFire
  <2>5. CASE GimbalCheck \/ GimbalFail \/ GimbalReport
    BY <2>5 DEF GimbalCheck, GimbalFail, GimbalReport
  <2>6. CASE GimbalWrite
    BY <2>6 DEF GimbalWrite
  <2>7. CASE CommandAges
    BY <2>7, GimbalAssumption DEF CommandAges, GimbalAssumption
  <2>8. CASE UNCHANGED gimbal_vars
    BY <2>8 DEF gimbal_vars
  <2> QED
    BY <2>1, <2>2, <2>3, <2>4, <2>5, <2>6, <2>7, <2>8
    DEF BridgeNext, BridgeStep, bridge_vars
<1>3. LinkTypeOK /\ LoopTypeOK => BridgeTypeOK
  BY DEF LoopTypeOK, BridgeTypeOK
<1> QED
  BY <1>1, <1>2, <1>3, BridgeImplementsLink, LinkTypeCorrect, PTL DEF BridgeSpec, ImplementsLink
=============================================================================
