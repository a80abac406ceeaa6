------------------------- MODULE FrameFieldsProofs -------------------------
(***************************************************************************)
(* What the history of the exit and the other fields of the frame keep,    *)
(* for every configuration, any set of inputs and any order of callbacks.  *)
(***************************************************************************)
EXTENDS FrameFields, ChassisCommandProofs

\* A step of the whole frame is a step of the exit, or leaves it alone.
LEMMA FieldsStepIsChassisStep ==
  ASSUME [FieldsNext]_all_vars PROVE [ChassisNext]_chassis_vars
<1>1. ASSUME NEW sample \in Samples, AcceptedWithHistory(sample) \/ RefusedWithHistory(sample)
      PROVE  ChassisNext
  BY <1>1 DEF AcceptedWithHistory, RefusedWithHistory, ExecutionCommandCallback, ChassisNext
<1>2. ASSUME NEW v \in Commands, CmdVelWithHistory(v) PROVE ChassisNext
  BY <1>2 DEF CmdVelWithHistory, ChassisNext
<1>3. LinkDownWithHistory \/ TimePassesWithHistory \/ LinkUp \/ Beat \/ Prologue => ChassisNext
  BY DEF LinkDownWithHistory, TimePassesWithHistory, Beat, SendBeatWithHistory, Prologue,
         ChassisNext
<1>4. ASSUME NEW active \in BOOLEAN, EmergencyStopWithHistory(active) PROVE ChassisNext
  BY <1>4 DEF EmergencyStopWithHistory, ChassisNext
<1>5. ASSUME NEW request, RobotModeCallback(request) \/ ShootCallback(request)
      PROVE  UNCHANGED chassis_vars
  BY <1>5 DEF RobotModeCallback, ShootCallback
<1>6. UNCHANGED all_vars => UNCHANGED chassis_vars
  BY DEF all_vars
<1> QED
  BY <1>1, <1>2, <1>3, <1>4, <1>5, <1>6 DEF FieldsNext, ChassisOnly

\* What holds of the chassis exit holds with the other callbacks writing next to it.
THEOREM FieldsImplementChassis == FieldsSpec => ChassisSpec
<1>1. FieldsInit => ChassisInit
  BY DEF FieldsInit, HistoryInit
<1> QED
  BY <1>1, FieldsStepIsChassisStep, PTL DEF FieldsSpec, ChassisSpec

\* The history and the fields keep their types.
FieldsInv ==
  /\ unanswered \subseteq Causes /\ stopped \in BOOLEAN
  /\ motion_age \in Ages /\ halted \in BOOLEAN
  /\ mode \in LegalModes \cup {0}
  /\ shoot \in [fire : FireRequests \cup {0}, fric_on : BOOLEAN]

LEMMA FieldsInvStep ==
  ASSUME FieldsInv, [FieldsNext]_all_vars PROVE FieldsInv'
<1> USE DEF FieldsInv
<1>1. ASSUME NEW sample \in Samples, AcceptedWithHistory(sample), UNCHANGED field_vars
      PROVE  FieldsInv'
  <2>1. sample.execute \in BOOLEAN
    BY DEF Samples
  <2>2. unanswered' \subseteq Causes
    BY <1>1 DEF AcceptedWithHistory, Causes
  <2> QED
    BY <1>1, <2>1, <2>2 DEF AcceptedWithHistory, field_vars
<1>2. ASSUME NEW sample \in Samples, RefusedWithHistory(sample), UNCHANGED field_vars
      PROVE  FieldsInv'
  <2>1. sample.execute \in BOOLEAN
    BY DEF Samples
  <2> QED
    BY <1>2, <2>1 DEF RefusedWithHistory, field_vars
<1>3. ASSUME NEW v \in Commands, CmdVelWithHistory(v), UNCHANGED field_vars PROVE FieldsInv'
  <2>1. motion_age' \in Ages
    BY <1>3, AgeCapAssumption DEF CmdVelWithHistory, AgeCapAssumption, Ages
  <2>2. stopped' \in BOOLEAN /\ halted' \in BOOLEAN
    BY <1>3 DEF CmdVelWithHistory, IsZero, MotionForbidden
  <2> QED
    BY <1>3, <2>1, <2>2 DEF CmdVelWithHistory, field_vars
<1>4. CASE LinkDownWithHistory /\ UNCHANGED field_vars
  BY <1>4 DEF LinkDownWithHistory, Causes, field_vars
<1>5. CASE TimePassesWithHistory /\ UNCHANGED field_vars
  BY <1>5, OlderIsAge DEF TimePassesWithHistory, field_vars
<1>6. ASSUME NEW request \in ModeRequests, RobotModeCallback(request) PROVE FieldsInv'
  BY <1>6 DEF RobotModeCallback, history_vars, LegalModes
<1>7. ASSUME NEW request \in FireRequests, ShootCallback(request) PROVE FieldsInv'
  BY <1>7 DEF ShootCallback, history_vars
<1>8. ASSUME NEW active \in BOOLEAN, EmergencyStopWithHistory(active), UNCHANGED field_vars
      PROVE  FieldsInv'
  <2>1. unanswered' \subseteq Causes /\ halted' \in BOOLEAN
    BY <1>8 DEF EmergencyStopWithHistory, Causes
  <2> QED
    BY <1>8, <2>1 DEF EmergencyStopWithHistory, field_vars
<1>9. CASE Prologue
  BY <1>9 DEF Prologue, history_vars
<1>10. CASE UNCHANGED <<history_vars, field_vars>>
  BY <1>10 DEF history_vars, field_vars
<1>11. CASE Beat
  <2>1. halted' \in BOOLEAN
    BY <1>11 DEF Beat, SendBeatWithHistory, MotionForbidden, WatchdogExpired
  <2> QED
    BY <1>11, <2>1 DEF Beat, SendBeatWithHistory, field_vars
<1> QED
  BY <1>1, <1>2, <1>3, <1>4, <1>5, <1>6, <1>7, <1>8, <1>9, <1>10, <1>11
  DEF FieldsNext, ChassisOnly, all_vars

\* The frame and its history always have their types, for every instance.
THEOREM FieldsTypeCorrect == FieldsSpec => []FieldsTypeOK
<1>1. FieldsInit => FieldsInv
  <2> SUFFICES ASSUME FieldsInit PROVE FieldsInv
    OBVIOUS
  <2>1. AgeCap \in Ages
    BY AgeCapAssumption DEF AgeCapAssumption, Ages
  <2>2. /\ unanswered \subseteq Causes /\ stopped \in BOOLEAN
        /\ motion_age \in Ages /\ halted \in BOOLEAN
    BY <2>1 DEF FieldsInit, HistoryInit, Causes
  <2>3. mode \in LegalModes \cup {0}
    BY DEF FieldsInit
  <2>4. shoot \in [fire : FireRequests \cup {0}, fric_on : BOOLEAN]
    BY DEF FieldsInit
  <2> QED
    BY <2>2, <2>3, <2>4 DEF FieldsInv
<1>2. ChassisTypeOK /\ FieldsInv => FieldsTypeOK
  BY DEF FieldsInv, FieldsTypeOK
<1> QED
  BY <1>1, <1>2, FieldsInvStep, FieldsImplementChassis, ChassisTypeCorrect, PTL DEF FieldsSpec
-----------------------------------------------------------------------------
\* Whoever is authorized has answered every revocation: the inductive half of
\* MotionNeedsExecute, in every profile.
Answered == unanswered # {} => ~authorized

LEMMA AnsweredStep == ASSUME GateTypeOK, Answered, [FieldsNext]_all_vars PROVE Answered'
<1> USE DEF Answered
<1>1. ASSUME NEW sample \in Samples, AcceptedWithHistory(sample) PROVE Answered'
  <2>1. authorized' = (sample.execute /\ link_up)
    BY <1>1 DEF AcceptedWithHistory, ExecutionAccepted, AcceptCommand
  <2>2. Authorizes(sample) => unanswered' = {}
    BY <1>1 DEF AcceptedWithHistory
  <2> QED
    BY <2>1, <2>2 DEF Authorizes
<1>2. ASSUME NEW sample \in Samples, RefusedWithHistory(sample) PROVE Answered'
  BY <1>2 DEF RefusedWithHistory, ExecutionRefused, RefuseCommand, gate_vars, permission_vars
<1>3. ASSUME NEW v \in Commands, CmdVelWithHistory(v) PROVE Answered'
  BY <1>3 DEF CmdVelWithHistory, CmdVelCallback, OnCmdVel, permission_vars
<1>4. CASE LinkDownWithHistory
  BY <1>4 DEF LinkDownWithHistory, LinkDown, OnSerialLinkDown
<1>5. CASE TimePassesWithHistory
  BY <1>5 DEF TimePassesWithHistory, TimePasses, PassTime, permission_vars
<1>6. CASE (LinkUp /\ UNCHANGED history_vars) \/ Beat
  BY <1>6 DEF LinkUp, OnSerialLinkUp, Beat, SendBeatWithHistory, SendBeat, Tick, permission_vars,
              history_vars
<1>7. ASSUME NEW active \in BOOLEAN, EmergencyStopWithHistory(active) PROVE Answered'
  <2>1. authorized' = (authorized /\ ~active)
    BY <1>7 DEF EmergencyStopWithHistory, EmergencyStopCallback, OnEmergencyStop
  <2>2. ~active => unanswered' = unanswered
    BY <1>7 DEF EmergencyStopWithHistory
  <2> QED
    BY <2>1, <2>2
<1>8. CASE Prologue
  BY <1>8 DEF Prologue, SendInit, gate_vars, permission_vars, history_vars
<1>9. ASSUME NEW request, RobotModeCallback(request) \/ ShootCallback(request) PROVE Answered'
  BY <1>9 DEF RobotModeCallback, ShootCallback, chassis_vars, gate_vars, permission_vars,
              history_vars
<1>10. CASE UNCHANGED all_vars
  BY <1>10 DEF all_vars, chassis_vars, gate_vars, permission_vars, history_vars
<1> QED
  BY <1>1, <1>2, <1>3, <1>4, <1>5, <1>6, <1>7, <1>8, <1>9, <1>10 DEF FieldsNext, ChassisOnly

\* Where authorization is required, no order of revocations, releases and reconnections
\* moves the chassis before a new EXECUTE is accepted.
THEOREM MotionAlwaysNeedsExecute ==
  ASSUME RequireAuthorization PROVE FieldsSpec => []MotionNeedsExecute
<1>1. FieldsInit => Answered
  BY DEF FieldsInit, HistoryInit, ChassisInit, GateInit, Answered
<1>2. Answered => MotionNeedsExecute
  BY DEF Answered, MotionNeedsExecute, BeatOutput, TickOverrides, Blocked, ZeroOutput
<1> QED
  BY <1>1, <1>2, AnsweredStep, FieldsImplementChassis, ChassisImplementsGate, GateTypeCorrect, PTL
  DEF FieldsSpec
-----------------------------------------------------------------------------
\* No cmd_vel that asked for motion is older than the motion the gate remembers.
AskedRecently == motion_age \in Ages /\ motion_age <= nonzero_age

LEMMA AskedRecentlyStep ==
  ASSUME GateTypeOK, AskedRecently, [FieldsNext]_all_vars PROVE AskedRecently'
<1> USE DEF AskedRecently
<1>1. ASSUME NEW v \in Commands, CmdVelWithHistory(v) PROVE AskedRecently'
  <2>1. OnCmdVel(v) /\ motion_age' = IF IsZero(v) THEN motion_age ELSE 0
    BY <1>1 DEF CmdVelWithHistory, CmdVelCallback
  <2>2. CASE IsZero(v)
    BY <2>1, <2>2 DEF OnCmdVel, ForwardsMotion
  <2>3. CASE ~IsZero(v)
    <3>1. nonzero_age' = IF ForwardsMotion(v) THEN 0 ELSE nonzero_age
      BY <2>1 DEF OnCmdVel
    <3>2. nonzero_age' \in Nat
      BY <3>1, AgeCapAssumption DEF GateTypeOK, Ages, AgeCapAssumption
    <3> QED
      BY <2>1, <2>3, <3>2, AgeCapAssumption DEF Ages, AgeCapAssumption
  <2> QED
    BY <2>2, <2>3
<1>2. CASE TimePassesWithHistory
  BY <1>2, OlderIsAge DEF TimePassesWithHistory, TimePasses, PassTime, GateTypeOK
<1>3. UNCHANGED <<motion_age, nonzero_age>> => AskedRecently'
  OBVIOUS
<1>4. ASSUME NEW sample \in Samples, AcceptedWithHistory(sample) \/ RefusedWithHistory(sample)
      PROVE  UNCHANGED <<motion_age, nonzero_age>>
  BY <1>4 DEF AcceptedWithHistory, RefusedWithHistory, ExecutionAccepted, AcceptCommand,
              ExecutionRefused, RefuseCommand, gate_vars, command_vars
<1>5. LinkDownWithHistory \/ (LinkUp /\ UNCHANGED history_vars) \/ Beat
        => UNCHANGED <<motion_age, nonzero_age>>
  BY DEF LinkDownWithHistory, LinkDown, OnSerialLinkDown, LinkUp, OnSerialLinkUp, Beat,
         SendBeatWithHistory, SendBeat, Tick, command_vars, history_vars
<1>6. ASSUME NEW active \in BOOLEAN, EmergencyStopWithHistory(active)
      PROVE  UNCHANGED <<motion_age, nonzero_age>>
  BY <1>6 DEF EmergencyStopWithHistory, EmergencyStopCallback, OnEmergencyStop
<1>7. Prologue \/ UNCHANGED all_vars => UNCHANGED <<motion_age, nonzero_age>>
  BY DEF Prologue, SendInit, all_vars, chassis_vars, gate_vars, command_vars, history_vars
<1>8. ASSUME NEW request, RobotModeCallback(request) \/ ShootCallback(request)
      PROVE  UNCHANGED <<motion_age, nonzero_age>>
  BY <1>8 DEF RobotModeCallback, ShootCallback, chassis_vars, gate_vars, command_vars, history_vars
<1> QED
  BY <1>1, <1>2, <1>3, <1>4, <1>5, <1>6, <1>7, <1>8 DEF FieldsNext, ChassisOnly

\* Jitter feeds the watchdog and cannot keep the chassis moving, in every configuration.
THEOREM JitterNeverSustainsMotion == FieldsSpec => []JitterCannotSustainMotion
<1>1. FieldsInit => AskedRecently
  BY AgeCapAssumption
  DEF AgeCapAssumption, FieldsInit, HistoryInit, ChassisInit, GateInit, AskedRecently, Ages
<1>2. GateTypeOK /\ AskedRecently /\ BeatMotionIsRecent => JitterCannotSustainMotion
  <2>1. MotionLeaseMs \in Int
    BY ConfigAssumption, AgeCapAssumption, HoldWindowIsNat
    DEF ConfigAssumption, AgeCapAssumption, MotionLeaseMs
  <2> QED
    BY <2>1, AgeCapAssumption
    DEF AskedRecently, BeatMotionIsRecent, JitterCannotSustainMotion, GateTypeOK, Ages,
        AgeCapAssumption
<1> QED
  BY <1>1, <1>2, AskedRecentlyStep, FieldsImplementChassis, ChassisImplementsGate, GateTypeCorrect,
     BeatMotionStaysRecent, PTL DEF FieldsSpec
-----------------------------------------------------------------------------
\* As long as the exit is halted the frame itself asserts stop: overrides of the beat come
\* and go, so the shared frame has to carry the halt.
FrameHalted == halted => frame = ZeroOutput

LEMMA FrameHaltedStep ==
  ASSUME ChassisTypeOK, FrameHalted, [FieldsNext]_all_vars PROVE FrameHalted'
<1> USE DEF FrameHalted
<1>1. ASSUME NEW sample \in Samples, AcceptedWithHistory(sample) PROVE FrameHalted'
  <2>1. frame' = IF sample.execute THEN frame ELSE ZeroOutput
    BY <1>1 DEF AcceptedWithHistory, ExecutionAccepted
  <2>2. sample.execute => halted' = (halted \/ FALSE)
    BY <1>1 DEF AcceptedWithHistory
  <2>3. ZeroOutput' = ZeroOutput
    BY DEF ZeroOutput
  <2> QED
    BY <2>1, <2>2, <2>3
<1>2. ASSUME NEW sample \in Samples, RefusedWithHistory(sample) PROVE FrameHalted'
  BY <1>2 DEF RefusedWithHistory, ExecutionRefused, ZeroOutput
<1>3. ASSUME NEW v \in Commands, CmdVelWithHistory(v) PROVE FrameHalted'
  <2>1. MotionForbidden => Blocked
    BY ForbiddenIsBlocked DEF ChassisTypeOK
  <2>2. frame' = CmdVelOutput(v) /\ halted' = MotionForbidden
    BY <1>3 DEF CmdVelWithHistory, CmdVelCallback
  <2> QED
    BY <2>1, <2>2 DEF CmdVelOutput, ZeroOutput
<1>4. ASSUME NEW active \in BOOLEAN, EmergencyStopWithHistory(active) PROVE FrameHalted'
  <2>1. frame' = IF active THEN ZeroOutput ELSE frame
    BY <1>4 DEF EmergencyStopWithHistory, EmergencyStopCallback
  <2>2. halted' = (halted \/ active)
    BY <1>4 DEF EmergencyStopWithHistory
  <2> QED
    BY <2>1, <2>2 DEF ZeroOutput
<1>5. CASE LinkDownWithHistory
  BY <1>5 DEF LinkDownWithHistory, LinkDown, ZeroOutput
<1>6. CASE Beat
  <2>1. frame' = BeatOutput /\ halted' = (halted \/ MotionForbidden \/ WatchdogExpired)
    BY <1>6 DEF Beat, SendBeatWithHistory, SendBeat
  <2>2. MotionForbidden \/ WatchdogExpired => BeatOutput = ZeroOutput
    BY ForbiddenIsBlocked DEF ChassisTypeOK, BeatOutput, TickOverrides
  <2>3. frame = ZeroOutput => BeatOutput = ZeroOutput
    BY DEF BeatOutput
  <2> QED
    BY <2>1, <2>2, <2>3 DEF ZeroOutput
<1>7. CASE Prologue
  <2>1. frame' = [frame EXCEPT !.v = Zero] /\ halted' = halted
    BY <1>7 DEF Prologue, SendInit, history_vars
  <2>2. frame' = [v |-> Zero, stop |-> frame.stop]
    BY <2>1 DEF ChassisTypeOK, Outputs
  <2>3. ZeroOutput' = ZeroOutput
    BY DEF ZeroOutput
  <2>4. ASSUME halted PROVE frame' = ZeroOutput
    <3>1. frame.stop = TRUE
      BY <2>4 DEF ZeroOutput
    <3> QED
      BY <2>2, <3>1 DEF ZeroOutput
  <2> QED
    BY <2>1, <2>3, <2>4
<1>8. UNCHANGED <<halted, frame>> => FrameHalted'
  BY DEF ZeroOutput
<1>9. TimePassesWithHistory \/ (LinkUp /\ UNCHANGED history_vars) => UNCHANGED <<halted, frame>>
  BY DEF TimePassesWithHistory, TimePasses, LinkUp, history_vars
<1>10. ASSUME NEW request, RobotModeCallback(request) \/ ShootCallback(request)
       PROVE  UNCHANGED <<halted, frame>>
  BY <1>10 DEF RobotModeCallback, ShootCallback, chassis_vars, history_vars
<1>11. UNCHANGED all_vars => UNCHANGED <<halted, frame>>
  BY DEF all_vars, chassis_vars, history_vars
<1> QED
  BY <1>1, <1>2, <1>3, <1>4, <1>5, <1>6, <1>7, <1>8, <1>9, <1>10, <1>11 DEF FieldsNext, ChassisOnly

\* With or without execution authorization, a halted exit asks the MCU to stop with every
\* beat until a cmd_vel is let through, whatever is released, reconnected or restarted.
THEOREM HaltOutlastsReleases == FieldsSpec => []HaltLastsUntilCmdVel
<1>1. FieldsInit => FrameHalted
  BY DEF FieldsInit, HistoryInit, FrameHalted
<1>2. FrameHalted => HaltLastsUntilCmdVel
  BY DEF FrameHalted, HaltLastsUntilCmdVel, BeatOutput
<1> QED
  BY <1>1, <1>2, FrameHaltedStep, FieldsImplementChassis, ChassisTypeCorrect, PTL DEF FieldsSpec
=============================================================================
