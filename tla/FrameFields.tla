---------------------------- MODULE FrameFields ----------------------------
(***************************************************************************)
(* The other fields of send_robot_cmd_data_ that a callback writes next to *)
(* the velocity, robot mode and shoot, and the prologue and beat of the    *)
(* send thread as they treat the mode.  The gimbal field is in GimbalAim.  *)
(* Every callback holds send_cmd_mutex_, and the executor runs one at a    *)
(* time.                                                                   *)
(***************************************************************************)
EXTENDS ChassisHistory

CONSTANTS
  ModeRequests,  \* bound: the numbers decision/robot_mode carries, of 0..255
  FireRequests   \* bound: the numbers cmd_shoot carries, of 0..255

ASSUME FieldAssumption == ModeRequests \subseteq 0..255 /\ FireRequests \subseteq 0..255

VARIABLES
  mode,       \* speed_vector.mode
  shoot       \* the shoot struct

field_vars == <<mode, shoot>>
all_vars == <<chassis_vars, history_vars, field_vars>>

Attack == 1
Defend == 2
Move == 3
LegalModes == {Attack, Defend, Move}

\* The struct is value-initialised: mode 0 is none of the protocol's modes.
FieldsInit ==
  /\ HistoryInit
  /\ mode = 0 /\ shoot = [fire |-> 0, fric_on |-> FALSE]

\* Mutant: the number is written as it came.
RobotModeCallback_Unchecked(request) ==
  /\ mode' = request
  /\ UNCHANGED <<chassis_vars, history_vars, shoot>>

\* An unknown mode falls back to Move.
RobotModeCallback(request) ==
  /\ mode' = IF request \in LegalModes THEN request ELSE Move
  /\ UNCHANGED <<chassis_vars, history_vars, shoot>>

\* The friction wheels are switched on with every shoot command and never off.
ShootCallback(request) ==
  /\ shoot' = [fire |-> request, fric_on |-> TRUE]
  /\ UNCHANGED <<chassis_vars, history_vars, mode>>

\* sendData's prologue also zeroes the mode, whatever a callback has written by then.
Prologue ==
  /\ SendInit
  /\ mode' = 0
  /\ UNCHANGED <<history_vars, shoot>>

\* Mutant: the default mode is set with every packet, inside the loop.
Beat_DefaultsMode ==
  /\ SendBeatWithHistory
  /\ mode' = 0
  /\ UNCHANGED shoot

\* A beat sends the whole struct and writes back the velocity alone.
Beat ==
  /\ SendBeatWithHistory
  /\ UNCHANGED field_vars

\* The callbacks of the chassis, of the emergency stop and of the link, and time.
ChassisOnly ==
  /\ \/ \E sample \in Samples : AcceptedWithHistory(sample)
     \/ \E sample \in Samples : RefusedWithHistory(sample)
     \/ \E v \in Commands : CmdVelWithHistory(v)
     \/ \E active \in BOOLEAN : EmergencyStopWithHistory(active)
     \/ LinkDownWithHistory
     \/ TimePassesWithHistory
     \/ LinkUp /\ UNCHANGED history_vars
  /\ UNCHANGED field_vars

FieldsNext ==
  \/ \E request \in ModeRequests : RobotModeCallback(request)
  \/ \E request \in FireRequests : ShootCallback(request)
  \/ Prologue
  \/ Beat
  \/ ChassisOnly

FieldsSpec == FieldsInit /\ [][FieldsNext]_all_vars
-----------------------------------------------------------------------------
\* The type invariant of the frame and its history.
FieldsTypeOK ==
  /\ ChassisTypeOK
  /\ unanswered \subseteq Causes /\ stopped \in BOOLEAN
  /\ motion_age \in Ages /\ halted \in BOOLEAN
  /\ mode \in LegalModes \cup {0}
  /\ shoot \in [fire : FireRequests \cup {0}, fric_on : BOOLEAN]

\* The default the prologue writes over a mode that a callback has already set costs
\* that mode once: if the frame carries a mode of the protocol again and again, then
\* from some time on it carries nothing else, whatever numbers decision/robot_mode
\* publishes and however the send thread's start and beats fall between its messages
\* (cmdRobotModeCallback, lines 1271-1309, against sendData, lines 1059 and 1077-1095).
ModeSettles == []<>(mode \in LegalModes) => <>[](mode \in LegalModes)
=============================================================================
