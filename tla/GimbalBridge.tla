---------------------------- MODULE GimbalBridge ----------------------------
(***************************************************************************)
(* GimbalBridgeAddon: the thread that forwards the vision commands of      *)
(* /serial/gimbal_cmd to the MCU over the serial link, with the fire       *)
(* permission the node injects.  The thread is the reporter "gimbal" of    *)
(* SerialLink: its steps refine what a reporter may do.  Of the seven      *)
(* numbers of a command only the mode is kept; the aim is plain data.      *)
(***************************************************************************)
EXTENDS SerialLink

CONSTANTS
  FireInhibit,      \* fire_inhibit_on_emergency_stop_
  GimbalTimeoutMs,  \* kGimbalCmdTimeoutMs
  GimbalCommands    \* bound: the commands vision uses, of those listed below

TrackNoFire == 1
TrackAndFire == 2
Unknown == 3   \* any mode the protocol does not have
Wild == 4      \* a number that does not fit in a uint8_t: its conversion is undefined
Unusable == 5  \* not seven numbers, or not all finite

ASSUME GimbalAssumption ==
  /\ FireInhibit \in BOOLEAN /\ GimbalTimeoutMs \in Nat \ {0}
  /\ GimbalCommands \subseteq 0..Unusable
  /\ "gimbal" \in Reporters

VARIABLES
  latest,       \* latest_gimbal_cmd_
  latest_age,   \* now - latest_gimbal_cmd_time_, up to the timeout; the timeout before the first
  bridge_pc,
  mode,         \* send_cmd_.data.mode
  late_fire     \* history: fire frames written under an emergency stop since the last permission

gimbal_vars == <<latest, latest_age, bridge_pc, mode, late_fire>>
bridge_vars == <<link_vars, gimbal_vars>>

BridgeInit ==
  /\ LinkInit
  /\ latest = Unusable /\ latest_age = GimbalTimeoutMs
  /\ bridge_pc = "fetch" /\ mode = 0 /\ late_fire = 0

\* The subscription's callback, on the executor.
GimbalCmdCallback(command) ==
  /\ estop_call = "none"
  /\ latest' = command /\ latest_age' = 0
  /\ UNCHANGED <<link_vars, bridge_pc, mode, late_fire>>

\* static_cast<uint8_t> of the first number.
CastModes(number) == IF number = Wild THEN 0..Unknown ELSE {number}

\* Mutant: no clamp.
GimbalFetch_NoClamp ==
  /\ bridge_pc = "fetch" /\ ~Owes("gimbal")
  /\ latest # Unusable /\ latest_age < GimbalTimeoutMs
  /\ mode' \in CastModes(latest)
  /\ bridge_pc' = IF mode' = TrackAndFire THEN "permit_link" ELSE "check"
  /\ UNCHANGED <<link_vars, latest, latest_age, late_fire>>

\* Mutant: the last command never grows stale.
GimbalFetch_NoTimeout ==
  /\ bridge_pc = "fetch" /\ ~Owes("gimbal") /\ latest # Unusable
  /\ \E m \in CastModes(latest) : mode' = IF m > TrackAndFire THEN 0 ELSE m
  /\ bridge_pc' = IF mode' = TrackAndFire THEN "permit_link" ELSE "check"
  /\ UNCHANGED <<link_vars, latest, latest_age, late_fire>>

\* The critical section of the loop and the clamp after it.  A stale or unusable
\* command is not sent.
GimbalFetch ==
  /\ bridge_pc = "fetch" /\ ~Owes("gimbal")
  /\ latest # Unusable /\ latest_age < GimbalTimeoutMs
  /\ \E m \in CastModes(latest) : mode' = IF m > TrackAndFire THEN 0 ELSE m
  /\ bridge_pc' = IF mode' = TrackAndFire THEN "permit_link" ELSE "check"
  /\ UNCHANGED <<link_vars, latest, latest_age, late_fire>>

\* Mutant: the emergency stop is not consulted.
FirePermittedByLink_Only ==
  /\ bridge_pc = "permit_link" /\ bridge_pc' = "check"
  /\ mode' = IF is_usb_ok THEN mode ELSE TrackNoFire
  /\ UNCHANGED <<link_vars, latest, latest_age, late_fire>>

\* fire_permitted_fn_ loads two flags, one after the other.
FirePermittedByLink ==
  /\ bridge_pc = "permit_link"
  /\ mode' = IF is_usb_ok THEN mode ELSE TrackNoFire
  /\ bridge_pc' = IF is_usb_ok /\ FireInhibit THEN "permit_estop" ELSE "check"
  /\ UNCHANGED <<link_vars, latest, latest_age, late_fire>>

FirePermittedByStop ==
  /\ bridge_pc = "permit_estop" /\ bridge_pc' = "check"
  /\ mode' = IF emergency_stop_active THEN TrackNoFire ELSE mode
  /\ late_fire' = IF emergency_stop_active THEN late_fire ELSE 0
  /\ UNCHANGED <<link_vars, latest, latest_age>>

\* serial_send_fn_: sendSerialFrame, and the catch block around it.
GimbalCheck ==
  /\ bridge_pc = "check"
  /\ \/ ReporterStart("gimbal") /\ bridge_pc' = "write"
     \/ ~is_usb_ok /\ bridge_pc' = "fetch" /\ UNCHANGED link_vars
  /\ UNCHANGED <<latest, latest_age, mode, late_fire>>

\* Mutant: the frame may be sent a second time.
GimbalWrite_Repeats ==
  /\ bridge_pc = "write" /\ bridge_pc' \in {"fetch", "check"}
  /\ ReporterDone("gimbal")
  /\ late_fire' = IF emergency_stop_active /\ mode = TrackAndFire /\ late_fire < 2
                    THEN late_fire + 1 ELSE late_fire
  /\ UNCHANGED <<latest, latest_age, mode>>

GimbalWrite ==
  /\ bridge_pc = "write" /\ bridge_pc' = "fetch"
  /\ ReporterDone("gimbal")
  /\ late_fire' = IF emergency_stop_active /\ mode = TrackAndFire /\ late_fire < 2
                    THEN late_fire + 1 ELSE late_fire
  /\ UNCHANGED <<latest, latest_age, mode>>

GimbalFail ==
  /\ bridge_pc = "write" /\ bridge_pc' = "failed"
  /\ ReporterFail("gimbal")
  /\ UNCHANGED <<latest, latest_age, mode, late_fire>>

\* Mutant: the catch block lowers the flag and forgets the gate.
GimbalReport_FlagOnly ==
  /\ bridge_pc = "failed" /\ bridge_pc' = "fetch"
  /\ ReporterMoves("gimbal", "failed", "idle")
  /\ is_usb_ok' = FALSE
  /\ UNCHANGED <<link_call, latest, latest_age, mode, late_fire>>

GimbalReport ==
  /\ bridge_pc = "failed" /\ bridge_pc' = "fetch"
  /\ ReporterReport("gimbal")
  /\ UNCHANGED <<latest, latest_age, mode, late_fire>>

CommandAges ==
  /\ Elapse
  /\ latest_age' = IF latest_age < GimbalTimeoutMs THEN latest_age + 1 ELSE latest_age
  /\ UNCHANGED <<latest, bridge_pc, mode, late_fire>>

BridgeStep ==
  \/ GimbalFetch \/ FirePermittedByLink \/ FirePermittedByStop
  \/ GimbalCheck \/ GimbalWrite \/ GimbalFail \/ GimbalReport

BridgeNext ==
  \/ \E command \in GimbalCommands : GimbalCmdCallback(command)
  \/ BridgeStep
  \/ CommandAges
  \/ /\ CoreNext \/ \E r \in Reporters \ {"gimbal"} : ReporterStep(r)
     /\ UNCHANGED gimbal_vars

BridgeSpec == BridgeInit /\ [][BridgeNext]_bridge_vars

\* The loop runs and time passes, on top of what the link assumes.
FairBridgeSpec ==
  /\ BridgeSpec /\ LinkFairness
  /\ WF_bridge_vars(BridgeStep) /\ WF_bridge_vars(CommandAges)
-----------------------------------------------------------------------------
\* The type invariant of the bridge.
BridgeTypeOK ==
  /\ LinkTypeOK
  /\ latest \in GimbalCommands \cup {Unusable} /\ latest_age \in 0..GimbalTimeoutMs
  /\ bridge_pc \in {"fetch", "permit_link", "permit_estop", "check", "write", "failed"}
  /\ mode \in 0..TrackAndFire
  /\ late_fire \in 0..2

\* The permission is asked before the frame is written, and the emergency stop may
\* come in between: one fire frame can still leave, never a second one, however long
\* the port or the link delays the loop (gimbal_bridge_addon.hpp:145-159).
AtMostOneLateFire == FireInhibit => late_fire <= 1

\* The bridge is a reporter of the serial link: what holds of the link holds here.
ImplementsLink == LinkSpec

\* Once vision falls silent the loop falls silent: it never repeats the last command
\* for ever (gimbal_bridge_addon.hpp:53-54).
GimbalFallsSilent ==
  <>[][~(\E command \in GimbalCommands : GimbalCmdCallback(command))]_bridge_vars
    => <>[][~GimbalWrite]_bridge_vars

\* An emergency stop that stays in force ends the firing, on the wire and not only in
\* the loop.
EmergencyStopEndsFire ==
  FireInhibit /\ <>[]emergency_stop_active => <>[][GimbalWrite => mode # TrackAndFire]_bridge_vars
=============================================================================
