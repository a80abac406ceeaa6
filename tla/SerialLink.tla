----------------------------- MODULE SerialLink -----------------------------
(***************************************************************************)
(* The serial link of StandardRobotPpRos2Node and the threads that share   *)
(* it: the executor (callbacks), sendData, serialPortProtect, and the      *)
(* reporters, threads that only use the port and report its failures       *)
(* (receiveData and the gimbal sender).  is_usb_ok_ is an atomic flag read *)
(* and written without send_cmd_mutex_, so setSerialLinkState is two       *)
(* steps: the exchange of the flag, and the critical section that tells    *)
(* the gate.  Sleeps are left out: a thread may be slow at every step.     *)
(***************************************************************************)
EXTENDS ChassisCommand

CONSTANT Reporters  \* of "receive" and "gimbal"

ASSUME ThreadAssumption == "tx" \notin Reporters /\ "protect" \notin Reporters

Threads == Reporters \cup {"tx", "protect"}

VARIABLES
  is_usb_ok,
  link_call,              \* the half of setSerialLinkState each thread still owes
  emergency_stop_active,
  estop_call,             \* the half of emergencyStopCallback the executor still owes
  device,                 \* the device node exists
  port,                   \* "stale": open, but the device behind it is gone
  protect_pc,
  reporter,               \* [Reporters -> "idle", "busy" or "failed"]
  tx_pc,
  packet,                 \* sendData's local copy of the frame
  wire,                   \* the last frame the MCU got; it stands still before the first
  late,                   \* history: motions written while forbidden, since a beat might move
  outage                  \* history: since the copy the gate was told the link was "lost",
                          \* and then "back"

thread_vars == <<link_call, estop_call, protect_pc, reporter, tx_pc, packet>>
link_vars == <<chassis_vars, thread_vars, is_usb_ok, emergency_stop_active, device, port,
               wire, late, outage>>

LinkInit ==
  /\ ChassisInit
  /\ is_usb_ok = FALSE /\ link_call = [t \in Threads |-> "none"]
  /\ emergency_stop_active = FALSE /\ estop_call = "none"
  /\ device \in BOOLEAN /\ port = "closed"
  /\ protect_pc = "open"
  /\ reporter = [r \in Reporters |-> "idle"]
  /\ tx_pc = "poll" /\ packet = ZeroOutput
  /\ wire = ZeroOutput /\ late = 0 /\ outage = "none"
-----------------------------------------------------------------------------
(* setSerialLinkState *)

\* is_usb_ok_.exchange(up), before the mutex.
ExchangeFlag(t, up) ==
  /\ is_usb_ok' = up
  /\ link_call' = [link_call EXCEPT ![t] = IF up THEN "up" ELSE "down"]

\* The critical section.
LinkLocked(t) ==
  /\ \/ /\ link_call[t] = "up" /\ LinkUp
        /\ outage' = IF outage = "lost" THEN "back" ELSE outage
     \/ /\ link_call[t] = "down" /\ LinkDown
        /\ outage' = "lost"
  /\ link_call' = [link_call EXCEPT ![t] = "none"]
  /\ UNCHANGED <<is_usb_ok, emergency_stop_active, estop_call, device, port, protect_pc,
                 reporter, tx_pc, packet, wire, late>>

Owes(t) == link_call[t] # "none"
-----------------------------------------------------------------------------
(* The executor.  One callback runs at a time. *)

ExecutorStep ==
  /\ estop_call = "none"
  /\ \/ \E v \in Commands : CmdVelCallback(v)
     \/ \E sample \in Samples : ExecutionCommandCallback(sample)
  /\ UNCHANGED <<thread_vars, is_usb_ok, emergency_stop_active, device, port, wire, late, outage>>

\* emergencyStopCallback: the atomic store, then the critical section.
EStopStore(active) ==
  /\ estop_call = "none"
  /\ estop_call' = IF active THEN "raise" ELSE "clear"
  /\ emergency_stop_active' = active
  /\ UNCHANGED <<chassis_vars, is_usb_ok, link_call, device, port, protect_pc, reporter,
                 tx_pc, packet, wire, late, outage>>

\* Mutant: the zero frame is left to the next beat.
EStopLocked_GateOnly ==
  /\ estop_call # "none" /\ estop_call' = "none"
  /\ OnEmergencyStop(estop_call = "raise")
  /\ UNCHANGED <<frame, sending, is_usb_ok, link_call, emergency_stop_active, device, port,
                 protect_pc, reporter, tx_pc, packet, wire, late, outage>>

EStopLocked ==
  /\ estop_call # "none"
  /\ EmergencyStopCallback(estop_call = "raise")
  /\ estop_call' = "none"
  /\ UNCHANGED <<is_usb_ok, link_call, emergency_stop_active, device, port, protect_pc,
                 reporter, tx_pc, packet, wire, late, outage>>
-----------------------------------------------------------------------------
(* sendData *)

SendPrologue ==
  /\ SendInit
  /\ UNCHANGED <<thread_vars, is_usb_ok, emergency_stop_active, device, port, wire, late, outage>>

\* Mutant: beats that would only carry a stop are skipped.
SendPoll_OnlyMotion ==
  /\ tx_pc = "poll" /\ sending /\ ~Owes("tx") /\ is_usb_ok /\ ~TickOverrides
  /\ tx_pc' = "beat"
  /\ UNCHANGED <<chassis_vars, is_usb_ok, link_call, emergency_stop_active, estop_call,
                 device, port, protect_pc, reporter, packet, wire, late, outage>>

SendPoll ==
  /\ tx_pc = "poll" /\ sending /\ ~Owes("tx") /\ is_usb_ok
  /\ tx_pc' = "beat"
  /\ UNCHANGED <<chassis_vars, is_usb_ok, link_call, emergency_stop_active, estop_call,
                 device, port, protect_pc, reporter, packet, wire, late, outage>>

\* The critical section: the gate's tick, then the copy.
SendCopy ==
  /\ tx_pc = "beat" /\ tx_pc' = "check"
  /\ SendBeat
  /\ packet' = BeatOutput
  /\ late' = IF MotionForbidden THEN late ELSE 0
  /\ outage' = "none"
  /\ UNCHANGED <<is_usb_ok, link_call, emergency_stop_active, estop_call, device, port,
                 protect_pc, reporter, wire>>

\* sendSerialFrame looks at the flag again and drops the frame without a word.
SendCheck ==
  /\ tx_pc = "check"
  /\ tx_pc' = IF is_usb_ok THEN "write" ELSE "poll"
  /\ UNCHANGED <<chassis_vars, is_usb_ok, link_call, emergency_stop_active, estop_call,
                 device, port, protect_pc, reporter, packet, wire, late, outage>>

\* Mutant: the packet is sent again before the next copy.
SendWrite_Repeats ==
  /\ tx_pc = "write" /\ port = "open"
  /\ tx_pc' \in {"poll", "check"}
  /\ wire' = packet
  /\ late' = IF MotionForbidden /\ packet.v \in Moving /\ late < 2 THEN late + 1 ELSE late
  /\ UNCHANGED <<chassis_vars, is_usb_ok, link_call, emergency_stop_active, estop_call,
                 device, port, protect_pc, reporter, packet, outage>>

SendWrite ==
  /\ tx_pc = "write" /\ port = "open"
  /\ tx_pc' = "poll"
  /\ wire' = packet
  /\ late' = IF MotionForbidden /\ packet.v \in Moving /\ late < 2 THEN late + 1 ELSE late
  /\ UNCHANGED <<chassis_vars, is_usb_ok, link_call, emergency_stop_active, estop_call,
                 device, port, protect_pc, reporter, packet, outage>>

\* The port is closed or send throws; the write itself may also fail on a live device.
SendFail ==
  /\ tx_pc = "write"
  /\ tx_pc' = "failed"
  /\ UNCHANGED <<chassis_vars, is_usb_ok, link_call, emergency_stop_active, estop_call,
                 device, port, protect_pc, reporter, packet, wire, late, outage>>

\* Mutant: the failure is logged and not reported.
SendReport_LogsOnly ==
  /\ tx_pc = "failed" /\ tx_pc' = "poll"
  /\ UNCHANGED <<chassis_vars, is_usb_ok, link_call, emergency_stop_active, estop_call,
                 device, port, protect_pc, reporter, packet, wire, late, outage>>

\* The catch block.
SendReport ==
  /\ tx_pc = "failed" /\ tx_pc' = "poll"
  /\ ExchangeFlag("tx", FALSE)
  /\ UNCHANGED <<chassis_vars, emergency_stop_active, estop_call, device, port, protect_pc,
                 reporter, packet, wire, late, outage>>
-----------------------------------------------------------------------------
(* receiveData and the gimbal sender, as far as the link goes *)

ReporterMoves(r, from, to) ==
  /\ reporter[r] = from
  /\ reporter' = [reporter EXCEPT ![r] = to]
  /\ UNCHANGED <<chassis_vars, emergency_stop_active, estop_call, device, port, protect_pc,
                 tx_pc, packet, wire, late, outage>>

\* The flag was up, the thread goes on to use the port.
ReporterStart(r) ==
  /\ ~Owes(r) /\ is_usb_ok
  /\ ReporterMoves(r, "idle", "busy") /\ UNCHANGED <<is_usb_ok, link_call>>

ReporterDone(r) ==
  /\ port = "open"
  /\ ReporterMoves(r, "busy", "idle") /\ UNCHANGED <<is_usb_ok, link_call>>

\* The port throws, or the handler of a message does.
ReporterFail(r) ==
  ReporterMoves(r, "busy", "failed") /\ UNCHANGED <<is_usb_ok, link_call>>

\* The catch block, at any later time.
ReporterReport(r) ==
  ReporterMoves(r, "failed", "idle") /\ ExchangeFlag(r, FALSE)
-----------------------------------------------------------------------------
(* serialPortProtect *)

\* Mutant: the flag goes up whatever open() did.
ProtectOpen_AlwaysUp ==
  /\ protect_pc = "open" /\ protect_pc' = "watch"
  /\ port' = IF device THEN "open" ELSE port
  /\ ExchangeFlag("protect", TRUE)
  /\ UNCHANGED <<chassis_vars, emergency_stop_active, estop_call, device, reporter, tx_pc,
                 packet, wire, late, outage>>

\* Mutant: a failed open() is not reported, the flag being down already.
ProtectOpen_SilentFailure ==
  /\ protect_pc = "open" /\ protect_pc' = "watch"
  /\ port' = IF device THEN "open" ELSE port
  /\ IF device THEN ExchangeFlag("protect", TRUE) ELSE UNCHANGED <<is_usb_ok, link_call>>
  /\ UNCHANGED <<chassis_vars, emergency_stop_active, estop_call, device, reporter, tx_pc,
                 packet, wire, late, outage>>

\* open() succeeds exactly when the device is there.
ProtectOpen ==
  /\ protect_pc = "open" /\ protect_pc' = "watch"
  /\ port' = IF device THEN "open" ELSE port
  /\ ExchangeFlag("protect", device)
  /\ UNCHANGED <<chassis_vars, emergency_stop_active, estop_call, device, reporter, tx_pc,
                 packet, wire, late, outage>>

Alive == port # "closed" /\ device

\* The probe of a link believed healthy.
ProtectWatch ==
  /\ protect_pc = "watch" /\ ~Owes("protect") /\ protect_pc' = "recheck"
  /\ IF is_usb_ok /\ ~Alive
       THEN ExchangeFlag("protect", FALSE)
       ELSE UNCHANGED <<is_usb_ok, link_call>>
  /\ UNCHANGED <<chassis_vars, emergency_stop_active, estop_call, device, port, reporter,
                 tx_pc, packet, wire, late, outage>>

\* The flag is read again; a link that is down is closed and opened anew.
ProtectRecheck ==
  /\ protect_pc = "recheck" /\ ~Owes("protect")
  /\ protect_pc' = IF is_usb_ok THEN "watch" ELSE "open"
  /\ port' = IF is_usb_ok THEN port ELSE "closed"
  /\ UNCHANGED <<chassis_vars, is_usb_ok, link_call, emergency_stop_active, estop_call,
                 device, reporter, tx_pc, packet, wire, late, outage>>
-----------------------------------------------------------------------------
(* The environment *)

Unplug ==
  /\ device /\ device' = FALSE
  /\ port' = IF port = "open" THEN "stale" ELSE port
  /\ UNCHANGED <<chassis_vars, thread_vars, is_usb_ok, emergency_stop_active, wire, late, outage>>

Plug ==
  /\ ~device /\ device' = TRUE
  /\ UNCHANGED <<chassis_vars, thread_vars, is_usb_ok, emergency_stop_active, port, wire,
                 late, outage>>

Elapse ==
  /\ TimePasses
  /\ UNCHANGED <<thread_vars, is_usb_ok, emergency_stop_active, device, port, wire, late, outage>>
-----------------------------------------------------------------------------
SendStep ==
  SendPrologue \/ SendPoll \/ SendCopy \/ SendCheck \/ SendWrite \/ SendFail \/ SendReport
ProtectStep == ProtectOpen \/ ProtectWatch \/ ProtectRecheck
ReporterStep(r) == ReporterStart(r) \/ ReporterDone(r) \/ ReporterFail(r) \/ ReporterReport(r)

\* Everything but the reporters and time.
CoreNext ==
  \/ ExecutorStep
  \/ \E active \in BOOLEAN : EStopStore(active)
  \/ EStopLocked
  \/ SendStep
  \/ ProtectStep
  \/ \E t \in Threads : LinkLocked(t)
  \/ Unplug
  \/ Plug

LinkNext == CoreNext \/ Elapse \/ \E r \in Reporters : ReporterStep(r)

LinkSpec == LinkInit /\ [][LinkNext]_link_vars

\* Every thread runs: a step it can take for good is taken.  The receiver may wait
\* for a byte for ever, so only its report of a failure is fair.
LinkFairness ==
  /\ WF_link_vars(SendStep)
  /\ WF_link_vars(ProtectStep)
  /\ WF_link_vars(EStopLocked)
  /\ \A t \in Threads : WF_link_vars(LinkLocked(t))
  /\ \A r \in Reporters : WF_link_vars(ReporterReport(r))

FairLinkSpec == LinkSpec /\ LinkFairness
-----------------------------------------------------------------------------
\* The type invariant of the link.
LinkTypeOK ==
  /\ ChassisTypeOK
  /\ is_usb_ok \in BOOLEAN /\ link_call \in [Threads -> {"none", "up", "down"}]
  /\ emergency_stop_active \in BOOLEAN /\ estop_call \in {"none", "raise", "clear"}
  /\ device \in BOOLEAN /\ port \in {"closed", "open", "stale"}
  /\ protect_pc \in {"open", "watch", "recheck"}
  /\ reporter \in [Reporters -> {"idle", "busy", "failed"}]
  /\ tx_pc \in {"poll", "beat", "check", "write", "failed"}
  /\ packet \in Outputs /\ wire \in Outputs
  /\ late \in 0..2 /\ outage \in {"none", "lost", "back"}

\* However a revocation falls between the copy, the check and the write of the send
\* thread, at most one motion still reaches the MCU after it: the packet already
\* copied, never a second one (sendData copies under the mutex, writes outside it).
AtMostOneLateMotion == late <= 1

\* Nobody believes in a link whose port is closed: a failed open never raises the
\* flag and a port is closed only with the flag down (serialPortProtect, comment of
\* lines 434-436).
ClosedPortIsDown == port = "closed" => ~is_usb_ok

\* The threads keep the promises of the chassis exit: every step of the link is a
\* step of ChassisCommand or leaves the gate and the frame alone.
ImplementsChassis == ChassisSpec

\* An emergency stop in force over a link that stays up reaches the MCU and stays
\* there: from some moment on every frame is zero with stop set.
EmergencyStopReachesWire ==
  <>[](emergency_stop /\ is_usb_ok) => <>[](wire = ZeroOutput)

\* Once the device stays plugged in, the link does not stay down or on a dead handle.
LinkRecovers == <>[]device => []<>(is_usb_ok /\ port = "open")

\* Once the device stays away, the flag and the gate end up down, whatever reports
\* and reconnections were under way.
LossIsNoticed == <>[]~device => <>[](~is_usb_ok /\ ~link_up)

\* A link that stays up in the flag ends up up in the gate as well: a reconnection
\* restores the link (cmd_vel_authorization.hpp:142).
GateLearnsOfReconnection == <>[]is_usb_ok => <>[]link_up

\* No motion copied before a link loss is written after the reconnection
\* (setSerialLinkState, comment of lines 498-499: the first frame of a link that is
\* back cannot be an old non-zero command).
ReconnectNeverReplaysMotion ==
  [][SendWrite => ~(outage = "back" /\ packet.v \in Moving)]_link_vars
=============================================================================
