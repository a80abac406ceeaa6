------------------------------ MODULE Shutdown ------------------------------
(***************************************************************************)
(* The life of StandardRobotPpRos2Node around its receive thread: the      *)
(* loops of its other threads, which look at rclcpp::ok() once a turn, the *)
(* shutdown of the context, and the destructor, which joins the threads    *)
(* one after the other and closes the port.  What the threads do to the    *)
(* frame and the gate is in SerialLink; here a turn may lose or restore    *)
(* the link.                                                               *)
(***************************************************************************)
EXTENDS RefereeRelay

VARIABLES
  phase,               \* how far the destructor is
  gimbal_cmd_running,
  thread,              \* [Loops -> "head", "turn" or "exited"]
  port_open

life_vars == <<phase, gimbal_cmd_running, thread, port_open>>
node_vars == <<relay_vars, life_vars>>

Loops == {"gimbal", "send", "protect"}

\* The protection thread opens the port before it first looks at rclcpp::ok().
ShutdownInit ==
  /\ RelayInit
  /\ phase = "alive" /\ gimbal_cmd_running = TRUE
  /\ thread = [t \in Loops |-> IF t = "protect" THEN "turn" ELSE "head"]
  /\ port_open = FALSE

\* Mutant: the send thread looks at the flag first and sleeps while the link is down.
GoesOn_FlagFirst(t) ==
  \/ ok /\ (t = "gimbal" => gimbal_cmd_running)
  \/ t = "send" /\ ~is_usb_ok

\* The condition of each loop.
GoesOn(t) == ok /\ (t = "gimbal" => gimbal_cmd_running)

LoopHead(t) ==
  /\ thread[t] = "head"
  /\ thread' = [thread EXCEPT ![t] = IF GoesOn(t) THEN "turn" ELSE "exited"]
  /\ UNCHANGED <<relay_vars, phase, gimbal_cmd_running, port_open>>

\* A turn of a thread that sends: nothing to do, a frame, or an exception reported.
SendTurn(t) ==
  /\ t # "protect" /\ thread[t] = "turn"
  /\ thread' = [thread EXCEPT ![t] = "head"]
  /\ is_usb_ok' \in {FALSE, is_usb_ok}
  /\ UNCHANGED <<ok, receive, color_vars, record_vars, phase, gimbal_cmd_running, port_open>>

\* serialPortProtect finds the link healthy, or closes the port and tries to open it.
ProtectWatches ==
  /\ thread["protect"] = "turn" /\ is_usb_ok
  /\ thread' = [thread EXCEPT !["protect"] = "head"]
  /\ UNCHANGED <<relay_vars, phase, gimbal_cmd_running, port_open>>

ProtectReopens(success) ==
  /\ thread["protect"] = "turn"
  /\ thread' = [thread EXCEPT !["protect"] = "head"]
  /\ port_open' = success /\ is_usb_ok' = success
  /\ UNCHANGED <<ok, receive, color_vars, record_vars, phase, gimbal_cmd_running>>

ReceiveExits ==
  /\ At("poll") /\ ~ok
  /\ GoTo("exited")
  /\ UNCHANGED <<ok, is_usb_ok, color_vars, record_vars, life_vars>>

\* The context is shut down, at any moment.
ContextShutdown ==
  /\ ok /\ ok' = FALSE
  /\ UNCHANGED <<is_usb_ok, receive, color_vars, record_vars, life_vars>>
-----------------------------------------------------------------------------
(* The destructor *)

Reaches(next) ==
  /\ phase' = next
  /\ UNCHANGED <<relay_vars, gimbal_cmd_running, thread, port_open>>

\* The node is destroyed, after a shutdown or because its component is unloaded.
DestroyBridge ==
  /\ phase = "alive"
  /\ phase' = "bridge" /\ gimbal_cmd_running' = FALSE
  /\ UNCHANGED <<relay_vars, thread, port_open>>

JoinGimbal  == phase = "bridge" /\ thread["gimbal"] = "exited" /\ Reaches("send")
JoinSend    == phase = "send" /\ thread["send"] = "exited" /\ Reaches("receive")
JoinReceive == phase = "receive" /\ At("exited") /\ Reaches("protect")

\* Mutant: the protection thread is not waited for.
JoinProtect_Detached == phase = "protect" /\ Reaches("close")

JoinProtect == phase = "protect" /\ thread["protect"] = "exited" /\ Reaches("close")

ClosePort ==
  /\ phase = "close"
  /\ phase' = "gone" /\ port_open' = FALSE
  /\ UNCHANGED <<relay_vars, gimbal_cmd_running, thread>>

Joins == JoinGimbal \/ JoinSend \/ JoinReceive \/ JoinProtect \/ ClosePort
-----------------------------------------------------------------------------
\* The executor no longer serves a node that is being destroyed.
ShutdownNext ==
  \/ ReceiveStep /\ UNCHANGED life_vars
  \/ phase = "alive" /\ Answers /\ UNCHANGED life_vars
  \/ ReceiveExits
  \/ \E t \in Loops : LoopHead(t) \/ SendTurn(t)
  \/ ProtectWatches \/ \E success \in BOOLEAN : ProtectReopens(success)
  \/ ContextShutdown
  \/ DestroyBridge \/ Joins

\* Every thread keeps running, except that a read may last for ever; the executor serves
\* the node while it lives, and the destructor goes on when it can.
ShutdownFairness ==
  /\ WF_node_vars(Poll /\ UNCHANGED life_vars)
  /\ WF_node_vars(Handle /\ UNCHANGED life_vars)
  /\ WF_node_vars(ReceiveExits)
  /\ \A t \in Loops : WF_node_vars(LoopHead(t) \/ SendTurn(t))
  /\ WF_node_vars(ProtectWatches \/ \E success \in BOOLEAN : ProtectReopens(success))
  /\ WF_node_vars(phase = "alive" /\ ParameterCallback /\ UNCHANGED life_vars)
  /\ WF_node_vars(Joins)

ShutdownSpec == ShutdownInit /\ [][ShutdownNext]_node_vars /\ ShutdownFairness
-----------------------------------------------------------------------------
\* The type invariant of the node's life.
ShutdownTypeOK ==
  /\ RelayTypeOK
  /\ phase \in {"alive", "bridge", "send", "receive", "protect", "close", "gone"}
  /\ gimbal_cmd_running \in BOOLEAN /\ port_open \in BOOLEAN
  /\ thread \in [Loops -> {"head", "turn", "exited"}]

\* A destroyed node leaves no thread behind and no open port: nothing reopens the port
\* after the destructor has closed it, however late a thread noticed the shutdown.
PortClosedWhenGone ==
  phase = "gone" => /\ ~port_open /\ At("exited")
                    /\ \A t \in Loops : thread[t] = "exited"

\* After a shutdown of the context the destructor returns, unless the receive thread is
\* for ever inside one read: neither a link that is down, a service that is missing, nor
\* an exception keeps a thread from noticing the shutdown.
DestructorReturns ==
  (<>[](~ok /\ phase # "alive") /\ ~<>[]At("read")) => <>(phase = "gone")

\* What the detector and the MCU owe the node: a link that keeps coming back to a receive
\* thread that reads, statuses that carry a colour, a service that is found ready, and an
\* answer within the half second before the next status makes a new client.
DetectorIsThere ==
  /\ []<><<\E id \in RobotIds : HasColor(id) /\ ReadRobotStatus(id)>>_relay_vars
  /\ SF_relay_vars(AskNewClient)
  /\ SF_relay_vars(TakeAnswer(TRUE))

\* A node that is left running gets its colour accepted by a detector that is there, over
\* requests that are refused, lost with their client or never sent.
ColorIsEventuallyAccepted ==
  (DetectorIsThere /\ [](ok /\ phase = "alive")) => <>initial_set_param
=============================================================================
