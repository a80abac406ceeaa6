---------------------------- MODULE RefereeRelay ----------------------------
(***************************************************************************)
(* What receiveData does with a message once it is decoded.  Most are      *)
(* copied to a topic; a game status may start or stop the rosbag through   *)
(* callTriggerService, a robot status may set the detector's colour        *)
(* through setParam, and both talk to a service from the receive thread    *)
(* while the executor delivers the detector's answers.  A message is one   *)
(* step unless it reaches such a call; the bytes are in SerialReceive.     *)
(***************************************************************************)
EXTENDS Integers, Sequences

CONSTANTS
  RobotIds,       \* bound: the robot_id a status may carry, of 0..255
  Progresses,     \* bound: the game_progress a game status may carry, of 0..255
  SetDetectorColor, RecordRosbag  \* the node's parameters

ASSUME RelayAssumption ==
  /\ RobotIds \subseteq 0..255 /\ Progresses \subseteq 0..255
  /\ SetDetectorColor \in BOOLEAN /\ RecordRosbag \in BOOLEAN

VARIABLES
  ok,                 \* rclcpp::ok()
  is_usb_ok,
  receive,            \* where the receive thread is
  initial_set_param,
  previous_receive_color,
  detector_named,     \* detector_node_name_ is not empty
  asked,              \* colours the current parameter client has asked for, unanswered
  set_param_future,
  answer,             \* the answer the executor has taken but not yet acted upon
  previous_game_progress,
  seen_progress,      \* history: the progress of the last game status
  calls               \* history: trigger calls since that progress last changed

color_vars == <<initial_set_param, previous_receive_color, detector_named, asked,
                set_param_future, answer>>
record_vars == <<previous_game_progress, seen_progress, calls>>
relay_vars == <<ok, is_usb_ok, receive, color_vars, record_vars>>

Colors == {0, 1}
COUNT_DOWN == 3
GAME_OVER == 5

RelayInit ==
  /\ ok = TRUE /\ is_usb_ok = FALSE
  /\ receive = [at |-> "poll"]
  /\ initial_set_param = FALSE /\ previous_receive_color = 0 /\ detector_named = FALSE
  /\ asked = <<>> /\ set_param_future = "invalid" /\ answer = "none"
  /\ previous_game_progress = 0 /\ seen_progress = 0 /\ calls = 0

\* Where the receive thread can be; setParam has the colour as its argument.
Places == [at : {"poll", "read", "trigger", "exited"}] \cup [at : {"set_param"}, color : Colors]

At(place) == receive.at = place
GoTo(place) == receive' = [at |-> place]
-----------------------------------------------------------------------------
(* The receive thread *)

\* The loop head with the link up, up to the blocking read.
Poll ==
  /\ At("poll") /\ ok /\ is_usb_ok
  /\ GoTo("read")
  /\ UNCHANGED <<ok, is_usb_ok, color_vars, record_vars>>

\* A message that is only copied to its topic, or nothing usable.
PlainMessage ==
  /\ At("read")
  /\ GoTo("poll")
  /\ UNCHANGED <<ok, is_usb_ok, color_vars, record_vars>>

\* A read that fails, or publishRobotInfo with a model number nobody knows: the exception
\* ends in setSerialLinkState(false).
MessageThrows ==
  /\ At("read")
  /\ is_usb_ok' = FALSE
  /\ GoTo("poll")
  /\ UNCHANGED <<ok, color_vars, record_vars>>

HasColor(id) == ~(id = 0 \/ (id > 11 /\ id < 101))
DetectColor(id) == IF id >= 100 THEN 0 ELSE 1

\* publishRobotStatus.  The colour counts as received before anyone is told.
ReadRobotStatus(id) ==
  /\ At("read")
  /\ LET color == DetectColor(id)
     IN  IF /\ SetDetectorColor /\ HasColor(id)
            /\ ~initial_set_param \/ color # previous_receive_color
           THEN /\ previous_receive_color' = color
                /\ receive' = [at |-> "set_param", color |-> color]
           ELSE /\ GoTo("poll")
                /\ UNCHANGED previous_receive_color
  /\ UNCHANGED <<ok, is_usb_ok, initial_set_param, detector_named, asked, set_param_future,
                 answer, record_vars>>

TriggersCall(progress) ==
  RecordRosbag /\ progress # previous_game_progress /\ progress \in {COUNT_DOWN, GAME_OVER}

\* What a game status adds to the history.
GameHistory(progress) ==
  /\ seen_progress' = progress
  /\ calls' = (IF progress = seen_progress THEN calls ELSE 0)
                + (IF TriggersCall(progress) THEN 1 ELSE 0)

\* Mutant: the progress is noted after the call, which an exception leaves.
ReadGameStatus_NotesLate(progress) ==
  /\ At("read")
  /\ GameHistory(progress)
  /\ previous_game_progress' = IF TriggersCall(progress) THEN previous_game_progress ELSE progress
  /\ GoTo(IF TriggersCall(progress) THEN "trigger" ELSE "poll")
  /\ UNCHANGED <<ok, is_usb_ok, color_vars>>

\* publishGameStatus.
ReadGameStatus(progress) ==
  /\ At("read")
  /\ GameHistory(progress)
  /\ previous_game_progress' = progress
  /\ GoTo(IF TriggersCall(progress) THEN "trigger" ELSE "poll")
  /\ UNCHANGED <<ok, is_usb_ok, color_vars>>

\* callTriggerService gives up after five seconds, or when the context is shut down.
TriggerGivesUp ==
  /\ At("trigger")
  /\ GoTo("poll")
  /\ UNCHANGED <<ok, is_usb_ok, color_vars, record_vars>>

\* The service is there and gets the request; waiting for the answer adds the node to an
\* executor that is not the one it is in, which throws.
TriggerThrows ==
  /\ At("trigger")
  /\ is_usb_ok' = FALSE
  /\ GoTo("poll")
  /\ UNCHANGED <<ok, color_vars, record_vars>>
-----------------------------------------------------------------------------
(* setParam *)

\* Mutant: a client that has asked once never asks again.
MayAsk_Once(future) == future = "invalid"

MayAsk_Always(future) == TRUE

\* No request has been made yet, or the last one is over.
MayAsk(future) == future \in {"invalid", "ready"}

\* Before the first success the detector is looked for in the graph; a name once found stays.
NoDetector ==
  /\ At("set_param") /\ ~initial_set_param /\ ~detector_named
  /\ GoTo("poll")
  /\ UNCHANGED <<ok, is_usb_ok, color_vars, record_vars>>

\* What is left of a request when its client is replaced: nobody waits for the answer,
\* and the future of a broken promise is ready.
Abandoned(future) == IF future = "pending" THEN "ready" ELSE future

\* Then a new client is made, whatever the old one was waiting for.  Its service may not
\* be ready yet.
ServiceNotReady ==
  /\ At("set_param") /\ ~initial_set_param
  /\ detector_named' = TRUE
  /\ asked' = <<>> /\ set_param_future' = Abandoned(set_param_future)
  /\ GoTo("poll")
  /\ UNCHANGED <<ok, is_usb_ok, initial_set_param, previous_receive_color, answer, record_vars>>

AskNewClient ==
  /\ At("set_param") /\ ~initial_set_param
  /\ detector_named' = TRUE
  /\ LET future == Abandoned(set_param_future)
     IN  /\ asked' = IF MayAsk(future) THEN <<receive.color>> ELSE <<>>
         /\ set_param_future' = IF MayAsk(future) THEN "pending" ELSE future
  /\ GoTo("poll")
  /\ UNCHANGED <<ok, is_usb_ok, initial_set_param, previous_receive_color, answer, record_vars>>

\* After it the client is kept, and a colour that comes while it waits is passed over.
AskKeptClient ==
  /\ At("set_param") /\ initial_set_param
  /\ asked' = IF MayAsk(set_param_future) THEN Append(asked, receive.color) ELSE asked
  /\ set_param_future' = IF MayAsk(set_param_future) THEN "pending" ELSE set_param_future
  /\ GoTo("poll")
  /\ UNCHANGED <<ok, is_usb_ok, initial_set_param, previous_receive_color, detector_named,
                 answer, record_vars>>

\* The executor takes the detector's answer: the promise is fulfilled, then the callback runs.
TakeAnswer(successful) ==
  /\ ok /\ answer = "none" /\ asked # <<>>
  /\ asked' = Tail(asked) /\ set_param_future' = "ready"
  /\ answer' = IF successful THEN "accepted" ELSE "refused"
  /\ UNCHANGED <<ok, is_usb_ok, receive, initial_set_param, previous_receive_color,
                 detector_named, record_vars>>

ParameterCallback ==
  /\ answer # "none"
  /\ initial_set_param' = (initial_set_param \/ answer = "accepted")
  /\ answer' = "none"
  /\ UNCHANGED <<ok, is_usb_ok, receive, previous_receive_color, detector_named, asked,
                 set_param_future, record_vars>>
-----------------------------------------------------------------------------
Message ==
  \/ PlainMessage \/ MessageThrows
  \/ \E id \in RobotIds : ReadRobotStatus(id)
  \/ \E progress \in Progresses : ReadGameStatus(progress)

\* What the thread does without waiting for the MCU.
Handle ==
  \/ TriggerGivesUp \/ TriggerThrows
  \/ NoDetector \/ ServiceNotReady \/ AskNewClient \/ AskKeptClient

Answers == ParameterCallback \/ \E successful \in BOOLEAN : TakeAnswer(successful)

ReceiveStep == Poll \/ Message \/ Handle
-----------------------------------------------------------------------------
\* The type invariant of the relay.
RelayTypeOK ==
  /\ ok \in BOOLEAN /\ is_usb_ok \in BOOLEAN
  /\ receive \in Places
  /\ initial_set_param \in BOOLEAN /\ previous_receive_color \in Colors
  /\ detector_named \in BOOLEAN
  /\ asked \in Seq(Colors) /\ set_param_future \in {"invalid", "pending", "ready"}
  /\ answer \in {"none", "accepted", "refused"}
  /\ previous_game_progress \in Progresses \cup {0} /\ seen_progress \in Progresses \cup {0}
  /\ calls \in Nat

\* One change of the game's progress makes at most one call to the recorder, whether the
\* call is answered, times out or throws, and however often the referee repeats the
\* progress (publishGameStatus).
OneCallPerChange == calls <= 1

\* At most one colour is on its way to the detector, over any mix of new clients, answers
\* and colour changes, and a colour is on its way exactly while the future is pending.
OneRequestAtATime ==
  /\ Len(asked) <= 1
  /\ asked # <<>> <=> set_param_future = "pending"
=============================================================================
