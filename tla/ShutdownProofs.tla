--------------------------- MODULE ShutdownProofs ---------------------------
(***************************************************************************)
(* What the node keeps of the referee's messages and what its destructor   *)
(* leaves, for any robots, any progress of the game and every parameter.   *)
(***************************************************************************)
EXTENDS Shutdown, SequenceTheorems, TLAPS

\* The progress the node remembers is the one it was told last, so a repetition calls nobody.
CallInv == previous_game_progress = seen_progress /\ calls <= 1

\* A phase of the destructor has waited for every thread before it.
JoinInv ==
  /\ phase \in {"send", "receive", "protect", "close", "gone"} => thread["gimbal"] = "exited"
  /\ phase \in {"receive", "protect", "close", "gone"} => thread["send"] = "exited"
  /\ phase \in {"protect", "close", "gone"} => At("exited")
  /\ phase \in {"close", "gone"} => thread["protect"] = "exited"
  /\ phase = "gone" => ~port_open

NodeInv == ShutdownTypeOK /\ CallInv /\ OneRequestAtATime /\ JoinInv

\* The destructor's part of a step of the relay: a receive thread that has been joined
\* takes none.
LEMMA RelayKeepsJoins ==
  ASSUME JoinInv, UNCHANGED life_vars, At("exited") => At("exited")'
  PROVE  JoinInv'
BY DEF JoinInv, life_vars

\* Going somewhere else leaves the thread in a place.
LEMMA GoToPlace ==
  ASSUME NEW place \in {"poll", "read", "trigger", "exited"}, GoTo(place)
  PROVE  receive' \in Places /\ receive'.at = place
BY DEF GoTo, Places

\* A thread in setParam has a colour to set.
LEMMA SetParamHasColor ==
  ASSUME receive \in Places, At("set_param")
  PROVE  receive.color \in Colors
BY DEF Places, At

\* Every robot that has a colour has one of the two.
LEMMA ColorIsColor == ASSUME NEW id \in Nat PROVE DetectColor(id) \in Colors
BY DEF DetectColor, Colors

\* A message keeps the relay's part of the invariant.
LEMMA MessageKeepsInv ==
  ASSUME NodeInv, Message, UNCHANGED life_vars
  PROVE  NodeInv'
<1> USE DEF NodeInv
<1>1. CASE PlainMessage \/ MessageThrows
  <2>3. receive' \in Places
    BY <1>1, GoToPlace DEF PlainMessage, MessageThrows
  <2>1. RelayTypeOK' /\ CallInv' /\ OneRequestAtATime'
    BY <1>1, <2>3 DEF PlainMessage, MessageThrows, color_vars, record_vars,
       ShutdownTypeOK, RelayTypeOK, CallInv, OneRequestAtATime
  <2>2. At("exited") => At("exited")'
    BY <1>1 DEF PlainMessage, MessageThrows, At
  <2> QED
    BY <2>1, <2>2, RelayKeepsJoins DEF ShutdownTypeOK, life_vars
<1>2. ASSUME NEW id \in RobotIds, ReadRobotStatus(id)
      PROVE  NodeInv'
  <2>1. DetectColor(id) \in Colors
    BY ColorIsColor, RelayAssumption DEF RelayAssumption
  <2>4. receive' \in Places
    BY <1>2, <2>1, GoToPlace DEF ReadRobotStatus, Places
  <2>2. RelayTypeOK' /\ CallInv' /\ OneRequestAtATime'
    BY <1>2, <2>1, <2>4 DEF ReadRobotStatus, record_vars,
       ShutdownTypeOK, RelayTypeOK, CallInv, OneRequestAtATime
  <2>3. At("exited") => At("exited")'
    BY <1>2 DEF ReadRobotStatus, At
  <2> QED
    BY <2>2, <2>3, RelayKeepsJoins DEF ShutdownTypeOK, life_vars
<1>3. ASSUME NEW progress \in Progresses, ReadGameStatus(progress)
      PROVE  NodeInv'
  <2>1. CallInv' /\ calls' \in Nat
    BY <1>3 DEF ReadGameStatus, GameHistory, TriggersCall, CallInv, ShutdownTypeOK, RelayTypeOK
  <2>4. receive' \in Places
    BY <1>3, GoToPlace DEF ReadGameStatus
  <2>2. RelayTypeOK' /\ OneRequestAtATime'
    BY <1>3, <2>1, <2>4 DEF ReadGameStatus, GameHistory, color_vars,
       ShutdownTypeOK, RelayTypeOK, OneRequestAtATime
  <2>3. At("exited") => At("exited")'
    BY <1>3 DEF ReadGameStatus, At
  <2> QED
    BY <2>1, <2>2, <2>3, RelayKeepsJoins DEF ShutdownTypeOK, life_vars
<1> QED
  BY <1>1, <1>2, <1>3 DEF Message

\* So do the calls a message leads to.  A client that is replaced leaves its future ready,
\* so that a new client always asks.
LEMMA HandleKeepsInv ==
  ASSUME NodeInv, Handle, UNCHANGED life_vars
  PROVE  NodeInv'
<1> USE DEF NodeInv
<1>1. At("exited") => At("exited")'
  BY DEF Handle, TriggerGivesUp, TriggerThrows, NoDetector, ServiceNotReady, AskNewClient,
     AskKeptClient, At
<1>3. receive' \in Places
  BY GoToPlace DEF Handle, TriggerGivesUp, TriggerThrows, NoDetector, ServiceNotReady,
     AskNewClient, AskKeptClient
<1>2. RelayTypeOK' /\ CallInv' /\ OneRequestAtATime'
  <2>1. CASE TriggerGivesUp \/ TriggerThrows \/ NoDetector
    BY <1>3, <2>1 DEF TriggerGivesUp, TriggerThrows, NoDetector, color_vars, record_vars,
       ShutdownTypeOK, RelayTypeOK, CallInv, OneRequestAtATime
  <2>2. CASE ServiceNotReady
    BY <1>3, <2>2 DEF ServiceNotReady, Abandoned, record_vars,
       ShutdownTypeOK, RelayTypeOK, CallInv, OneRequestAtATime
  <2>3. CASE AskNewClient
    <3>1. receive.color \in Colors
      BY <2>3, SetParamHasColor DEF AskNewClient, ShutdownTypeOK, RelayTypeOK
    <3>2. asked' = <<receive.color>> /\ set_param_future' = "pending"
      BY <2>3 DEF AskNewClient, Abandoned, MayAsk, ShutdownTypeOK, RelayTypeOK
    <3>3. asked' \in Seq(Colors) /\ Len(asked') = 1 /\ asked' # <<>>
      BY <3>1, <3>2
    <3> QED
      BY <1>3, <2>3, <3>2, <3>3 DEF AskNewClient, record_vars,
         ShutdownTypeOK, RelayTypeOK, CallInv, OneRequestAtATime
  <2>4. CASE AskKeptClient
    <3>1. receive.color \in Colors
      BY <2>4, SetParamHasColor DEF AskKeptClient, ShutdownTypeOK, RelayTypeOK
    <3>2. asked' \in Seq(Colors) /\ set_param_future' \in {"invalid", "pending", "ready"}
          /\ OneRequestAtATime'
      <4>1. CASE MayAsk(set_param_future)
        <5>1. asked = <<>>
          BY <4>1 DEF MayAsk, OneRequestAtATime
        <5>2. asked' = Append(asked, receive.color) /\ set_param_future' = "pending"
          BY <2>4, <4>1 DEF AskKeptClient
        <5> QED
          BY <3>1, <5>1, <5>2 DEF OneRequestAtATime
      <4>2. CASE ~MayAsk(set_param_future)
        BY <2>4, <4>2 DEF AskKeptClient, ShutdownTypeOK, RelayTypeOK, OneRequestAtATime
      <4> QED
        BY <4>1, <4>2
    <3> QED
      BY <1>3, <2>4, <3>2 DEF AskKeptClient, record_vars, ShutdownTypeOK, RelayTypeOK, CallInv
  <2> QED
    BY <2>1, <2>2, <2>3, <2>4 DEF Handle
<1> QED
  BY <1>1, <1>2, RelayKeepsJoins DEF ShutdownTypeOK, life_vars

\* Nothing is left of a sequence of one element.
LEMMA TailOfOne ==
  ASSUME NEW T, NEW s \in Seq(T), s # <<>>, Len(s) <= 1
  PROVE  Tail(s) \in Seq(T) /\ Tail(s) = <<>>
<1>1. Len(s) = 1
  <2>1. Len(s) \in Nat \ {0}
    BY EmptySeq
  <2> QED
    BY <2>1
<1> DEFINE rest == Tail(s)
<1>2. rest \in Seq(T) /\ Len(rest) = 0
  BY <1>1
<1> HIDE DEF rest
<1>3. rest = <<>>
  BY <1>2, EmptySeq
<1> QED
  BY <1>2, <1>3 DEF rest

\* And the executor's part of an answer.
LEMMA AnswersKeepInv ==
  ASSUME NodeInv, Answers, UNCHANGED life_vars
  PROVE  NodeInv'
<1> USE DEF NodeInv
<1>1. At("exited") => At("exited")'
  BY DEF Answers, ParameterCallback, TakeAnswer, At
<1>2. CASE ParameterCallback
  <2>1. RelayTypeOK' /\ CallInv' /\ OneRequestAtATime'
    BY <1>2 DEF ParameterCallback, record_vars,
       ShutdownTypeOK, RelayTypeOK, CallInv, OneRequestAtATime
  <2> QED
    BY <1>1, <2>1, RelayKeepsJoins DEF ShutdownTypeOK, life_vars
<1>3. ASSUME NEW successful \in BOOLEAN, TakeAnswer(successful)
      PROVE  NodeInv'
  <2>1. asked' \in Seq(Colors) /\ asked' = <<>>
    <3>1. asked \in Seq(Colors) /\ asked # <<>> /\ Len(asked) <= 1
      BY <1>3 DEF TakeAnswer, OneRequestAtATime, ShutdownTypeOK, RelayTypeOK
    <3>2. Tail(asked) \in Seq(Colors) /\ Tail(asked) = <<>>
      BY <3>1, TailOfOne
    <3>3. asked' = Tail(asked)
      BY <1>3 DEF TakeAnswer
    <3> QED
      BY <3>2, <3>3
  <2>2. RelayTypeOK' /\ CallInv' /\ OneRequestAtATime'
    BY <1>3, <2>1 DEF TakeAnswer, record_vars,
       ShutdownTypeOK, RelayTypeOK, CallInv, OneRequestAtATime
  <2> QED
    BY <1>1, <2>2, RelayKeepsJoins DEF ShutdownTypeOK, life_vars
<1> QED
  BY <1>2, <1>3 DEF Answers

\* The other threads and the destructor leave the relay alone and keep what was joined.
LEMMA LifeKeepsInv ==
  ASSUME NodeInv,
         \/ \E t \in Loops : LoopHead(t) \/ SendTurn(t)
         \/ ProtectWatches \/ \E success \in BOOLEAN : ProtectReopens(success)
         \/ ReceiveExits \/ ContextShutdown \/ DestroyBridge \/ Joins
  PROVE  NodeInv'
<1> USE DEF NodeInv, ShutdownTypeOK
<1>1. ASSUME NEW t \in Loops, LoopHead(t)
      PROVE  NodeInv'
  BY <1>1 DEF LoopHead, relay_vars, color_vars, record_vars, RelayTypeOK, CallInv,
     OneRequestAtATime, JoinInv, At, Loops
<1>2. ASSUME NEW t \in Loops, SendTurn(t)
      PROVE  NodeInv'
  <2>1. RelayTypeOK' /\ CallInv' /\ OneRequestAtATime'
    BY <1>2 DEF SendTurn, color_vars, record_vars, RelayTypeOK, CallInv, OneRequestAtATime
  <2>2. JoinInv' /\ thread' \in [Loops -> {"head", "turn", "exited"}]
    BY <1>2 DEF SendTurn, JoinInv, At, Loops
  <2> QED
    BY <1>2, <2>1, <2>2 DEF SendTurn
<1>3. CASE ProtectWatches
  BY <1>3 DEF ProtectWatches, relay_vars, color_vars, record_vars, RelayTypeOK, CallInv,
     OneRequestAtATime, JoinInv, At, Loops
<1>4. ASSUME NEW success \in BOOLEAN, ProtectReopens(success)
      PROVE  NodeInv'
  BY <1>4 DEF ProtectReopens, color_vars, record_vars, RelayTypeOK, CallInv,
     OneRequestAtATime, JoinInv, At, Loops
<1>5. CASE ReceiveExits
  <2>1. receive' \in Places /\ receive'.at = "exited"
    BY <1>5, GoToPlace DEF ReceiveExits
  <2> QED
    BY <1>5, <2>1 DEF ReceiveExits, life_vars, color_vars, record_vars, RelayTypeOK, CallInv,
       OneRequestAtATime, JoinInv, At
<1>6. CASE ContextShutdown
  <2>1. RelayTypeOK' /\ CallInv' /\ OneRequestAtATime'
    BY <1>6 DEF ContextShutdown, color_vars, record_vars, RelayTypeOK, CallInv,
       OneRequestAtATime
  <2>2. JoinInv'
    BY <1>6 DEF ContextShutdown, life_vars, JoinInv, At
  <2> QED
    BY <1>6, <2>1, <2>2 DEF ContextShutdown, life_vars
<1>7. CASE DestroyBridge
  BY <1>7 DEF DestroyBridge, relay_vars, color_vars, record_vars, RelayTypeOK, CallInv,
     OneRequestAtATime, JoinInv, At
<1>8. CASE Joins
  BY <1>8 DEF Joins, JoinGimbal, JoinSend, JoinReceive, JoinProtect, ClosePort, Reaches,
     relay_vars, color_vars, record_vars, RelayTypeOK, CallInv, OneRequestAtATime, JoinInv, At
<1> QED
  BY <1>1, <1>2, <1>3, <1>4, <1>5, <1>6, <1>7, <1>8

\* The invariant holds of every state of the node's life.
LEMMA NodeInvAlways == ShutdownSpec => []NodeInv
<1>1. ShutdownInit => NodeInv
  <2>1. [at |-> "poll"] \in Places /\ <<>> \in Seq(Colors) /\ Len(<<>>) = 0
    BY DEF Places
  <2> SUFFICES ASSUME ShutdownInit PROVE NodeInv
    OBVIOUS
  <2>2. RelayTypeOK
    BY <2>1 DEF ShutdownInit, RelayInit, RelayTypeOK, Colors
  <2>4. CallInv
    BY DEF ShutdownInit, RelayInit, CallInv
  <2>5. OneRequestAtATime
    BY <2>1 DEF ShutdownInit, RelayInit, OneRequestAtATime
  <2>3. JoinInv
    BY DEF ShutdownInit, JoinInv
  <2> QED
    BY <2>2, <2>3, <2>4, <2>5 DEF ShutdownInit, NodeInv, ShutdownTypeOK, Loops
<1>2. NodeInv /\ [ShutdownNext]_node_vars => NodeInv'
  <2> SUFFICES ASSUME NodeInv, [ShutdownNext]_node_vars PROVE NodeInv'
    OBVIOUS
  <2>1. CASE UNCHANGED node_vars
    BY <2>1 DEF node_vars, relay_vars, life_vars, color_vars, record_vars, NodeInv,
       ShutdownTypeOK, RelayTypeOK, CallInv, OneRequestAtATime, JoinInv, At
  <2>2. CASE Poll /\ UNCHANGED life_vars
    <3>1. receive' \in Places
      BY <2>2, GoToPlace DEF Poll
    <3> QED
      BY <2>2, <3>1 DEF Poll, life_vars, color_vars, record_vars, NodeInv,
         ShutdownTypeOK, RelayTypeOK, CallInv, OneRequestAtATime, JoinInv, At
  <2> QED
    BY <2>1, <2>2, MessageKeepsInv, HandleKeepsInv, AnswersKeepInv, LifeKeepsInv
    DEF ShutdownNext, ReceiveStep
<1> QED
  BY <1>1, <1>2, PTL DEF ShutdownSpec

\* The relay and the node's life keep their types (ShutdownTypeOK).
THEOREM ShutdownTypeCorrect == ShutdownSpec => []ShutdownTypeOK
<1>1. NodeInv => ShutdownTypeOK
  BY DEF NodeInv
<1> QED
  BY <1>1, NodeInvAlways, PTL

\* One change of the game's progress makes at most one call (OneCallPerChange), for any
\* progress the referee reports and however the calls end.
THEOREM OneCallIsEnough == ShutdownSpec => []OneCallPerChange
<1>1. NodeInv => OneCallPerChange
  BY DEF NodeInv, CallInv, OneCallPerChange
<1> QED
  BY <1>1, NodeInvAlways, PTL

\* The detector has at most one colour to answer for (OneRequestAtATime), whatever robots
\* the referee names and whenever clients are replaced.
THEOREM RequestsAreSingle == ShutdownSpec => []OneRequestAtATime
<1>1. NodeInv => OneRequestAtATime
  BY DEF NodeInv
<1> QED
  BY <1>1, NodeInvAlways, PTL

\* Every thread is gone and the port closed once the node is (PortClosedWhenGone).
THEOREM NothingIsLeftBehind == ShutdownSpec => []PortClosedWhenGone
<1>1. NodeInv => PortClosedWhenGone
  BY DEF NodeInv, JoinInv, PortClosedWhenGone, Loops
<1> QED
  BY <1>1, NodeInvAlways, PTL
=============================================================================
