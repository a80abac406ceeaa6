# A TLA+ development of standard_robot_pp_ros2

`standard_robot_pp_ros2` is the ROS 2 node through which a robot's upper computer talks to
its MCU over a USB serial port: it sends chassis velocities and gimbal commands, receives
sensor and referee data, and decides whether the chassis may move at all. The development
models the parts that decide, the threads they run on, the byte stream they read and the
life of the node around them, checks them with TLC on small instances, and proves the
safety promises with TLAPS for all instances. File names below are relative to
`src/include/standard_robot_pp_ros2/` (headers) and `src/src/` (sources).

## 1. Inventory of the system

| Part | State it keeps | Operations | What is hard about it | What makes it correct |
|---|---|---|---|---|
| `CmdVelAuthorizationGate` (`cmd_vel_authorization.hpp`) | link, authorization, emergency stop, STOP, last sequence and reference, last cmd_vel, remembered motion and two time stamps | `onExecutionCommand`, `onEmergencyStop`, `onSerialLinkDown/Up`, `onCmdVel`, `tick` | a hold window that repeats an old motion, a watchdog that its zeros feed, five ways to revoke; redelivered samples | nothing is remembered past a revocation, what is remembered is recent, redelivery never authorizes |
| Chassis exit (`standard_robot_pp_ros2.cpp`: callbacks, `sendData`) | `send_robot_cmd_data_.data.speed_vector`, with the gate under `send_cmd_mutex_` | `cmdVelCallback`, `executionCommandCallback`, `emergencyStopCallback`, prologue and 5 ms beat of the send thread | gate and frame are two pieces of state that each callback must change together | the frame is zero whenever motion is forbidden, only a `cmd_vel` undoes a halt, and the whole exit implements a motion lease |
| Other fields of the frame | robot mode, shoot, gimbal joints: bytes of the same struct | `cmdRobotModeCallback`, `cmdShootCallback`, `cmdGimbalJointCallback`, the prologue and beat of the send thread | the prologue races the first callbacks; two stop topics share one flag | a mode is lost to the prologue at most once; a halt written before the prologue survives it |
| Serial link (`sendData`, `sendSerialFrame`, `serialPortProtect`, `setSerialLinkState`) | `is_usb_ok_`, the port, the device | four threads: executor, send, receive, port protection; a fifth with the gimbal bridge | an atomic flag outside the mutex; a packet copied under the lock and written outside it; failures reported late | at most one late frame, the flag is down on a closed port, a loss is noticed and a device that stays is reopened |
| Gimbal bridge (`gimbal_bridge_addon.hpp`) | latest vision command and its time, the frame | subscription, 5 ms send loop, fire permission | permission asked before the write; stale commands; an undefined conversion | at most one late fire frame, silence after vision falls silent |
| Yaw acknowledgement (`gimbal_yaw_status_logic.hpp`, `gimbal_yaw_status_bridge.cpp`) | accepted request, latest feedback, rate, dwell | request, joint state with two TF lookups, publish timer | freshness of several inputs with one clock, dwell over samples, leases | an acknowledgement answers its request and ends before the lease on its feedback |
| Gimbal manager (`gimbal_manager.cpp`) | two axes with position, mode, range, velocity; the last message; a clock | `gimbalCmdCallback`, 10 ms timer, the topic to the node | turning at an end with a late timer, wrap-around, repeated messages, a queue that loses its oldest entry | no angle outside the limits, a sweep reaches both ends, the frame ends where the axis was put |
| Receive path (`receiveData`, `crc8_crc16.cpp`, `packet_typedef.hpp`) | the frame being read | read start byte, header, data segment and its rest; check; dispatch by id | short reads, resynchronisation, reassembly by insertion | nothing is made up or reordered, splitting loses nothing, a disturbance costs one frame |
| Referee relay and detector colour (`publishRobotStatus`, `publishGameStatus`, `publishRobotInfo`, `setParam`, `callTriggerService`) | last colour and progress, parameter client and future, detector name | a message becomes a parameter or service call made from the receive thread; the executor delivers the answers | a client replaced while its answer is under way, a colour noted before it is sent, a call that throws in the receive thread | one request at a time, one call per change, the colour is accepted in the end |
| Configuration (`getParams`, constructor of the yaw node) | timeouts | tightening of one timeout by another | boundary values 0 and negative | the order the gate and the evaluator rely on, for any parameters |
| Shutdown (constructor, loop conditions, destructor) | five threads, port, bridge | join, close | a thread blocked in a read, the port protection reopening what the destructor closes, order of destruction | a destroyed node has no thread and no open port; after a context shutdown the destructor returns |

The parts meet in four places: the mutex `send_cmd_mutex_` (gate and frame), the atomics
`is_usb_ok_` and `emergency_stop_active_`, `setSerialLinkState`, which every thread
that uses the port calls when it fails, and `rclcpp::ok()`, which every loop looks at once a
turn. `PROJECT.json` lists, part by part, what makes it hard to test (`hazards`).

## 2. Modules

```
CmdVelGate <- ChassisCommand <- SerialLink <- GimbalBridge      GimbalYawStatus
                  |    \                                        Checksums <- SerialReceive
                  |     \                                         (tables: ChecksumTables)
     implements   |     ChassisHistory <- FrameFields           GimbalManager <- GimbalAim
            MotionLease                                         RefereeRelay <- Shutdown
                                                                ExitConfig
```

An arrow is EXTENDS. `MC*` modules give the constants of an instance; `*Proofs` modules hold
the theorems (those about the gate and `getParams` are in ChassisCommandProofs, those about the
bridge in SerialLinkProofs).

- **CmdVelGate**: one action per method of the gate. A velocity is one of a set of
  `Moving` commands, `Zero`, or `Creep` (non-zero but within the epsilons). The stamps
  are ages in whole milliseconds, saturating at `AgeCap`, which an assumption keeps past
  every threshold. `Blocked` is the chain of early returns that `onCmdVel` and `tick` share.
- **ChassisCommand**: each critical section of `send_cmd_mutex_` is one action: the gate's
  method and what the callback then writes into the frame. `BeatOutput` is what the next beat
  of the send thread copies into its packet.
- **MotionLease**: the abstract specification. Motion needs a permit; losing the permit stops
  it in the same step; gaining one starts none; a lapse may resume the last motion only
  within a window; no motion outlives its command by more than `MaxAge`.
- **ChassisHistory**: the exit with history variables (which revocations no EXECUTE has
  answered, how old the last request for motion is, whether a STOP came after it, and whether
  the exit has been told to stand still, `halted`, since a `cmd_vel` was last let through).
- **FrameFields**: the exit together with the callbacks that write the rest of the same struct,
  and the send thread's prologue and beat as the code has them: the prologue also zeroes the mode,
  the beat does not. `stop_flag` and `emergency_stop` end in one callback and are one action.
- **ExitConfig**: what `getParams` and the yaw node's constructor make of arbitrary timeouts,
  as operators: the tightening of the watchdog, the hold that is switched off, the timeouts of
  the yaw node. `MCFrameFields` and `MCGimbalYawStatus` take their timeouts from it, and two theorems show
  that it establishes the assumptions of the other modules.
- **SerialLink**: a program counter per thread. `setSerialLinkState` is two steps, the
  `exchange` of the flag before the mutex and the critical section; `emergencyStopCallback`
  likewise; `sendData` is poll, copy under the mutex, second look at the flag, write, catch.
  The receive thread is a *reporter*: it uses the port and reports failures. The device can be
  unplugged and plugged at any time; a port opened before an unplugging is `stale`.
- **GimbalBridge**: the bridge's loop, with the two loads of the fire permission as two
  steps. Its thread is the reporter `"gimbal"` of SerialLink and is shown to be one
  (`ImplementsLink`).
- **GimbalYawStatus**: evaluator, node and gimbal together; failed and stale TF; positions on
  a small circle. Requests, feedback and publication are the node's callbacks.
- **GimbalManager**, **GimbalAim**: the two axes of `gimbal_manager.cpp` with whole steps of a
  turn for angles; the callback drops a repetition of the whole message, a tick moves the
  sweeping axes by the time that passed, turns them at an end or wraps a full turn. That time comes
  from the system clock, so setting the clock can make it zero or negative. GimbalAim
  adds `cmd_gimbal_joint` as a queue that loses its oldest message, another publisher on the
  same topic, and `cmdGimbalJointCallback`, which takes joints by name.
- **Checksums**, **ChecksumTables**, **SerialReceive**: the receive loop over real bytes. The
  loops of the checksums are functions over the prefixes of a message, with the tables and the
  exclusive or of bytes as constants of which only the properties of a checksum table are
  assumed; the runs give them the real values (ChecksumTables computes the tables of the source
  from the polynomials it names; they agree entry by entry). Reads return any number of bytes;
  the header read is not completed, the data segment is, by insertion, as in the code.
  `NoFalseFrame`, `NoFalseHeader`, `RefusedAreQuiet` and `StartBytesInside` say what a stream must
  not contain for the receiver's promises to be kept: each promise has its own.
- **RefereeRelay**: what the receive thread does with a decoded message when that is more than
  a copy: a game status that starts or stops the recorder, a robot status that sets the
  detector's colour. `setParam` is split where another thread can come in between; the answer
  is taken by the executor (promise first, callback second). A client that is replaced abandons
  its request, and the future of an abandoned promise is ready.
- **Shutdown**: the relay's receive thread inside the node's life: the loops of the four
  threads the constructor starts, the context's shutdown at any moment, the destructor's joins
  one by one, the close. A component may also be unloaded with the context still up.

The model keeps every state change, guard and order of the code and abstracts the data: a
velocity is a model value, an angle a number of steps, a referee message what the node decides
by it.

## 3. Runs

| Run | Instance | What it shows |
|---|---|---|
| `chassis` | `MCFrameFields`: execution authorization required, two motions, three sequences, three sample ages around the lease; hold 1, watchdog 9 tightened to 2, lease 2 ms | every interleaving of the critical sections keeps the frame zero while motion is forbidden; nothing a revocation should cancel survives it; jitter cannot sustain a motion; a new EXECUTE is needed after every revocation; neither reconnection nor redelivery authorizes; a halt lasts until a `cmd_vel` is let through; the exit implements MotionLease; a mode of the protocol is lost at most once |
| `link` | shipped profile (no execution authorization): one motion, one reporter, watchdog negative and lease zero (both off), any plugging | at most one late motion frame; a closed port is never believed up; the threads implement ChassisCommand, and with it MotionLease in this profile; and, fairly scheduled, a standing emergency stop reaches the MCU, a device that stays is reopened, one that stays away ends with flag and gate down |
| `bridge` | one wild command, timeout 1 ms | at most one late fire frame; the bridge is a reporter of the link; it falls silent after vision does; a standing emergency stop ends the firing |
| `receive` | four messages (one with a start byte inside, one refused for its length), at most one corrupted byte, two short headers, one port failure; `InstanceIsUnambiguous` evaluates the four conditions on its streams | nothing is made up, reordered or doubled; split reads lose nothing; a disturbance costs one frame |
| `yaw` | circle of two positions, two sequences, three authorities, failing and stale TF; joint timeout 2 beyond a TF timeout of 1 (raised to 2), publish period 2, not below it, lease 5 ms | the published authority answers the request it names; a status stops vouching before the lease ends; a gimbal at rest ends up acknowledged |
| `aim` | four commands (sweeps over part of a turn and a full one, aims, an unknown type), one period or two between updates, the clock set back once, queue of two, one foreign message | the frame never leaves the limits; a sweep keeps reaching both ends while the same message is repeated; the frame ends up where an axis was put |
| `relay` | a robot of each colour and none, countdown and end of a game, detector and recorder both enabled | one call per change of progress, one request at a time, the colour is accepted in the end by a detector that is there; the destructor returns after a shutdown; a destroyed node has no thread and no open port |
| `swallowed_stop`, `link_stuck`, `link_replay`, `yaw_lock`, `yaw_stale` | as small as the case allows | disagreements between the code and its own documentation, section 5 |

`chassis` asks every question about the gate as well: the gate's properties are checked where
the node calls it, and the theorems about the gate cover the profile without authorization.
`swallowed_stop` runs `MCChassisHistory`, the same exit without the other fields.

**Bounds and why they are enough.** Ages: `AgeCap` exceeds every threshold (an assumption
TLC evaluates), so a saturated age behaves as any greater one. Commands: the gate compares a
velocity only with zero, and remembers one; two motions tell "the last one" from "an
earlier one". Sequences: three allow accept, refuse and accept again. `chassis` takes
1 < 2 = 2, the smallest timeouts `getParams` leaves with the watchdog tightened: the boundary of
the order hold < watchdog <= lease; `swallowed_stop` has 1 < 2 < 3. Its modes are a legal one
and one out of range: a callback distinguishes nothing else. Threads: `link` turns
the timeouts off, which leaves the order of critical sections unconstrained by time; the timed
promises come from `chassis` through the refinement
`ImplementsChassis`. One reporter is enough for a race of two threads in
`setSerialLinkState`, because the send and the protection thread are the others; the theorems
hold for any set of reporters. `late` and
`late_fire` count to 2, one more than the promise. In `receive` every way of splitting a data
segment into reads is explored; the payload lengths are those of the packed structs.
`bridge` uses the command whose conversion is undefined, which yields every mode, fire
included; before the first command the loop behaves as after an unusable one. `aim`: three
messages that are not repetitions let a sweep be replaced, stopped and started anew, while
repetitions are unbounded; a delay of two periods overshoots an end of a range of two
steps; the clock is set back once, by one period or two (steps of 0 and -1 between two updates),
which moves a sweep not at all or the wrong way, out of its end included; a queue of two already loses a message; the foreign message either names one known joint
or has arrays of different lengths. `relay`: the two progress values both call the recorder, so
every change does; the statuses carry the two colours and an id without one. The counter of
calls needs no bound, because `OneCallPerChange` keeps it at 1.

**Fairness.** `ModeSettles` needs none: it relates what happens again and again to what holds in
the end. `LinkFairness`: the send thread and the protection thread loop for ever with
bounded sleeps, so a step they can take for good is taken; a thread that wants the mutex
gets it, since every critical section is finite; a reporter that failed reports. Reporters
are *not* assumed to return from a read, which may block for ever. Success of a write is not
assumed either: `SendFail` stays possible at every write, so `EmergencyStopReachesWire` is
stated for a link whose flag stays up. `FairBridgeSpec` adds the loop of the bridge and the
clock. `FairYawSpec` adds the clock and the publish timer, which the model never lets be late:
what `AckNeverOutlivesFeedback` bounds does not include a starved executor. `AimFairness`: the
wall timer keeps expiring and the executor keeps taking messages; nobody is obliged to send a
command. `ShutdownFairness`: every loop keeps turning, a call or a handler that does not wait
for the MCU ends (`callTriggerService` gives up after five seconds), the executor finishes the
callback it is in, and the destructor goes on when it can. Again no read is assumed
to end, so `DestructorReturns` excludes a receive thread that stays inside one read for ever: a
silent MCU does keep the destructor waiting. `ColorIsEventuallyAccepted` is stated under
`DetectorIsThere`, which says what has to come from outside the node: a status with a
colour again and again, a service found ready and an answer that comes before the next status
makes a new client.

`receive` and `relay` switch the deadlock check off: a finite stream ends, and so does a
destroyed node.

## 4. Proofs

All theorems hold for every value of the constants under the named assumptions:
`ConfigAssumption` (the order in which `getParams` leaves hold, watchdog and lease),
`InputAssumption` (`Zero` and `Creep` are no motions, sequences are naturals),
`AgeCapAssumption`, `FieldAssumption` (the numbers on the topics are bytes), `ThreadAssumption`
(reporters are not called `tx` or `protect`), `GimbalAssumption` (the gimbal thread is a
reporter), `YawConfigAssumption`, `AimAssumption` and `JointAssumption` (a range has its minimum
below its maximum, and every command and every well-formed joint state of another node stays
within `Lowest..Highest`), `RelayAssumption`, `XorAssumption` and `TableAssumption` (what
makes an exclusive or and a checksum table; TLC evaluates both on the real ones) and
`ReceiveAssumption` (messages have the lengths of the packed structs; at most one byte arrives
wrong).

- **ChassisCommandProofs**, the gate: type correctness; `NothingToHoldWhileBlocked` and
  `RememberedMotionIsRecent`, each inductive given the types; the action properties
  `AuthorizationIsNeverReplayed` and `SequenceFloorNeverDrops`. `GateConfigIsOrdered` derives the
  order of the timeouts from `getParams` for arbitrary integers: the hold is below the watchdog
  or off, the watchdog not above the lease, and the watchdog runs exactly when watchdog and
  lease are both positive.
- **ChassisCommandProofs**, the exit: `ChassisImplementsGate` first, so the gate's invariants are
  available for the exit. `ForbiddenFrameIsZero` is not inductive alone: a zero `cmd_vel` may
  be answered with the remembered motion, so the invariant must know that nothing is
  remembered while blocked and that a moving frame is the remembered motion. `ChassisInv`
  joins the three gate invariants, the frame's range (never `Creep`), `ForbiddenFrameIsZero`
  and `FrameMotionIsRemembered`; `FrameInvStep` is its induction step, one case per callback.
  From it: `BeatMotionStaysRecent` and the refinement
  `ChassisImplementsLease`, in which `cmdVelCallback` is Drive, Resume or Halt, a STOP, an
  emergency stop or a link loss is Revoke, an EXECUTE, a reconnection or a cleared emergency
  stop is Grant or nothing, and a beat changes nothing the lease can see. This covers the
  shipped profile and the strict one alike.
- **FrameFieldsProofs**: the frame with all its callbacks implements the exit
  (`FieldsImplementChassis`), which carries the invariants above over.
  `MotionAlwaysNeedsExecute` rests on `Answered`, which ties the history to the gate: as long
  as a revocation is unanswered the gate is not authorized, so every beat is overridden.
  `JitterNeverSustainsMotion` rests on `AskedRecently`: the last request for motion is no older
  than the motion the gate remembers, whose age at a beat `BeatMotionStaysRecent` bounds by
  the watchdog and one hold window. `HaltOutlastsReleases` covers both profiles and rests on
  `FrameHalted`: overrides of a beat come and go with the reasons for them, so it is the shared
  frame that must carry the stop, through the prologue of a send thread that starts late too.
- **SerialLinkProofs**, the link: type correctness; it implements the exit for any set of reporters
  (`LinkImplementsChassis`), `ClosedPortIsDown` is inductive, and `LateMotionIsBounded`
  rests on `LateInv`: a packet between its copy and its write is no motion, or nothing late
  has been counted since the copy.
- **SerialLinkProofs**, the bridge: type correctness, the undefined conversion included; every step of
  the loop is a reporter's step or leaves the link alone
  (`BridgeImplementsLink`); `LateFireIsBounded` rests on `LateFireInv`: past the permission, a
  fire frame is in hand only if no late one has been counted since the stop was seen lifted.
- **GimbalYawStatusProofs**: type correctness; `AckAnswersItsRequest` needs that the request in
  force is the one recorded under its sequence and that the status names no later one (`AckInv`);
  `AckNeverOutlivesFeedback` needs that the feedback under a vouching status ages no faster than
  the publish timer counts. Its second half, "within the lease", is proved under the hypothesis
  T_joint + T_pub < T_lease: the order the header asks for, T_pub < T_joint <= T_tf < T_lease,
  does not imply it (the shipped 100 + 20 < 500 ms does). `YawConfigIsOrdered` derives the order
  of the evaluator's own timeouts from the constructor.
- **GimbalAimProofs**: `AimTypeCorrect` and `FrameAlwaysInLimits`, from `AimInv`: not only the
  frame but every well-formed message in the queue, the last aim, each axis and both ends of its
  range are within the limits, and a range keeps its ends in order, without which a clamp could
  leave it. The queue's part is `KeptIsBounded`; the wrap of a full turn rests on the remainder
  being below the range.
- **ShutdownProofs**: `ShutdownTypeCorrect`, `OneCallIsEnough`, `RequestsAreSingle` and
  `NothingIsLeftBehind`, all from `NodeInv`. A call per change is inductive once the stored
  progress is known to be the last one seen (`CallInv`). That the port stays closed needs, for
  each phase of the destructor, that the threads joined before it have exited (`JoinInv`): the
  protection thread, the only one that opens the port, is the last.

- **ChecksumsProofs**: what the checksums see, for messages of any length.
  `AppendedChecksumVerifies`: what is appended verifies. `SingleByteErrorIsDetected`: two messages
  that both verify and have the same length never differ in exactly one byte, be it in the data
  or in the checksum itself, because no two bytes share a table entry (for CRC-16, a high byte
  of one). `PaddingIsInvisible`: zeros behind a frame that verifies leave it verifying, which
  the receiver depends on, since its reassembly leaves them there. A checksum is a function
  defined by recursion on the prefixes of a message; the prover does not unfold such a
  function, so the module first proves that one exists and that two that agree on the steps
  agree (`RunExists`, `LoopIsRun`, `RunsAgree`). The induction is the least element of a set of
  naturals (`LeastNatural`, from the well-foundedness of `<`), which needs no operator for a
  parameter.
- **SerialReceiveProofs**: all four invariants of `receive`, for every sequence of messages, every
  single corrupted byte and every way of cutting the reads. Each rests on an inductive
  invariant that TLC found to hold on the instance before it was proved:
  `Framing` (theorem `ReassemblyIsExact`) says that the buffer holds exactly the bytes that
  followed the accepted header in the stream, in order, with zeros behind them, as many as the
  rests were short: the insertion at `received_len_sum` is what keeps it. `OrderInv` (`PublishedIsSent`,
  under `NoFalseFrame`) counts the messages published by the frames that end before the byte
  from which the reader is reading now. `LosslessInv` (`UndisturbedIsLossless`, under `RefusedAreQuiet`) says
  where inside which frame the reader is, and that all frames before it are accounted for.
  `CostInv` (`DisturbanceIsBounded`, under `NoFalseHeader` and `StartBytesInside`) adds the reader
  that hunts for a start byte inside a frame that is already paid for, or reads a header
  there. The three proofs share `HeaderInPlace`, `WindowFacts` and `PacketFacts`: a header that
  is accepted where a frame starts is that frame's, by `SingleByteErrorIsDetected`.
  The conditions are needed: without `StartBytesInside` a start byte near the end of a damaged
  frame takes the first bytes of the next one for its header (section 5), and without
  `NoFalseFrame` a payload that contains a whole valid frame is published after a
  disturbance. `MCSerialReceive` has TLC evaluate all four, so they are satisfiable, with a start byte
  in a payload and with corrupted headers.

Only model-checked: the liveness properties (`ModeSettles`, `EmergencyStopReachesWire`, `LinkRecovers`,
`LossIsNoticed`, `GimbalFallsSilent`, `EmergencyStopEndsFire`, `RestIsAcknowledged`,
`SweepReachesBothEnds`, `FrameFollowsAim`, `DestructorReturns`, `ColorIsEventuallyAccepted`),
because liveness is outside the prover's reach. Every invariant and every action property of a
passing run has its theorem. That the tables of the source have the properties of
`TableAssumption` is evaluated, not proved.

## 5. Where the code and its documentation disagree

Each has a run that finds the behaviour, and the quotation is in `PROJECT.json`.

- `swallowed_stop`: a STOP the gate refuses (old stamp or sequence) zeroes the frame but not
  the remembered motion; the next zero within the hold window brings the motion back.
- `link_stuck`: two threads in `setSerialLinkState` may enter their critical sections in the
  opposite order of their exchanges. Flag up, gate down is stable: nobody tells the gate again.
- `link_replay`: a packet copied before an outage may be the first one written after it.
- `yaw_lock`: a failed gimbal lookup feeds the yaw 0.0 to the rate.
- `yaw_stale`: `lookupYaw` ignores the stamp of the transform; `tf_timeout` is compared with the
  age of the joint state.

Observed while modelling, without a run:

- `execution_command_timeout` is compared with the age of a sample on arrival and never again;
  an accepted authorization does not expire (`cmd_vel_authorization.hpp:100`; `README.md:118-119`
  says that an expired one leads to zero).
- The stored reference is never compared (`cmd_vel_authorization.hpp:108`, against `README.md:121`).
- In the shipped profile clearing the emergency stop is enough for the next `cmd_vel` to move
  (`standard_robot_pp_ros2.cpp:1205`, against the log at 1208), and since the two stop topics
  share one flag, a `false` on one lifts the `true` of the other (the comment at 224 says the
  emergency stop only tightens).
- No revocation touches `shoot`: the chassis stops, the last fire command stays in the frame.
- Before any request the mode sent is 0, which the protocol does not list
  (`packet_typedef.hpp:388`: 3 is the default); the prologue also overwrites a mode set before it.
- A lease or a watchdog of 0 or less switches the watchdog off instead of stopping at once.
- A feedback gap counts as dwell (`gimbal_yaw_status_logic.hpp:141`).
- A debug message has 154 bytes of payload and the receiver refuses more than 58
  (`standard_robot_pp_ros2.cpp:561`), so the `debug` parameter never shows anything.
- A frame refused for its length or its header is not skipped: the reader looks for a start byte
  inside it (`standard_robot_pp_ros2.cpp:538`). One in the last three bytes takes the first bytes
  of the following frame for its header, so a single disturbance can cost two frames, and
  a refused frame can cost a good one without any disturbance.
- A publish period that is not below the feedback timeout is logged as tightened
  (`gimbal_yaw_status_bridge.cpp:49-54`) and stays as it is, so `YawConfigAssumption` does not
  assume that order; T_joint > T_tf is logged as "the smaller one taken" (line 59) and the larger
  one is.
- A call to the recorder that reaches its service costs the link: spinning a node that already
  spins throws, and the handler of the receive loop calls `setSerialLinkState(false)`
  (`TriggerThrows`).
- A colour change that arrives while an earlier request is unanswered is noted as received and
  not sent, so it is lost until the next change (`AskKeptClient`).
- The destructor destroys the gimbal bridge before it joins the receive thread, which may still
  hand it a message. A component unloaded without a context shutdown never gets past the first
  join that waits for `rclcpp::ok()`.
- Two alternating commands that differ only in the yaw keep restarting the sweep of the pitch:
  repetition is judged on the whole message (`GimbalCmdCallback`).

## 6. Not modelled, and what could follow

Not modelled:

- launch files, udev script and yaml: configuration without behaviour of its own;
- the field copies of the publishers, `is_hp_deduced` and the arithmetic of
  `publishJointState` and of the bridge's `publishGimbalState`: data that no decision of the
  node reads;
- `onParametersSet`, which takes the mutex and changes nothing;
- a port closed and reopened by the protection thread between two reads of one data segment
  (`standard_robot_pp_ros2.cpp:574-580`): the bytes of the gap are lost without an exception in
  the receive thread, while SerialReceive loses bytes only with one (`ReadThrows`);
- fractions of a millisecond: `duration_cast` truncates ages, GimbalYawStatus counts whole
  milliseconds and takes samples at least one apart;
- the instant between a parameter answer's arrival and the promise it fulfils: `TakeAnswer` is both;
- log lines, reason codes and exact sleeps (a thread may be slow at every step).

Partly modelled: the gimbal bridge and the referee relay, for the copies named above.

What could follow, in this order: one composition of `SerialLink` with `Shutdown`, so that
the destructor runs against the thread steps of the link and not against turns that may lose
or restore it; an executor that delays the timers, to say how much lateness the acknowledgement
can bear.
