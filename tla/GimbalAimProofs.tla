--------------------------- MODULE GimbalAimProofs ---------------------------
(***************************************************************************)
(* The gimbal field of the frame keeps its type and stays within the       *)
(* limits its commands respect, for every turn, range, velocity, delay,    *)
(* step of the clock and queue depth.                                      *)
(***************************************************************************)
EXTENDS GimbalAim, TLAPS

Angles == Lowest..Highest

\* An axis that has only ever been given ranges within the limits.
AxisStates == [position : Angles, sweeping : BOOLEAN, velocity : Int, min : Angles, max : Angles]

JointStates == [name : Seq(JointNames), position : Seq(Int)]

\* What the frame would be given by a message.
WithinLimits(message) ==
  WellFormed(message) => \A i \in DOMAIN message.position : message.position[i] \in Angles

\* Every place an angle passes through on its way to the frame is within the limits: the
\* axes with their ranges, the aims, the messages still queued, the frame.
AimInv ==
  /\ axis \in [Axes -> AxisStates]
  /\ \A a \in Axes : axis[a].min <= axis[a].max
  /\ last_msg \in Commands \cup {DefaultMsg}
  /\ ticking \in BOOLEAN /\ sent \in 0..MaxCommands /\ foreign \in 0..MaxForeign
  /\ clock_steps \in 0..MaxClockSteps
  /\ aim \in [Axes -> Angles] /\ gimbal \in [Axes -> Angles]
  /\ joint_queue \in Seq(JointStates) /\ Len(joint_queue) <= QueueDepth
  /\ \A k \in 1..Len(joint_queue) : WithinLimits(joint_queue[k])

\* A command leaves an axis in a state a range and angles within the limits allow.
LEMMA CommandedInLimits ==
  ASSUME NEW current \in AxisStates, current.min <= current.max,
         NEW command \in AxisCommands, command.min <= command.max,
         {command.angle, command.min, command.max} \subseteq Angles
  PROVE  /\ Commanded(current, command) \in AxisStates
         /\ Commanded(current, command).min <= Commanded(current, command).max
<1>1. CASE command.type = "angle"
  BY <1>1 DEF Commanded, AxisStates
<1>2. CASE command.type = "sweep"
  BY <1>2 DEF Commanded, AxisStates, AxisCommands
<1>3. CASE command.type \notin {"angle", "sweep"}
  BY <1>3 DEF Commanded
<1> QED
  BY <1>1, <1>2, <1>3

\* A step past an end stops at it, and a full turn wraps: no update leaves the range,
\* whatever time it is made for.
LEMMA UpdatedInLimits ==
  ASSUME NEW current \in AxisStates, current.min <= current.max, NEW delay \in Int
  PROVE  /\ UpdatedAxis(current, delay) \in AxisStates
         /\ UpdatedAxis(current, delay).min <= UpdatedAxis(current, delay).max
<1> DEFINE moved == Moved(current, delay)
<1>1. moved \in Int /\ -current.velocity \in Int
  BY JointAssumption DEF JointAssumption, Moved, AxisStates, Angles
<1>2. current.min \in Angles /\ current.max \in Angles /\ current.velocity \in Int
  BY DEF AxisStates
<1> HIDE DEF moved
<1>3. CASE Continuous(current)
  <2>1. (moved - current.min) % Turn \in 0..(Turn - 1)
    BY <1>1, <1>2, AimAssumption, JointAssumption DEF AimAssumption, JointAssumption, Angles
  <2>2. Wrapped(current, moved) \in Angles
    BY <2>1, <1>2, <1>3, AimAssumption, JointAssumption
    DEF AimAssumption, JointAssumption, Angles, Wrapped, Continuous
  <2> QED
    BY <2>2, <1>3 DEF UpdatedAxis, AxisStates, moved
<1>4. CASE ~Continuous(current)
  <2>1. Clamped(current, moved) \in Angles
    BY <1>1, <1>2, JointAssumption DEF JointAssumption, Angles, Clamped
  <2> QED
    BY <2>1, <1>1, <1>4 DEF UpdatedAxis, AxisStates, moved
<1> QED
  BY <1>3, <1>4

\* The topic keeps within its depth, and only adds the message.
LEMMA KeptIsBounded ==
  ASSUME NEW message \in JointStates, WithinLimits(message),
         joint_queue \in Seq(JointStates), Len(joint_queue) <= QueueDepth,
         \A k \in 1..Len(joint_queue) : WithinLimits(joint_queue[k])
  PROVE  /\ Kept(message) \in Seq(JointStates) /\ Len(Kept(message)) <= QueueDepth
         /\ \A k \in 1..Len(Kept(message)) : WithinLimits(Kept(message)[k])
<1>1. CASE Len(joint_queue) < QueueDepth
  <2>1. Kept(message) = Append(joint_queue, message)
    BY <1>1 DEF Kept
  <2> QED
    BY <2>1, <1>1, JointAssumption DEF JointAssumption
<1>2. CASE ~(Len(joint_queue) < QueueDepth)
  <2> DEFINE rest == Tail(joint_queue)
  <2>1. Kept(message) = Append(rest, message) /\ joint_queue # <<>>
    BY <1>2, JointAssumption DEF Kept, JointAssumption
  <2>2. /\ rest \in Seq(JointStates) /\ Len(rest) = Len(joint_queue) - 1
        /\ \A k \in 1..Len(rest) : rest[k] = joint_queue[k + 1]
    BY <2>1
  <2>3. \A k \in 1..Len(rest) : WithinLimits(rest[k])
    BY <2>2
  <2> HIDE DEF rest
  <2>4. Append(rest, message) \in Seq(JointStates) /\ Len(Append(rest, message)) <= QueueDepth
    BY <2>2, JointAssumption DEF JointAssumption
  <2>5. ASSUME NEW k \in 1..Len(Append(rest, message))
        PROVE  WithinLimits(Append(rest, message)[k])
    <3>1. CASE k <= Len(rest)
      BY <3>1, <2>2, <2>3
    <3>2. CASE ~(k <= Len(rest))
      BY <3>2, <2>2
    <3> QED
      BY <3>1, <3>2
  <2> QED
    BY <2>1, <2>4, <2>5
<1> QED
  BY <1>1, <1>2

\* The arrays of a joint state for two joints.
LEMMA PairIsSeq == ASSUME NEW T, NEW p \in T, NEW q \in T PROVE <<p, q>> \in Seq(T)
OBVIOUS

\* A message within the limits writes angles within the limits.
LEMMA WrittenInLimits ==
  ASSUME NEW message \in JointStates, WellFormed(message), WithinLimits(message),
         gimbal \in [Axes -> Angles], NEW a \in Axes
  PROVE  Written(message, a) \in Angles
<1>1. CASE Last(message, a) = {}
  BY <1>1 DEF Written
<1>2. CASE Last(message, a) # {}
  <2> DEFINE i == CHOOSE i \in Last(message, a) : TRUE
  <2>1. i \in DOMAIN message.name
    BY <1>2 DEF Last
  <2>2. DOMAIN message.name = DOMAIN message.position
    BY DEF WellFormed, JointStates
  <2> HIDE DEF i
  <2> QED
    BY <1>2, <2>1, <2>2 DEF Written, WithinLimits, i
<1> QED
  BY <1>1, <1>2

\* The inductive invariant holds at the start and is kept by every command, expiry,
\* foreign message and delivery.
LEMMA AimInvInitially == AimInit => AimInv
<1> SUFFICES ASSUME AimInit PROVE AimInv
  OBVIOUS
<1>1. 0 \in Angles
  BY JointAssumption DEF JointAssumption, Angles
<1>2. axis \in [Axes -> AxisStates] /\ \A a \in Axes : axis[a].min <= axis[a].max
  BY <1>1 DEF AimInit, ManagerInit, Still, AxisStates
<1>3. joint_queue \in Seq(JointStates) /\ Len(joint_queue) = 0
  BY DEF AimInit
<1>4. 0 <= QueueDepth /\ 0 \in 0..MaxCommands /\ 0 \in 0..MaxForeign /\ 0 \in 0..MaxClockSteps
  BY AimAssumption, JointAssumption DEF AimAssumption, JointAssumption
<1>5. aim \in [Axes -> Angles] /\ gimbal \in [Axes -> Angles]
  BY <1>1 DEF AimInit, ManagerInit
<1>6. \A k \in 1..Len(joint_queue) : WithinLimits(joint_queue[k])
  BY <1>3
<1> QED
  BY <1>1, <1>2, <1>3, <1>4, <1>5, <1>6 DEF AimInit, ManagerInit, AimInv

LEMMA CommandKeepsInv ==
  ASSUME AimInv, NEW command \in Commands, Command(command)
  PROVE  AimInv'
<1> USE DEF AimInv
<1>1. axis' \in [Axes -> AxisStates] /\ \A a \in Axes : axis'[a].min <= axis'[a].max
  <2>1. CASE axis' = axis
    BY <2>1
  <2>2. CASE axis' = [a \in Axes |-> Commanded(axis[a], command[a])]
    <3>1. ASSUME NEW a \in Axes
          PROVE  /\ Commanded(axis[a], command[a]) \in AxisStates
                 /\ Commanded(axis[a], command[a]).min <= Commanded(axis[a], command[a]).max
      <4>1. axis[a] \in AxisStates /\ axis[a].min <= axis[a].max
        OBVIOUS
      <4>2. command[a] \in AxisCommands /\ command[a].min <= command[a].max
        BY AimAssumption DEF AimAssumption
      <4>3. {command[a].angle, command[a].min, command[a].max} \subseteq Angles
        BY JointAssumption DEF JointAssumption, Angles
      <4> QED
        BY <4>1, <4>2, <4>3, CommandedInLimits
    <3> QED
      BY <2>2, <3>1
  <2> QED
    BY <2>1, <2>2 DEF Command, GimbalCmdCallback
<1>2. sent' \in 0..MaxCommands
  BY AimAssumption DEF AimAssumption, Command, GimbalCmdCallback
<1> QED
  BY <1>1, <1>2 DEF Command, GimbalCmdCallback

\* An update keeps the invariant, whatever time it is made for.
LEMMA PublishKeepsInv ==
  ASSUME AimInv, NEW delay \in Int, UpdateState(delay), joint_queue' = Kept(JointState),
         UNCHANGED <<gimbal, foreign>>, clock_steps' \in 0..MaxClockSteps
  PROVE  AimInv'
<1> USE DEF AimInv
<1>1. axis' \in [Axes -> AxisStates] /\ \A a \in Axes : axis'[a].min <= axis'[a].max
  <2>1. ASSUME NEW a \in Axes
        PROVE  /\ UpdatedAxis(axis[a], delay) \in AxisStates
               /\ UpdatedAxis(axis[a], delay).min <= UpdatedAxis(axis[a], delay).max
    BY UpdatedInLimits
  <2> QED
    BY <2>1 DEF UpdateState
<1>2. aim' \in [Axes -> Angles]
  BY <1>1 DEF UpdateState, AxisStates
<1>3. JointState \in JointStates /\ WithinLimits(JointState)
  <2>1. aim["pitch"]' \in Angles /\ aim["yaw"]' \in Angles /\ Angles \subseteq Int
    BY <1>2, JointAssumption DEF Axes, Angles, JointAssumption
  <2>2. <<aim["pitch"]', aim["yaw"]'>> \in Seq(Int) /\ <<"pitch", "yaw">> \in Seq(JointNames)
    <3>1. aim["pitch"]' \in Int /\ aim["yaw"]' \in Int
      BY <2>1
    <3>2. "pitch" \in JointNames /\ "yaw" \in JointNames
      BY DEF JointNames, Axes
    <3> QED
      BY <3>1, <3>2, PairIsSeq
  <2>3. JointState \in JointStates
    BY <2>2 DEF JointState, JointStates
  <2>4. \A i \in DOMAIN JointState.position : JointState.position[i] \in Angles
    BY <2>1 DEF JointState
  <2> QED
    BY <2>3, <2>4 DEF WithinLimits
<1>4. /\ joint_queue' \in Seq(JointStates) /\ Len(joint_queue') <= QueueDepth
      /\ \A k \in 1..Len(joint_queue') : WithinLimits(joint_queue'[k])
  BY <1>3, KeptIsBounded
<1> QED
  BY <1>1, <1>2, <1>4 DEF UpdateState, WithinLimits, WellFormed

LEMMA OtherKeepsInv ==
  ASSUME AimInv, NEW message \in ForeignMessages, OtherPublisher(message)
  PROVE  AimInv'
<1> USE DEF AimInv
<1>1. message \in JointStates /\ WithinLimits(message)
  BY JointAssumption DEF JointAssumption, JointStates, WithinLimits, WellFormed, Angles
<1>2. /\ joint_queue' \in Seq(JointStates) /\ Len(joint_queue') <= QueueDepth
      /\ \A k \in 1..Len(joint_queue') : WithinLimits(joint_queue'[k])
  BY <1>1, KeptIsBounded DEF OtherPublisher
<1>3. foreign' \in 0..MaxForeign
  BY JointAssumption DEF JointAssumption, OtherPublisher
<1> QED
  BY <1>2, <1>3 DEF OtherPublisher, manager_vars, WithinLimits, WellFormed

LEMMA TakeKeepsInv ==
  ASSUME AimInv, TakeJointState
  PROVE  AimInv'
<1> USE DEF AimInv
<1> DEFINE message == Head(joint_queue)
<1>1. message \in JointStates /\ WithinLimits(message)
  BY DEF TakeJointState
<1>2. gimbal' \in [Axes -> Angles]
  <2>1. CASE WellFormed(message)
    <3>1. \A a \in Axes : Written(message, a) \in Angles
      BY <1>1, <2>1, WrittenInLimits
    <3> QED
      BY <2>1, <3>1 DEF TakeJointState, CmdGimbalJointCallback
  <2>2. CASE ~WellFormed(message)
    BY <2>2 DEF TakeJointState, CmdGimbalJointCallback
  <2> QED
    BY <2>1, <2>2
<1>3. /\ joint_queue' \in Seq(JointStates) /\ Len(joint_queue') <= QueueDepth
      /\ \A k \in 1..Len(joint_queue') : WithinLimits(joint_queue'[k])
  <2>1. /\ joint_queue' \in Seq(JointStates) /\ Len(joint_queue') = Len(joint_queue) - 1
        /\ \A k \in 1..Len(joint_queue') : joint_queue'[k] = joint_queue[k + 1]
    BY DEF TakeJointState
  <2>2. \A k \in 1..Len(joint_queue') : WithinLimits(joint_queue[k + 1])
    BY <2>1
  <2>3. \A k \in 1..Len(joint_queue') : WithinLimits(joint_queue'[k])
    BY <2>1, <2>2
  <2>4. Len(joint_queue') <= QueueDepth
    BY <2>1, JointAssumption DEF JointAssumption
  <2> QED
    BY <2>1, <2>3, <2>4
<1> QED
  BY <1>2, <1>3 DEF TakeJointState, manager_vars, WithinLimits, WellFormed

\* What AimInv says of every step of the specification.
LEMMA AimInvAlways == AimSpec => []AimInv
<1>1. AimInv /\ [AimNext]_aim_vars => AimInv'
  <2> SUFFICES ASSUME AimInv, [AimNext]_aim_vars PROVE AimInv'
    OBVIOUS
  <2>1. CASE StartClock
    BY <2>1 DEF AimInv, StartClock, FirstTick, WithinLimits, WellFormed
  <2>2. CASE UNCHANGED aim_vars
    BY <2>2 DEF AimInv, aim_vars, WithinLimits, WellFormed
  <2>3. ASSUME NEW delay \in Delays, PublishJointState(delay) PROVE AimInv'
    <3>1. delay \in Int
      BY AimAssumption DEF AimAssumption
    <3>2. clock_steps' \in 0..MaxClockSteps
      BY <2>3 DEF AimInv, PublishJointState
    <3> QED
      BY <2>3, <3>1, <3>2, PublishKeepsInv DEF PublishJointState
  <2>4. ASSUME NEW delay \in ClockSteps, PublishAfterClockStep(delay) PROVE AimInv'
    <3>1. delay \in Int
      BY JointAssumption DEF JointAssumption
    <3>2. clock_steps' \in 0..MaxClockSteps
      BY <2>4, JointAssumption DEF JointAssumption, AimInv, PublishAfterClockStep
    <3> QED
      BY <2>4, <3>1, <3>2, PublishKeepsInv DEF PublishAfterClockStep
  <2> QED
    BY <2>1, <2>2, <2>3, <2>4, CommandKeepsInv, OtherKeepsInv, TakeKeepsInv DEF AimNext
<1> QED
  BY <1>1, AimInvInitially, PTL DEF AimSpec

\* The gimbal manager and its topic keep their types (AimTypeOK), whatever is commanded,
\* published by others and lost from a full queue.
THEOREM AimTypeCorrect == AimSpec => []AimTypeOK
<1>1. AimInv => AimTypeOK
  <2> SUFFICES ASSUME AimInv PROVE AimTypeOK
    OBVIOUS
  <2>1. Angles \subseteq Int
    BY JointAssumption DEF JointAssumption, Angles
  <2>2. AxisStates \subseteq [position : Int, sweeping : BOOLEAN, velocity : Int,
                              min : Int, max : Int]
    BY <2>1 DEF AxisStates
  <2> QED
    BY <2>1, <2>2 DEF AimInv, AimTypeOK, JointStates
<1> QED
  BY <1>1, AimInvAlways, PTL

\* The frame never asks for an angle outside the limits (FrameStaysInLimits): every sweep,
\* however fast, however late the timer and however the clock is set, stays in its range,
\* and wraps inside it.
THEOREM FrameAlwaysInLimits == AimSpec => []FrameStaysInLimits
<1>1. AimInv => FrameStaysInLimits
  BY DEF AimInv, FrameStaysInLimits, Angles
<1> QED
  BY <1>1, AimInvAlways, PTL
=============================================================================
