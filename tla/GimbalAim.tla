----------------------------- MODULE GimbalAim -----------------------------
(***************************************************************************)
(* From cmd_gimbal to the serial frame: GimbalManagerNode publishes joint  *)
(* states on cmd_gimbal_joint, a topic that keeps the newest QueueDepth of *)
(* them, and cmdGimbalJointCallback writes them into the frame's gimbal    *)
(* field.  Any other node may publish on that topic as well.               *)
(***************************************************************************)
EXTENDS GimbalManager, Sequences

CONSTANTS
  QueueDepth,       \* messages the subscription keeps, 10 in the node
  ForeignMessages,  \* bound: what other nodes publish, joint names and positions
  MaxForeign,       \* bound: how often
  ClockSteps,       \* bound: periods between two updates across a step of the clock
  MaxClockSteps,    \* bound: how often the clock is stepped
  Lowest, Highest   \* the angles every command and every other node stays within

VARIABLES
  joint_queue,  \* cmd_gimbal_joint: what the executor has not taken yet
  gimbal,       \* send_robot_cmd_data_.data.gimbal
  foreign,      \* messages of other nodes so far, up to MaxForeign
  clock_steps   \* steps of the clock so far, up to MaxClockSteps

aim_vars == <<axis, last_msg, ticking, aim, sent, joint_queue, gimbal, foreign, clock_steps>>

\* The joints of the gimbal, and any other.
JointNames == Axes \cup {"other"}

ASSUME JointAssumption ==
  /\ QueueDepth \in Nat \ {0} /\ MaxForeign \in Nat
  /\ ClockSteps \subseteq Int /\ MaxClockSteps \in Nat
  /\ Lowest \in Int /\ Highest \in Int /\ Lowest <= 0 /\ 0 <= Highest
  /\ \A command \in Commands, a \in Axes :
       {command[a].angle, command[a].min, command[a].max} \subseteq Lowest..Highest
  /\ ForeignMessages \subseteq [name : Seq(JointNames), position : Seq(Int)]
  /\ \A message \in ForeignMessages :
       Len(message.name) = Len(message.position)
         => \A i \in DOMAIN message.position : message.position[i] \in Lowest..Highest

AimInit ==
  /\ ManagerInit
  /\ joint_queue = <<>> /\ gimbal = [a \in Axes |-> 0] /\ foreign = 0
  /\ clock_steps = 0

\* The message of the gimbal manager, its joints in the order it names them.
JointState == [name |-> <<"pitch", "yaw">>, position |-> <<aim["pitch"]', aim["yaw"]'>>]

\* Mutant: the topic keeps everything.
Kept_Everything(message) == Append(joint_queue, message)

\* A full queue loses its oldest message.
Kept(message) ==
  IF Len(joint_queue) < QueueDepth THEN Append(joint_queue, message)
                                   ELSE Append(Tail(joint_queue), message)

Command(command) == GimbalCmdCallback(command) /\ UNCHANGED <<joint_queue, gimbal, foreign, clock_steps>>

StartClock == FirstTick /\ UNCHANGED <<joint_queue, gimbal, foreign, clock_steps>>

PublishJointState(delay) ==
  /\ UpdateState(delay)
  /\ joint_queue' = Kept(JointState)
  /\ UNCHANGED <<gimbal, foreign, clock_steps>>

\* now() is the system clock: when it is set, the time since the last update may come
\* out as zero, negative or far too long, and the axes move by that much.
PublishAfterClockStep(delay) ==
  /\ clock_steps < MaxClockSteps
  /\ clock_steps' = clock_steps + 1
  /\ UpdateState(delay)
  /\ joint_queue' = Kept(JointState)
  /\ UNCHANGED <<gimbal, foreign>>

OtherPublisher(message) ==
  /\ foreign < MaxForeign
  /\ foreign' = foreign + 1
  /\ joint_queue' = Kept(message)
  /\ UNCHANGED <<manager_vars, gimbal, clock_steps>>

WellFormed(message) == Len(message.name) = Len(message.position)

\* Where a joint is named last.
Last(message, a) ==
  {i \in DOMAIN message.name :
     message.name[i] = a /\ \A j \in DOMAIN message.name : message.name[j] = a => j <= i}

\* A joint named twice is written twice; one that is not named stays.
Written(message, a) ==
  IF Last(message, a) = {} THEN gimbal[a]
  ELSE message.position[CHOOSE i \in Last(message, a) : TRUE]

\* Mutant: the positions are written in the order of the frame, yaw first.
CmdGimbalJointCallback_Swapped(message) ==
  gimbal' = IF WellFormed(message)
              THEN [a \in Axes |-> Written(message, CHOOSE other \in Axes : other # a)] ELSE gimbal

\* A message whose arrays differ in length is left aside.
CmdGimbalJointCallback(message) ==
  gimbal' = IF WellFormed(message) THEN [a \in Axes |-> Written(message, a)] ELSE gimbal

TakeJointState ==
  /\ joint_queue # <<>>
  /\ CmdGimbalJointCallback(Head(joint_queue))
  /\ joint_queue' = Tail(joint_queue)
  /\ UNCHANGED <<manager_vars, foreign, clock_steps>>

AimNext ==
  \/ \E command \in Commands : Command(command)
  \/ StartClock
  \/ \E delay \in Delays : PublishJointState(delay)
  \/ \E delay \in ClockSteps : PublishAfterClockStep(delay)
  \/ \E message \in ForeignMessages : OtherPublisher(message)
  \/ TakeJointState

\* The timer keeps expiring and the executor keeps taking messages.
AimFairness ==
  /\ WF_aim_vars(StartClock)
  /\ WF_aim_vars(\E delay \in Delays : PublishJointState(delay))
  /\ WF_aim_vars(TakeJointState)

AimSpec == AimInit /\ [][AimNext]_aim_vars /\ AimFairness
-----------------------------------------------------------------------------
\* The type invariant of the gimbal manager and the topic behind it.
AimTypeOK ==
  /\ axis \in [Axes -> [position : Int, sweeping : BOOLEAN, velocity : Int, min : Int, max : Int]]
  /\ last_msg \in Commands \cup {DefaultMsg}
  /\ ticking \in BOOLEAN /\ sent \in 0..MaxCommands /\ foreign \in 0..MaxForeign
  /\ clock_steps \in 0..MaxClockSteps
  /\ aim \in [Axes -> Int] /\ gimbal \in [Axes -> Int]
  /\ joint_queue \in Seq([name : Seq(JointNames), position : Seq(Int)])
  /\ Len(joint_queue) <= QueueDepth

\* Whatever the sweeps, their turns, how late the timer is and how the clock is set, the frame never asks the
\* gimbal for an angle outside the limits that every command and every well-formed joint
\* state respects: a sweep neither overshoots its range nor wraps out of it.
FrameStaysInLimits == \A a \in Axes : gimbal[a] \in Lowest..Highest

\* A sweep over less than a full turn that is left alone, or repeated by an upstream that
\* sends the same message again and again, keeps reaching both of its ends.
SweepsBothEnds(a) ==
  LET Sweeping == axis[a].sweeping /\ axis[a].velocity # 0 /\ ~Continuous(axis[a])
  IN  <>[]Sweeping => /\ []<>(axis[a].position = axis[a].min)
                      /\ []<>(axis[a].position = axis[a].max)
SweepReachesBothEnds == \A a \in Axes : SweepsBothEnds(a)

\* An axis that has been put at an angle for good, and that no other node moves, is at
\* that angle in the frame for good, past every joint state still queued.
FrameFollowsAxis(a) ==
  <>[](~axis[a].sweeping /\ ticking /\ (foreign = MaxForeign)) => <>[](gimbal[a] = axis[a].position)
FrameFollowsAim == \A a \in Axes : FrameFollowsAxis(a)
=============================================================================
