--------------------------- MODULE GimbalManager ---------------------------
(***************************************************************************)
(* GimbalManagerNode (gimbal_manager.cpp): turns cmd_gimbal into aims.  An *)
(* axis is either put at an angle or swept between two angles at a         *)
(* velocity; a 10 ms timer moves the sweeping axes and publishes both.     *)
(* Angles are whole steps; a velocity is a number of steps per 10 ms, and  *)
(* a late timer moves the axis by more than one period's worth, a clock    *)
(* that was set back by less than none.                                    *)
(***************************************************************************)
EXTENDS Integers

CONSTANTS
  Turn,         \* steps in a full turn
  Commands,     \* bound: the cmd_gimbal messages, per axis as described below
  Delays,       \* bound: periods of the timer between two updates
  MaxCommands   \* bound: messages sent

VARIABLES
  axis,         \* state_: position and control of each axis
  last_msg,     \* the last message that was not a repetition
  ticking,      \* state_.last_update has been set
  aim,          \* the positions of the last joint state published
  sent          \* messages sent so far, up to MaxCommands

manager_vars == <<axis, last_msg, ticking, aim, sent>>

Axes == {"pitch", "yaw"}

\* The part of a message for one axis.  An unknown type is a message without effect;
\* angle, velocity and range are filled in whatever the type.
AxisCommands == [type : {"angle", "sweep", "unknown"}, angle : Int, velocity : Int,
                 min : Int, max : Int]

ASSUME AimAssumption ==
  /\ Turn \in Nat \ {0} /\ Delays \subseteq Nat \ {0} /\ MaxCommands \in Nat
  /\ Commands \subseteq [Axes -> AxisCommands]
  /\ \A command \in Commands, a \in Axes : command[a].min <= command[a].max

Still == [position |-> 0, sweeping |-> FALSE, velocity |-> 0, min |-> 0, max |-> 0]

\* The default message; one that repeats it would aim where the axes already are.
DefaultMsg == [a \in Axes |-> [type |-> "default", angle |-> 0, velocity |-> 0,
                               min |-> 0, max |-> 0]]

ManagerInit ==
  /\ axis = [a \in Axes |-> Still]
  /\ last_msg = DefaultMsg /\ ticking = FALSE
  /\ aim = [a \in Axes |-> 0] /\ sent = 0

\* An angle ends a sweep and keeps its range and velocity; a sweep starts from where the axis is.
Commanded(current, command) ==
  IF command.type = "angle" THEN [current EXCEPT !.position = command.angle, !.sweeping = FALSE]
  ELSE IF command.type = "sweep"
    THEN [position |-> current.position, sweeping |-> TRUE, velocity |-> command.velocity,
          min |-> command.min, max |-> command.max]
    ELSE current

\* Mutant: a repeated message is obeyed again.
GimbalCmdCallback_Repeats(command) ==
  /\ sent < MaxCommands \/ command = last_msg
  /\ sent' = IF sent < MaxCommands THEN sent + 1 ELSE sent
  /\ last_msg' = command
  /\ axis' = [a \in Axes |-> Commanded(axis[a], command[a])]
  /\ UNCHANGED <<ticking, aim>>

\* A repetition of the whole message is dropped; anything else is obeyed on both axes.
GimbalCmdCallback(command) ==
  /\ sent < MaxCommands \/ command = last_msg
  /\ sent' = IF sent < MaxCommands THEN sent + 1 ELSE sent
  /\ last_msg' = command
  /\ axis' = IF command = last_msg THEN axis
             ELSE [a \in Axes |-> Commanded(axis[a], command[a])]
  /\ UNCHANGED <<ticking, aim>>

\* The first expiry of the timer only starts the clock.
FirstTick ==
  /\ ~ticking
  /\ ticking' = TRUE
  /\ UNCHANGED <<axis, last_msg, aim, sent>>

\* Where a sweeping axis would be, its range left aside.
Moved(current, delay) == current.position + current.velocity * delay

Continuous(current) == current.max - current.min = Turn

\* Inside a full turn.
Wrapped(current, position) == current.min + ((position - current.min) % Turn)

Clamped(current, position) ==
  IF position > current.max THEN current.max
  ELSE IF position < current.min THEN current.min ELSE position

\* Mutant: the axis turns where it is, past its range.
UpdatedAxis_NoClamp(current, delay) ==
  [current EXCEPT !.position = Moved(current, delay),
                  !.velocity = IF Moved(current, delay) \in current.min..current.max
                               THEN current.velocity ELSE -current.velocity]

\* A range of a full turn wraps; any other range ends the movement and turns it.
UpdatedAxis(current, delay) ==
  LET moved == Moved(current, delay)
  IN  IF Continuous(current)
        THEN [current EXCEPT !.position = Wrapped(current, moved)]
        ELSE [current EXCEPT !.position = Clamped(current, moved),
                !.velocity = IF moved \in current.min..current.max THEN current.velocity
                             ELSE -current.velocity]

\* Every later expiry moves the sweeping axes and publishes both positions.
UpdateState(delay) ==
  /\ ticking
  /\ axis' = [a \in Axes |-> IF axis[a].sweeping THEN UpdatedAxis(axis[a], delay) ELSE axis[a]]
  /\ aim' = [a \in Axes |-> axis'[a].position]
  /\ UNCHANGED <<last_msg, ticking, sent>>
=============================================================================
