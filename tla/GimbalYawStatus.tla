--------------------------- MODULE GimbalYawStatus ---------------------------
(***************************************************************************)
(* The yaw acknowledgement: GimbalYawStatusEvaluator                       *)
(* (gimbal_yaw_status_logic.hpp) and the node that feeds it joint states,  *)
(* TF lookups and requests and publishes its verdict                       *)
(* (gimbal_yaw_status_bridge.cpp), together with the gimbal it watches.    *)
(* Time is counted in milliseconds; one step of PassTime is one            *)
(* millisecond, in which the gimbal turns by at most one of Positions      *)
(* steps of a circle.  body_yaw and the value of fake_yaw are copied       *)
(* through and left out; the rate is kept as "within the lock threshold".  *)
(***************************************************************************)
EXTENDS Naturals

CONSTANTS
  JointTimeoutMs, TfTimeoutMs, LockDwellMs,  \* GimbalYawStatusConfig
  SlowMs,               \* lock_rate_threshold: one position in SlowMs is slow enough
  AllowBodyYawFollow,   \* allow_body_yaw_follow
  PublishMs,            \* the period of the publish timer
  LeaseMs,              \* how long upstream trusts a status
  AgeCap,               \* bound: ages are counted up to here
  Positions,            \* how many yaw positions make the circle
  Authorities,          \* bound: yaw_authority values requested
  Sequences,            \* bound: request_sequence values requested
  TfFaults              \* of "fail" (a lookup fails) and "stale" (TF stops updating)

HOLD_SAFE_STOP == 0
GIMBAL_COMPENSATED == 1
BODY_YAW_FOLLOW == 2

\* The constructor of the node leaves the timeouts like this.  It does not make the
\* publish period shorter than the feedback timeout, and it does not know the lease:
\* the order the header asks for (gimbal_yaw_status_logic.hpp:26-31) is not assumed.
ASSUME YawConfigAssumption ==
  /\ JointTimeoutMs \in Nat \ {0} /\ TfTimeoutMs \in Nat /\ JointTimeoutMs <= TfTimeoutMs
  /\ LockDwellMs \in Nat /\ SlowMs \in Nat \ {0} /\ AllowBodyYawFollow \in BOOLEAN
  /\ PublishMs \in Nat \ {0} /\ LeaseMs \in Nat
  /\ Positions \in Nat \ {0}
  /\ AgeCap \in Nat /\ AgeCap > TfTimeoutMs /\ AgeCap > JointTimeoutMs + PublishMs
  /\ AgeCap > LockDwellMs /\ 2 * AgeCap >= SlowMs * Positions
  /\ Authorities \subseteq Nat /\ Sequences \subseteq Nat \ {0}

VARIABLES
  \* the gimbal and TF
  yaw,              \* where the gimbal points
  tf_yaw, tf_age,   \* what a lookup returns, and how old it is
  \* the evaluator
  has_request, request_sequence, requested_authority, require_lock,
  has_feedback, tf_ok, gimbal_yaw, has_fake_yaw,
  feedback_age,     \* now - feedback_time_
  has_yaw_rate,
  slow,             \* |yaw_rate_| <= lock_rate_threshold
  still_since_valid,
  still_age,        \* now - still_since_
  \* the node
  status,           \* the message published last
  publish_age,      \* time since then
  \* history
  asked,            \* the request accepted under each sequence
  unmeasured        \* a failed lookup is among the samples still_since_ rests on

gimbal_vars == <<yaw, tf_yaw, tf_age>>
request_vars == <<has_request, request_sequence, requested_authority, require_lock>>
feedback_vars == <<has_feedback, tf_ok, gimbal_yaw, has_fake_yaw, feedback_age,
                   has_yaw_rate, slow, still_since_valid, still_age>>
node_vars == <<status, publish_age>>
yaw_vars == <<gimbal_vars, request_vars, feedback_vars, node_vars, asked, unmeasured>>

Older(age) == IF age < AgeCap THEN age + 1 ELSE AgeCap
Ages == 0..AgeCap

Circle == 0..(Positions - 1)
NoRequest == [authority |-> HOLD_SAFE_STOP, lock |-> FALSE]

\* |normalizeAngle(b - a)|: the short way round.
Turn(a, b) ==
  LET d == IF a < b THEN b - a ELSE a - b
  IN  IF 2 * d <= Positions THEN d ELSE Positions - d
-----------------------------------------------------------------------------
(* evaluate() *)

FeedbackFresh == has_feedback /\ feedback_age <= JointTimeoutMs
TfFresh == tf_ok /\ has_feedback /\ feedback_age <= TfTimeoutMs
TfHealthy == FeedbackFresh /\ TfFresh /\ has_fake_yaw

\* Mutant: the lock is read off the dwell alone.
Locked_ByDwell == still_since_valid /\ still_age >= LockDwellMs

Locked == TfHealthy /\ still_since_valid /\ still_age >= LockDwellMs

Grants ==
  /\ FeedbackFresh /\ TfHealthy /\ has_request
  /\ requested_authority = BODY_YAW_FOLLOW => AllowBodyYawFollow
  /\ require_lock => Locked

Evaluation ==
  [request_sequence |-> IF has_request THEN request_sequence ELSE 0,
   yaw_authority |-> IF Grants THEN requested_authority ELSE HOLD_SAFE_STOP,
   locked |-> Locked, tf_healthy |-> TfHealthy]
-----------------------------------------------------------------------------
YawInit ==
  /\ yaw \in Circle /\ tf_yaw = yaw /\ tf_age = 0
  /\ has_request = FALSE /\ request_sequence = 0
  /\ requested_authority = HOLD_SAFE_STOP /\ require_lock = FALSE
  /\ has_feedback = FALSE /\ tf_ok = FALSE /\ gimbal_yaw = 0 /\ has_fake_yaw = FALSE
  /\ feedback_age = AgeCap /\ has_yaw_rate = FALSE /\ slow = TRUE
  /\ still_since_valid = FALSE /\ still_age = AgeCap
  /\ status = [request_sequence |-> 0, yaw_authority |-> HOLD_SAFE_STOP,
               locked |-> FALSE, tf_healthy |-> FALSE]
  /\ publish_age = 0
  /\ asked = [s \in Sequences |-> NoRequest]
  /\ unmeasured = FALSE

\* Mutant: the same sequence may ask again.
Request_AcceptsEqual(sequence, authority, lock) ==
  /\ has_request => sequence >= request_sequence
  /\ has_request' = TRUE /\ request_sequence' = sequence
  /\ requested_authority' = authority /\ require_lock' = lock
  /\ asked' = [asked EXCEPT ![sequence] =
                 IF sequence = request_sequence THEN @ ELSE [authority |-> authority, lock |-> lock]]
  /\ UNCHANGED <<gimbal_vars, feedback_vars, node_vars, unmeasured>>

\* Mutant: the sequence stored is off by one.
Request_OffByOne(sequence, authority, lock) ==
  /\ has_request => sequence > request_sequence
  /\ has_request' = TRUE /\ request_sequence' = sequence + 1
  /\ requested_authority' = authority /\ require_lock' = lock
  /\ UNCHANGED <<gimbal_vars, feedback_vars, node_vars, asked, unmeasured>>

\* yawAuthorityRequestCallback: a sequence that is not greater is refused.
Request(sequence, authority, lock) ==
  /\ has_request => sequence > request_sequence
  /\ has_request' = TRUE /\ request_sequence' = sequence
  /\ requested_authority' = authority /\ require_lock' = lock
  /\ asked' = [asked EXCEPT ![sequence] = [authority |-> authority, lock |-> lock]]
  /\ UNCHANGED <<gimbal_vars, feedback_vars, node_vars, unmeasured>>

RequestRefused(sequence) ==
  /\ has_request /\ sequence <= request_sequence
  /\ UNCHANGED yaw_vars

\* The two lookups: both succeed, or the one of the gimbal fails and its yaw stays at
\* the 0.0 it was declared with, or only the one of the body fails.
Lookups ==
  {[ok |-> TRUE, yaw |-> tf_yaw]} \cup
  (IF "fail" \in TfFaults
     THEN {[ok |-> FALSE, yaw |-> 0], [ok |-> FALSE, yaw |-> tf_yaw]} ELSE {})

\* The rate onFeedback computes is within the threshold; without an earlier sample
\* there is none.
SlowAfter(found) == Turn(gimbal_yaw, found.yaw) * SlowMs <= feedback_age

\* Mutant: every sample restarts the dwell.
Feedback_RestartsDwell(found) ==
  /\ has_feedback => feedback_age > 0
  /\ has_yaw_rate' = has_feedback
  /\ slow' = (has_feedback => SlowAfter(found))
  /\ still_since_valid' = (has_yaw_rate' /\ slow')
  /\ still_age' = IF still_since_valid' THEN 0 ELSE still_age
  /\ has_fake_yaw' = (has_fake_yaw \/ found.ok)
  /\ gimbal_yaw' = found.yaw /\ tf_ok' = found.ok
  /\ feedback_age' = 0 /\ has_feedback' = TRUE
  /\ UNCHANGED <<gimbal_vars, request_vars, node_vars, asked, unmeasured>>

\* jointStateCallback with the big yaw joint in the message.  Samples are more than
\* zero apart on the steady clock, here at least one millisecond.
Feedback(found) ==
  /\ has_feedback => feedback_age > 0
  /\ has_yaw_rate' = has_feedback
  /\ slow' = (has_feedback => SlowAfter(found))
  /\ still_since_valid' = (has_yaw_rate' /\ slow')
  /\ still_age' = IF still_since_valid' /\ ~still_since_valid THEN 0 ELSE still_age
  /\ has_fake_yaw' = (has_fake_yaw \/ found.ok)
  /\ gimbal_yaw' = found.yaw /\ tf_ok' = found.ok
  /\ feedback_age' = 0 /\ has_feedback' = TRUE
  /\ unmeasured' = (~found.ok \/ (has_feedback /\ ~tf_ok)
                     \/ (unmeasured /\ still_since_valid /\ still_since_valid'))
  /\ UNCHANGED <<gimbal_vars, request_vars, node_vars, asked>>

\* A joint state without the big yaw joint is not feedback.
FeedbackIgnored == UNCHANGED yaw_vars

PublishStatus ==
  /\ publish_age > 0
  /\ status' = Evaluation /\ publish_age' = 0
  /\ UNCHANGED <<gimbal_vars, request_vars, feedback_vars, asked, unmeasured>>

\* One millisecond.  The publish timer is never late.
PassTime ==
  /\ publish_age < PublishMs /\ publish_age' = publish_age + 1
  /\ yaw' \in {y \in Circle : Turn(yaw, y) <= 1}
  /\ \/ tf_yaw' = yaw' /\ tf_age' = 0
     \/ "stale" \in TfFaults /\ tf_yaw' = tf_yaw /\ tf_age' = Older(tf_age)
  /\ feedback_age' = Older(feedback_age)
  /\ still_age' = Older(still_age)
  /\ UNCHANGED <<request_vars, has_feedback, tf_ok, gimbal_yaw, has_fake_yaw, has_yaw_rate,
                 slow, still_since_valid, status, asked, unmeasured>>

YawNext ==
  \/ \E s \in Sequences, a \in Authorities, lock \in BOOLEAN : Request(s, a, lock)
  \/ \E s \in Sequences : RequestRefused(s)
  \/ \E found \in Lookups : Feedback(found)
  \/ FeedbackIgnored
  \/ PublishStatus
  \/ PassTime

YawSpec == YawInit /\ [][YawNext]_yaw_vars

\* The clock runs, and the publish timer with it.
FairYawSpec == YawSpec /\ WF_yaw_vars(PublishStatus) /\ WF_yaw_vars(PassTime)
-----------------------------------------------------------------------------
\* The type invariant of the acknowledgement.
YawTypeOK ==
  /\ yaw \in Circle /\ tf_yaw \in Circle /\ tf_age \in Ages
  /\ has_request \in BOOLEAN /\ request_sequence \in Sequences \cup {0}
  /\ requested_authority \in Authorities \cup {HOLD_SAFE_STOP} /\ require_lock \in BOOLEAN
  /\ has_feedback \in BOOLEAN /\ tf_ok \in BOOLEAN /\ gimbal_yaw \in Circle
  /\ has_fake_yaw \in BOOLEAN /\ feedback_age \in Ages
  /\ has_yaw_rate \in BOOLEAN /\ slow \in BOOLEAN
  /\ still_since_valid \in BOOLEAN /\ still_age \in Ages
  /\ status \in [request_sequence : Sequences \cup {0},
                 yaw_authority : Authorities \cup {HOLD_SAFE_STOP},
                 locked : BOOLEAN, tf_healthy : BOOLEAN]
  /\ publish_age \in 0..PublishMs
  /\ asked \in [Sequences -> [authority : Authorities \cup {HOLD_SAFE_STOP}, lock : BOOLEAN]]
  /\ unmeasured \in BOOLEAN

\* The authority upstream reads answers the very request whose sequence it carries: it
\* is the mode that request asked for, locked if it asked for a lock, and never a
\* body-yaw handover the robot cannot do (gimbal_yaw_status_logic.hpp:11-18).
AckAnswersItsRequest ==
  status.yaw_authority # HOLD_SAFE_STOP =>
    /\ status.request_sequence \in Sequences
    /\ status.yaw_authority = asked[status.request_sequence].authority
    /\ asked[status.request_sequence].lock => status.locked
    /\ status.yaw_authority = BODY_YAW_FOLLOW => AllowBodyYawFollow

\* The status upstream sees stops vouching for the gimbal before its own lease on that
\* feedback runs out: what is published rests on feedback at most one timeout and one
\* publish period old (gimbal_yaw_status_logic.hpp:29-31).
AckNeverOutlivesFeedback ==
  status.tf_healthy \/ status.locked \/ status.yaw_authority # HOLD_SAFE_STOP =>
    feedback_age <= JointTimeoutMs + PublishMs /\ feedback_age < LeaseMs

\* A gimbal that comes to rest is acknowledged as locked, and stays so, if the feedback
\* keeps coming within its timeout and the lookups succeed: no earlier turn, failed
\* lookup or gap keeps the dwell from starting again.
RestIsAcknowledged ==
  /\ <>[](FeedbackFresh /\ tf_ok)
  /\ <>[][yaw' = yaw]_yaw_vars
  => <>[]status.locked

\* What counts as locked is a rate that was measured: no lookup that failed is among
\* the samples the dwell rests on (gimbal_yaw_status_logic.hpp:15-16).
LockIsMeasured == Locked => ~unmeasured

\* A healthy TF is fresh TF (gimbal_yaw_status_logic.hpp:8-10).
TfHealthyIsFresh == TfHealthy => tf_age <= TfTimeoutMs
=============================================================================
