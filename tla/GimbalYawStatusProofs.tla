------------------------ MODULE GimbalYawStatusProofs ------------------------
(***************************************************************************)
(* The acknowledgement answers the request it names, and it is withdrawn   *)
(* before upstream stops trusting the feedback it rests on, for every set  *)
(* of requests, every resolution of the circle and every timing the        *)
(* constructor leaves.                                                     *)
(***************************************************************************)
EXTENDS GimbalYawStatus, ExitConfig, TLAPS

\* Whatever its parameters are, the node's constructor leaves the timeouts in the order
\* YawConfigAssumption asks for: a feedback timeout of at least 1 ms, a TF timeout that is
\* not shorter, and a dwell that is not negative.
THEOREM YawConfigIsOrdered ==
  ASSUME NEW joint \in Int, NEW tf \in Int, NEW dwell \in Int
  PROVE  LET config == YawConfig(joint, tf, dwell)
         IN  /\ config.joint \in Nat \ {0} /\ config.tf \in Nat /\ config.joint <= config.tf
             /\ config.dwell \in Nat
BY DEF YawConfig, AtLeastOne

\* A counted age stays within its bound and grows by at most one.
LEMMA OlderIsAge == ASSUME NEW age \in Ages PROVE Older(age) \in Ages /\ Older(age) <= age + 1
BY YawConfigAssumption DEF YawConfigAssumption, Older, Ages

\* A request sequence, and the zero of none, are numbers.
LEMMA SequenceIsNat == \A s \in Sequences \cup {0} : s \in Nat
BY YawConfigAssumption DEF YawConfigAssumption

\* What evaluate() returns is a status, whatever the stores hold.
LEMMA EvaluationType ==
  ASSUME YawTypeOK
  PROVE  Evaluation \in [request_sequence : Sequences \cup {0},
                         yaw_authority : Authorities \cup {HOLD_SAFE_STOP},
                         locked : BOOLEAN, tf_healthy : BOOLEAN]
<1>1. Locked \in BOOLEAN /\ TfHealthy \in BOOLEAN
  BY DEF YawTypeOK, Locked, TfHealthy, FeedbackFresh, TfFresh
<1> QED
  BY <1>1 DEF YawTypeOK, Evaluation

\* The types are kept by every callback, every publication and every millisecond.
THEOREM YawTypeCorrect == YawSpec => []YawTypeOK
<1> USE YawConfigAssumption DEF YawConfigAssumption
<1>1. ASSUME YawInit PROVE YawTypeOK
  <2>1. 0 \in Circle /\ 0 \in Ages /\ AgeCap \in Ages /\ 0 \in 0..PublishMs
    BY DEF Circle, Ages
  <2>2. status \in [request_sequence : Sequences \cup {0},
                   yaw_authority : Authorities \cup {HOLD_SAFE_STOP},
                   locked : BOOLEAN, tf_healthy : BOOLEAN]
    BY <1>1 DEF YawInit
  <2>3. asked \in [Sequences -> [authority : Authorities \cup {HOLD_SAFE_STOP}, lock : BOOLEAN]]
    BY <1>1 DEF YawInit, NoRequest
  <2>4. request_sequence = 0 /\ requested_authority = HOLD_SAFE_STOP
    BY <1>1 DEF YawInit
  <2> HIDE DEF HOLD_SAFE_STOP, YawConfigAssumption
  <2> QED
    BY <1>1, <2>1, <2>2, <2>3, <2>4 DEF YawInit, YawTypeOK
<1>2. ASSUME YawTypeOK, [YawNext]_yaw_vars PROVE YawTypeOK'
  <2>1. ASSUME NEW s \in Sequences, NEW a \in Authorities, NEW lock \in BOOLEAN,
               Request(s, a, lock)
        PROVE  YawTypeOK'
    BY <1>2, <2>1 DEF YawTypeOK, Request, gimbal_vars, feedback_vars, node_vars
  <2>2. ASSUME NEW found \in Lookups, Feedback(found) PROVE YawTypeOK'
    <3>1. found.yaw \in Circle /\ found.ok \in BOOLEAN
      <4>1. 0 \in Circle
        BY DEF Circle
      <4>2. tf_yaw \in Circle
        BY <1>2 DEF YawTypeOK
      <4>3. found \in {[ok |-> TRUE, yaw |-> tf_yaw], [ok |-> FALSE, yaw |-> 0],
                      [ok |-> FALSE, yaw |-> tf_yaw]}
        BY <2>2 DEF Lookups
      <4>4. CASE found = [ok |-> TRUE, yaw |-> tf_yaw]
        BY <4>2, <4>4
      <4>5. CASE found = [ok |-> FALSE, yaw |-> 0]
        BY <4>1, <4>5
      <4>6. CASE found = [ok |-> FALSE, yaw |-> tf_yaw]
        BY <4>2, <4>6
      <4> QED
        BY <4>3, <4>4, <4>5, <4>6
    <3>2. has_yaw_rate' \in BOOLEAN /\ slow' \in BOOLEAN
      BY <1>2, <2>2 DEF YawTypeOK, Feedback, SlowAfter
    <3>3. still_since_valid' \in BOOLEAN /\ has_fake_yaw' \in BOOLEAN /\ unmeasured' \in BOOLEAN
      BY <1>2, <2>2, <3>1 DEF YawTypeOK, Feedback
    <3>4. still_age' \in Ages /\ feedback_age' \in Ages
      BY <1>2, <2>2 DEF YawTypeOK, Feedback, Ages
    <3> QED
      BY <1>2, <2>2, <3>1, <3>2, <3>3, <3>4
         DEF YawTypeOK, Feedback, gimbal_vars, request_vars, node_vars
  <2>3. CASE PublishStatus
    BY <1>2, <2>3, EvaluationType
       DEF YawTypeOK, PublishStatus, gimbal_vars, request_vars, feedback_vars
  <2>4. CASE PassTime
    <3>1. Older(feedback_age) \in Ages /\ Older(still_age) \in Ages /\ Older(tf_age) \in Ages
      BY <1>2, OlderIsAge DEF YawTypeOK
    <3>2. publish_age' \in 0..PublishMs /\ tf_age' \in Ages /\ yaw' \in Circle /\ tf_yaw' \in Circle
      BY <1>2, <2>4, <3>1 DEF YawTypeOK, PassTime, Ages
    <3> QED
      BY <1>2, <2>4, <3>1, <3>2 DEF YawTypeOK, PassTime, request_vars
  <2>5. CASE UNCHANGED yaw_vars
    BY <1>2, <2>5
       DEF YawTypeOK, yaw_vars, gimbal_vars, request_vars, feedback_vars, node_vars
  <2> QED
    BY <1>2, <2>1, <2>2, <2>3, <2>4, <2>5 DEF YawNext, RequestRefused, FeedbackIgnored
<1> QED
  BY <1>1, <1>2, PTL DEF YawSpec

-----------------------------------------------------------------------------
\* What makes AckAnswersItsRequest inductive: the request in force is the one recorded
\* under its sequence, and the status names no later one, so the record the status
\* answers is never written again.
RequestIsRecorded ==
  has_request =>
    /\ request_sequence \in Sequences
    /\ asked[request_sequence] = [authority |-> requested_authority, lock |-> require_lock]

StatusNamesThePast ==
  status.request_sequence # 0 => has_request /\ status.request_sequence <= request_sequence

AckInv == RequestIsRecorded /\ StatusNamesThePast /\ AckAnswersItsRequest

\* The authority published answers the request whose sequence it carries, however many
\* requests arrive between the evaluation and the moment it is read.
THEOREM AckAnswersTheRequest == YawSpec => []AckAnswersItsRequest
<1> USE YawConfigAssumption DEF YawConfigAssumption
<1>1. YawInit => AckInv
  BY DEF YawInit, AckInv, RequestIsRecorded, StatusNamesThePast, AckAnswersItsRequest
<1>2. ASSUME YawTypeOK, AckInv, [YawNext]_yaw_vars PROVE AckInv'
  <2>1. ASSUME NEW s \in Sequences, NEW a \in Authorities, NEW lock \in BOOLEAN,
               Request(s, a, lock)
        PROVE  AckInv'
    <3>1. asked'[s] = [authority |-> a, lock |-> lock]
          /\ \A r \in Sequences \ {s} : asked'[r] = asked[r]
      BY <1>2, <2>1 DEF YawTypeOK, Request
    <3>2. status' = status /\ has_request' /\ request_sequence' = s
          /\ requested_authority' = a /\ require_lock' = lock
      BY <2>1 DEF Request, node_vars
    <3>3. status.request_sequence \in Nat /\ request_sequence \in Nat /\ s \in Nat
      BY <1>2, SequenceIsNat DEF YawTypeOK
    <3>4. status.request_sequence # 0 => status.request_sequence < s
      <4>1. has_request => s > request_sequence
        BY <2>1 DEF Request
      <4> QED
        BY <1>2, <3>3, <4>1 DEF AckInv, StatusNamesThePast
    <3>5. RequestIsRecorded'
      BY <3>1, <3>2 DEF RequestIsRecorded
    <3>6. StatusNamesThePast'
      BY <3>2, <3>3, <3>4 DEF StatusNamesThePast
    <3>7. AckAnswersItsRequest'
      <4>1. status.yaw_authority # HOLD_SAFE_STOP =>
              status.request_sequence \in Sequences /\ status.request_sequence # s
        BY <1>2, <3>3, <3>4 DEF AckInv, AckAnswersItsRequest, YawConfigAssumption
      <4> QED
        BY <1>2, <3>1, <3>2, <4>1 DEF AckInv, AckAnswersItsRequest
    <3> QED
      BY <3>5, <3>6, <3>7 DEF AckInv
  <2>2. CASE PublishStatus
    <3>1. status' = Evaluation /\ UNCHANGED <<request_vars, asked>>
      BY <2>2 DEF PublishStatus
    <3>2. RequestIsRecorded' /\ StatusNamesThePast'
      BY <1>2, <3>1
         DEF AckInv, RequestIsRecorded, StatusNamesThePast, Evaluation, request_vars, YawTypeOK
    <3>3. AckAnswersItsRequest'
      <4>1. CASE ~Grants
        BY <3>1, <4>1 DEF AckAnswersItsRequest, Evaluation
      <4>2. CASE Grants
        BY <1>2, <3>1, <4>2
           DEF AckInv, RequestIsRecorded, AckAnswersItsRequest, Evaluation, Grants
      <4> QED
        BY <4>1, <4>2
    <3> QED
      BY <3>2, <3>3 DEF AckInv
  <2>3. CASE UNCHANGED <<request_vars, status, asked>>
    BY <1>2, <2>3
       DEF AckInv, RequestIsRecorded, StatusNamesThePast, AckAnswersItsRequest, request_vars
  <2> QED
    BY <1>2, <2>1, <2>2, <2>3
       DEF YawNext, RequestRefused, Feedback, FeedbackIgnored, PassTime, yaw_vars, node_vars
<1> QED
  BY <1>1, <1>2, YawTypeCorrect, PTL DEF YawSpec, AckInv

-----------------------------------------------------------------------------
\* What makes AckNeverOutlivesFeedback inductive: the feedback under a status that
\* vouches ages no faster than the publish timer counts.
Vouches == status.tf_healthy \/ status.locked \/ status.yaw_authority # HOLD_SAFE_STOP
FeedbackUnderStatus == Vouches => feedback_age <= JointTimeoutMs + publish_age

\* A status that vouches for the gimbal is replaced before the lease upstream runs out,
\* if the timeout and the publish period together fit in the lease.  The order the
\* header asks for (T_pub < T_joint <= T_tf < T_lease) does not give that by itself.
THEOREM AckWithdrawnInTime ==
  ASSUME JointTimeoutMs + PublishMs < LeaseMs
  PROVE  YawSpec => []AckNeverOutlivesFeedback
<1> USE YawConfigAssumption DEF YawConfigAssumption
<1>1. YawInit => FeedbackUnderStatus
  BY DEF YawInit, FeedbackUnderStatus, Vouches
<1>2. ASSUME YawTypeOK, FeedbackUnderStatus, [YawNext]_yaw_vars PROVE FeedbackUnderStatus'
  <2> USE <1>2 DEF FeedbackUnderStatus, Vouches
  <2>1. CASE UNCHANGED <<feedback_age, status, publish_age>>
    BY <2>1
  <2>2. ASSUME NEW found \in Lookups, Feedback(found) PROVE FeedbackUnderStatus'
    BY <2>2 DEF Feedback, node_vars, YawTypeOK
  <2>3. CASE PublishStatus
    <3>1. FeedbackFresh \/ ~(TfHealthy \/ Locked \/ Grants)
      BY DEF TfHealthy, Locked, Grants
    <3>2. FeedbackFresh => feedback_age <= JointTimeoutMs
      BY DEF FeedbackFresh
    <3> QED
      BY <2>3, <3>1, <3>2 DEF PublishStatus, Evaluation, feedback_vars, YawTypeOK, Ages
  <2>4. CASE PassTime
    <3>1. feedback_age' <= feedback_age + 1 /\ feedback_age' \in Ages
      BY <2>4, OlderIsAge DEF PassTime, YawTypeOK
    <3> QED
      BY <2>4, <3>1 DEF PassTime, YawTypeOK, Ages
  <2> QED
    BY <2>1, <2>2, <2>3, <2>4
       DEF YawNext, Request, RequestRefused, FeedbackIgnored, yaw_vars, feedback_vars, node_vars
<1>3. YawTypeOK /\ FeedbackUnderStatus => AckNeverOutlivesFeedback
  BY DEF YawTypeOK, FeedbackUnderStatus, Vouches, AckNeverOutlivesFeedback, Ages
<1> QED
  BY <1>1, <1>2, <1>3, YawTypeCorrect, PTL DEF YawSpec
=============================================================================
