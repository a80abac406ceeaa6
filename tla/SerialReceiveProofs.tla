------------------------- MODULE SerialReceiveProofs -------------------------
(***************************************************************************)
(* The receiver, for every sequence of messages, every way of cutting the  *)
(* stream into reads and every corruption of one byte.                     *)
(***************************************************************************)
EXTENDS SerialReceive, ChecksumsProofs, FiniteSetTheorems

-----------------------------------------------------------------------------
(* The frames and where they start *)

N == Len(Messages)

LEMMA MessageFacts ==
  /\ N \in Nat /\ DOMAIN Messages = 1..N
  /\ \A i \in 1..N :
       /\ Messages[i] \in [id : Bytes, payload : Seq(Bytes)]
       /\ Messages[i].id \in Bytes /\ Messages[i].payload \in Seq(Bytes)
       /\ Len(Messages[i].payload) \in Bytes /\ Len(Messages[i].payload) \in Nat
       /\ FrameLength(Messages[i]) = Len(Messages[i].payload) + 6
       /\ FrameLength(Messages[i]) \in Nat /\ FrameLength(Messages[i]) >= 6
<1>1. Messages \in Seq([id : Bytes, payload : Seq(Bytes)])
  BY ReceiveAssumption
<1>2. N \in Nat /\ DOMAIN Messages = 1..N
  BY <1>1 DEF N
<1>3. ASSUME NEW i \in 1..N
      PROVE  Messages[i] \in [id : Bytes, payload : Seq(Bytes)] /\ Len(Messages[i].payload) \in Bytes
  BY <1>1, <1>2, <1>3, ReceiveAssumption, ElementOfSeq DEF N
<1>4. ASSUME NEW i \in 1..N
      PROVE  /\ Messages[i].id \in Bytes /\ Messages[i].payload \in Seq(Bytes)
             /\ Len(Messages[i].payload) \in Nat
  BY <1>3
<1> QED
  BY <1>2, <1>3, <1>4 DEF FrameLength

LEMMA StartFacts ==
  /\ Start \in [1..(N + 1) -> Nat]
  /\ Start[1] = 0
  /\ \A i \in 1..N : Start[i + 1] = Start[i] + FrameLength(Messages[i])
<1> DEFINE Turn(f, i) == IF i = 1 THEN 0 ELSE f[i - 1] + FrameLength(Messages[i - 1])
           Lengths == [i \in 1..N |-> FrameLength(Messages[i])]
           Plus == [x \in Nat |-> [y \in Nat |-> x + y]]
<1>1. Lengths \in Seq(Nat) /\ Len(Lengths) = N
  BY MessageFacts
<1>2. Plus \in [Nat -> [Nat -> Nat]]
  OBVIOUS
<1>3. PICK f : IsRun(Nat, Plus, 0, Lengths, f)
  <2> HIDE DEF Lengths, Plus
  <2> QED
    BY <1>1, <1>2, RunExists
<1>4. f \in [0..N -> Nat] /\ f[0] = 0
  BY <1>1, <1>3 DEF IsRun
<1>5. ASSUME NEW i \in 1..N PROVE f[i] = f[i - 1] + FrameLength(Messages[i])
  <2>1. f[i] = Plus[f[i - 1]][Lengths[i]]
    <3> HIDE DEF Plus, Lengths
    <3> QED
      BY <1>1, <1>3 DEF IsRun
  <2>2. f[i - 1] \in Nat /\ FrameLength(Messages[i]) \in Nat
    BY <1>4, MessageFacts
  <2> QED
    BY <2>1, <2>2
<1> DEFINE g == [i \in 1..(N + 1) |-> f[i - 1]]
<1>6. g \in [1..(N + 1) -> Nat]
  BY <1>4, MessageFacts
<1>7. g = [i \in 1..(N + 1) |-> Turn(g, i)]
  <2>1. ASSUME NEW i \in 1..(N + 1) PROVE g[i] = Turn(g, i)
    <3>1. CASE i = 1
      BY <1>4, <3>1
    <3>2. CASE i # 1
      <4>1. i - 1 \in 1..N /\ i - 1 \in 1..(N + 1)
        BY <3>2, MessageFacts
      <4>2. g[i] = f[i - 1] /\ g[i - 1] = f[(i - 1) - 1]
        BY <4>1
      <4> QED
        BY <1>5, <3>2, <4>1, <4>2
    <3> QED
      BY <3>1, <3>2
  <2> HIDE DEF g, Turn
  <2> QED
    BY <1>6, <2>1
<1>8. Start = [i \in 1..(N + 1) |-> Turn(Start, i)]
  <2> HIDE DEF g
  <2> QED
    BY <1>7 DEF Start, N
<1>9. \A i \in 1..(N + 1) : Start[i] = Turn(Start, i)
  <2> HIDE DEF Turn
  <2> QED
    BY <1>8
<1>10. Start[1] = 0
  BY <1>9, MessageFacts
<1>11. ASSUME NEW i \in 1..N PROVE Start[i + 1] = Start[i] + FrameLength(Messages[i])
  <2>1. i + 1 \in 1..(N + 1) /\ i + 1 # 1 /\ (i + 1) - 1 = i
    BY MessageFacts
  <2> QED
    BY <1>9, <2>1
<1> DEFINE Known == {n \in 0..N : Start[n + 1] \in Nat}
<1>12. \A n \in 0..N : Start[n + 1] \in Nat
  <2>1. 0 \in Known
    BY <1>10, MessageFacts
  <2>2. ASSUME NEW n \in 0..(N - 1), n \in Known PROVE n + 1 \in Known
    <3>1. n + 1 \in 1..N
      BY MessageFacts
    <3>2. Start[(n + 1) + 1] = Start[n + 1] + FrameLength(Messages[n + 1])
      BY <1>11, <3>1
    <3>3. Start[n + 1] \in Nat /\ FrameLength(Messages[n + 1]) \in Nat
      BY <2>2, <3>1, MessageFacts
    <3> QED
      BY <3>1, <3>2, <3>3
  <2>3. \A n \in 0..(N - 1) : n \in Known => n + 1 \in Known
    BY <2>2
  <2> HIDE DEF Known
  <2>4. \A n \in 0..N : n \in Known
    BY <2>1, <2>3, MessageFacts, InductionUpTo
  <2> QED
    BY <2>4 DEF Known
<1>13. ASSUME NEW i \in 1..(N + 1) PROVE Start[i] \in Nat
  <2>1. i - 1 \in 0..N /\ (i - 1) + 1 = i
    BY MessageFacts
  <2> QED
    BY <1>12, <2>1
<1>14. Start \in [1..(N + 1) -> Nat]
  <2> HIDE DEF Turn
  <2> QED
    BY <1>8, <1>13
<1> QED
  BY <1>10, <1>11, <1>14

LEMMA StartAfter ==
  ASSUME NEW i \in 1..(N + 1), NEW j \in 1..(N + 1), i < j
  PROVE  Start[i] + 6 <= Start[j]
<1> DEFINE After == {n \in 0..(N - i) : Start[i] + 6 <= Start[i + 1 + n]}
<1>1. N \in Nat /\ N - i \in Nat /\ i \in 1..N
  BY MessageFacts
<1>2. 0 \in After
  <2>1. Start[i + 1] = Start[i] + FrameLength(Messages[i])
    BY <1>1, StartFacts
  <2>2. Start[i] \in Nat /\ FrameLength(Messages[i]) \in Nat /\ FrameLength(Messages[i]) >= 6
    BY <1>1, StartFacts, MessageFacts
  <2> QED
    BY <1>1, <2>1, <2>2
<1>3. ASSUME NEW n \in 0..((N - i) - 1), n \in After PROVE n + 1 \in After
  <2> DEFINE k == i + 1 + n
  <2>1. /\ k \in 1..N /\ i + 1 + (n + 1) = k + 1 /\ n + 1 \in 0..(N - i)
        /\ k \in 1..(N + 1) /\ k + 1 \in 1..(N + 1)
    BY <1>1
  <2>2. Start[i] + 6 <= Start[k]
    BY <1>3
  <2> HIDE DEF k
  <2>3. Start[k + 1] = Start[k] + FrameLength(Messages[k]) /\ FrameLength(Messages[k]) \in Nat
    BY <2>1, StartFacts, MessageFacts
  <2>4. Start[i] \in Nat /\ Start[k] \in Nat
    BY <2>1, StartFacts
  <2>5. Start[i] + 6 <= Start[k + 1]
    BY <2>2, <2>3, <2>4
  <2> QED
    BY <2>1, <2>5
<1>4. j - i - 1 \in After
  <2>1. \A n \in 0..((N - i) - 1) : n \in After => n + 1 \in After
    BY <1>3
  <2> HIDE DEF After
  <2>2. \A n \in 0..(N - i) : n \in After
    BY <1>1, <1>2, <2>1, InductionUpTo
  <2> QED
    BY <1>1, <2>2
<1>5. i + 1 + (j - i - 1) = j
  BY <1>1
<1> QED
  BY <1>4, <1>5

\* The order of the starts is the order of the frames.
LEMMA StartOrder ==
  ASSUME NEW i \in 1..N, NEW j \in 1..(N + 1)
  PROVE  /\ Start[i] \in Nat /\ Start[i + 1] \in Nat /\ Start[j] \in Nat
         /\ Start[i + 1] = Start[i] + FrameLength(Messages[i])
         /\ Start[i] + 6 <= Start[i + 1]
         /\ Start[i + 1] <= Start[j] <=> i < j
         /\ Start[i + 1] <= Start[N + 1]
         /\ Start[j] <= Start[N + 1]
<1>1. N \in Nat /\ i \in 1..(N + 1) /\ i + 1 \in 1..(N + 1) /\ N + 1 \in 1..(N + 1)
  BY MessageFacts
<1>2. Start[i] \in Nat /\ Start[i + 1] \in Nat /\ Start[j] \in Nat /\ Start[N + 1] \in Nat
  BY <1>1, StartFacts
<1>3. Start[i] + 6 <= Start[i + 1]
  BY <1>1, StartAfter
<1>4. ASSUME i < j PROVE Start[i + 1] <= Start[j]
  <2>1. CASE i + 1 = j
    BY <1>2, <2>1
  <2>2. CASE i + 1 < j
    BY <1>1, <1>2, <2>2, StartAfter
  <2> QED
    BY <1>1, <1>4, <2>1, <2>2
<1>5. ASSUME ~(i < j) PROVE ~(Start[i + 1] <= Start[j])
  <2>1. j < i + 1
    BY <1>1, <1>5
  <2>2. Start[j] + 6 <= Start[i + 1]
    BY <1>1, <2>1, StartAfter
  <2> QED
    BY <1>2, <2>2
<1>6. Start[j] <= Start[N + 1]
  <2>1. CASE j = N + 1
    BY <1>2, <2>1
  <2>2. CASE j < N + 1
    BY <1>1, <1>2, <2>2, StartAfter
  <2> QED
    BY <1>1, <2>1, <2>2
<1>7. Start[i + 1] <= Start[N + 1]
  <2>1. CASE i + 1 = N + 1
    BY <1>2, <2>1
  <2>2. CASE i + 1 < N + 1
    BY <1>1, <1>2, <2>2, StartAfter
  <2> QED
    BY <1>1, <2>1, <2>2
<1> QED
  BY <1>2, <1>3, <1>4, <1>5, <1>6, <1>7, StartFacts

LEMMA FrameBounds ==
  ASSUME NEW i \in 1..N
  PROVE  /\ Start[i] \in Nat /\ Start[i + 1] \in Nat /\ Start[N + 1] \in Nat
         /\ i + 1 \in 1..(N + 1) /\ i \in 1..(N + 1)
         /\ Start[i] + 6 <= Start[i + 1] /\ Start[i + 1] <= Start[N + 1]
<1>1. N \in Nat /\ i + 1 \in 1..(N + 1) /\ i \in 1..(N + 1) /\ N + 1 \in 1..(N + 1)
  BY MessageFacts
<1>2. \A j \in 1..(N + 1) : Start[j] \in Nat
  BY StartFacts
<1>3. Start[i] + 6 <= Start[i + 1] /\ Start[i + 1] <= Start[N + 1]
  BY <1>1, StartOrder
<1> QED
  BY <1>1, <1>2, <1>3

\* Every byte of the stream belongs to one frame.
LEMMA CarrierFacts ==
  /\ \A p \in 1..Start[N + 1] :
       CarrierOf(p) \in 1..N /\ Start[CarrierOf(p)] < p /\ p <= Start[CarrierOf(p) + 1]
  /\ \A i \in 1..N : \A p \in (Start[i] + 1)..Start[i + 1] : CarrierOf(p) = i
<1>1. ASSUME NEW p \in 1..Start[N + 1] PROVE \E i \in 1..N : Start[i] < p /\ p <= Start[i + 1]
  <2> DEFINE Past == {n \in Nat : n \in 1..(N + 1) /\ p <= Start[n]}
  <2>1. N \in Nat /\ Start[N + 1] \in Nat /\ Start[1] = 0
    BY MessageFacts, StartFacts
  <2>2. N + 1 \in Past /\ Past \subseteq Nat
    BY <2>1
  <2>3. PICK j \in Past : \A k \in Past : j <= k
    <3> HIDE DEF Past
    <3> QED
      BY <2>2, LeastNatural
  <2>4. j # 1 /\ j \in 1..(N + 1) /\ p <= Start[j]
    BY <2>1, <2>3
  <2>5. j - 1 \in 1..N /\ j - 1 \in 1..(N + 1) /\ (j - 1) + 1 = j
    BY <2>1, <2>4
  <2>6. ~(p <= Start[j - 1])
    BY <2>3, <2>5
  <2>7. Start[j - 1] \in Nat
    BY <2>5, StartFacts
  <2>8. Start[j - 1] < p
    BY <2>6, <2>7
  <2> QED
    BY <2>4, <2>5, <2>8
<1>2. ASSUME NEW p \in Nat, NEW i \in 1..N, NEW j \in 1..N,
             Start[i] < p, p <= Start[i + 1], Start[j] < p, p <= Start[j + 1]
      PROVE  i = j
  <2>1. /\ N \in Nat /\ i \in 1..(N + 1) /\ j \in 1..(N + 1)
        /\ Start[i] \in Nat /\ Start[j] \in Nat /\ Start[i + 1] \in Nat /\ Start[j + 1] \in Nat
    <3>1. N \in Nat /\ i \in 1..(N + 1) /\ j \in 1..(N + 1)
      BY MessageFacts
    <3>2. Start[i] \in Nat /\ Start[i + 1] \in Nat
      BY <3>1, StartOrder
    <3>3. Start[j] \in Nat /\ Start[j + 1] \in Nat
      BY <3>1, StartOrder
    <3> QED
      BY <3>1, <3>2, <3>3
  <2>2. ~(Start[i + 1] <= Start[j]) /\ ~(Start[j + 1] <= Start[i])
    BY <1>2, <2>1
  <2>3. ~(i < j) /\ ~(j < i)
    BY <2>1, <2>2, StartOrder
  <2> QED
    BY <2>1, <2>3
<1>3. \A p : CarrierOf(p) = CHOOSE i \in 1..N : Start[i] < p /\ p <= Start[i + 1]
  BY MessageFacts DEF CarrierOf
<1>4. ASSUME NEW p \in 1..Start[N + 1]
      PROVE  CarrierOf(p) \in 1..N /\ Start[CarrierOf(p)] < p /\ p <= Start[CarrierOf(p) + 1]
  BY <1>1, <1>3
<1>5. ASSUME NEW i \in 1..N, NEW p \in (Start[i] + 1)..Start[i + 1] PROVE CarrierOf(p) = i
  <2>1. Start[i] \in Nat /\ Start[i + 1] \in Nat /\ Start[i + 1] <= Start[N + 1] /\ Start[N + 1] \in Nat
    BY MessageFacts, StartFacts, StartOrder
  <2>2. p \in Nat /\ p \in 1..Start[N + 1] /\ Start[i] < p /\ p <= Start[i + 1]
    BY <2>1
  <2> QED
    BY <1>2, <1>4, <2>2
<1> QED
  BY <1>4, <1>5

-----------------------------------------------------------------------------
(* What the frames contain, and the streams *)

LEMMA Joined ==
  ASSUME NEW S, NEW s \in Seq(S), NEW t \in Seq(S)
  PROVE  /\ s \o t \in Seq(S) /\ Len(s \o t) = Len(s) + Len(t)
         /\ \A i \in 1..Len(s) : (s \o t)[i] = s[i]
         /\ \A i \in 1..Len(t) : (s \o t)[Len(s) + i] = t[i]
<1>1. /\ s \o t \in Seq(S) /\ Len(s \o t) = Len(s) + Len(t)
      /\ \A i \in 1..(Len(s) + Len(t)) : (s \o t)[i] = IF i <= Len(s) THEN s[i] ELSE t[i - Len(s)]
  BY ConcatProperties
<1>2. ASSUME NEW i \in 1..Len(t) PROVE (s \o t)[Len(s) + i] = t[i]
  <2>1. /\ Len(s) + i \in 1..(Len(s) + Len(t)) /\ ~(Len(s) + i <= Len(s))
        /\ (Len(s) + i) - Len(s) = i
    OBVIOUS
  <2> QED
    BY <1>1, <2>1
<1> QED
  BY <1>1, <1>2

LEMMA ZeroFacts ==
  ASSUME NEW n \in Nat
  PROVE  /\ Zeros(n) \in Seq(Bytes) /\ Len(Zeros(n)) = n /\ \A i \in 1..n : Zeros(n)[i] = 0
BY ByteFacts DEF Zeros

LEMMA FrameFacts ==
  ASSUME NEW i \in 1..N
  PROVE  LET m == Messages[i]
         IN  /\ Header(m) \in Seq(Bytes) /\ Len(Header(m)) = 4 /\ verify_CRC8_check_sum(Header(m))
             /\ Header(m)[1] = SOF_RECEIVE /\ Header(m)[2] = Len(m.payload) /\ Header(m)[3] = m.id
             /\ Frame(m) \in Seq(Bytes) /\ Len(Frame(m)) = FrameLength(m)
             /\ verify_CRC16_check_sum(Frame(m))
             /\ \A q \in 1..4 : Frame(m)[q] = Header(m)[q]
             /\ \A q \in 1..Len(m.payload) : Frame(m)[4 + q] = m.payload[q]
<1> DEFINE m == Messages[i]
           start == <<SOF_RECEIVE, Len(m.payload), m.id>>
           body == Header(m) \o m.payload
           rest == get_CRC16_check_sum(body)
<1>1. /\ m.id \in Bytes /\ m.payload \in Seq(Bytes) /\ Len(m.payload) \in Bytes
      /\ Len(m.payload) \in Nat /\ FrameLength(m) = Len(m.payload) + 6
  BY MessageFacts
<1> HIDE DEF m
<1>2. start \in Seq(Bytes) /\ Len(start) = 3
  <2>1. SOF_RECEIVE \in Bytes
    BY DEF SOF_RECEIVE, Bytes
  <2> QED
    BY <1>1, <2>1
<1>3. start[1] = SOF_RECEIVE /\ start[2] = Len(m.payload) /\ start[3] = m.id
  OBVIOUS
<1> HIDE DEF start
<1>4. /\ Header(m) \in Seq(Bytes) /\ Len(Header(m)) = 4
      /\ Header(m)[1] = start[1] /\ Header(m)[2] = start[2] /\ Header(m)[3] = start[3]
  <2>1. Header(m) = Append(start, get_CRC8_check_sum(start)) /\ get_CRC8_check_sum(start) \in Bytes
    BY <1>2, Crc8IsRun DEF Header, append_CRC8_check_sum, start
  <2> DEFINE crc == get_CRC8_check_sum(start)
  <2> HIDE DEF crc
  <2>2. start \in Seq(Bytes) /\ crc \in Bytes
    BY <1>2, <2>1 DEF crc
  <2>3. /\ Append(start, crc) \in Seq(Bytes) /\ Len(Append(start, crc)) = Len(start) + 1
        /\ \A q \in 1..Len(start) : Append(start, crc)[q] = start[q]
    BY <2>2, AppendProperties
  <2>4. 1 \in 1..Len(start) /\ 2 \in 1..Len(start) /\ 3 \in 1..Len(start) /\ Len(start) + 1 = 4
    BY <1>2
  <2>5. Header(m) = Append(start, crc)
    BY <2>1 DEF crc
  <2> QED
    BY <2>3, <2>4, <2>5
<1>5. verify_CRC8_check_sum(Header(m))
  <2>1. Header(m) = append_CRC8_check_sum(start)
    BY DEF Header, start
  <2>2. Len(start) > 1
    BY <1>2
  <2>3. verify_CRC8_check_sum(append_CRC8_check_sum(start))
    BY <1>2, <2>2, AppendedChecksumVerifies, ZenonT(60)
  <2> QED
    BY <2>1, <2>3
<1>6. /\ body \in Seq(Bytes) /\ Len(body) = 4 + Len(m.payload)
      /\ \A q \in 1..4 : body[q] = Header(m)[q]
      /\ \A q \in 1..Len(m.payload) : body[4 + q] = m.payload[q]
  <2>1. /\ body \in Seq(Bytes) /\ Len(body) = Len(Header(m)) + Len(m.payload)
        /\ \A q \in 1..Len(Header(m)) : body[q] = Header(m)[q]
        /\ \A q \in 1..Len(m.payload) : body[Len(Header(m)) + q] = m.payload[q]
    <3>1. Header(m) \in Seq(Bytes) /\ m.payload \in Seq(Bytes)
      BY <1>1, <1>4
    <3> QED
      BY <3>1, Joined
  <2> HIDE DEF body
  <2> QED
    BY <1>4, <2>1
<1>7. rest \in Seq(Bytes) /\ Len(rest) = 2
  BY <1>6, Crc16IsRun, PairFacts
<1>8. Frame(m) = body \o rest /\ Frame(m) = append_CRC16_check_sum(body)
  BY DEF Frame, append_CRC16_check_sum
<1> HIDE DEF body, rest
<1>9. /\ Frame(m) \in Seq(Bytes) /\ Len(Frame(m)) = Len(body) + 2
      /\ \A q \in 1..Len(body) : Frame(m)[q] = body[q]
  <2>1. /\ body \o rest \in Seq(Bytes) /\ Len(body \o rest) = Len(body) + Len(rest)
        /\ \A q \in 1..Len(body) : (body \o rest)[q] = body[q]
    <3>1. body \in Seq(Bytes) /\ rest \in Seq(Bytes)
      BY <1>6, <1>7
    <3> QED
      BY <3>1, Joined
  <2> QED
    BY <1>7, <1>8, <2>1
<1>10. verify_CRC16_check_sum(Frame(m))
  <2>1. Len(body) > 0
    BY <1>1, <1>6
  <2> QED
    BY <1>6, <1>8, <2>1, AppendedChecksumVerifies
<1>11. Len(Frame(m)) = FrameLength(m)
  BY <1>1, <1>6, <1>9
<1>12. ASSUME NEW q \in 1..4 PROVE Frame(m)[q] = Header(m)[q]
  <2>1. q \in 1..Len(body)
    BY <1>1, <1>6
  <2>2. Frame(m)[q] = body[q]
    BY <1>9, <2>1
  <2> QED
    BY <1>6, <2>2
<1>13. ASSUME NEW q \in 1..Len(m.payload) PROVE Frame(m)[4 + q] = m.payload[q]
  <2>1. 4 + q \in 1..Len(body)
    BY <1>1, <1>6
  <2> QED
    BY <1>6, <1>9, <2>1
<1> QED
  BY <1>3, <1>4, <1>5, <1>9, <1>10, <1>11, <1>12, <1>13 DEF m

LEMMA SentFacts ==
  /\ Sent \in Seq(Bytes) /\ Len(Sent) = Start[N + 1] /\ DOMAIN Sent = 1..Start[N + 1]
  /\ \A i \in 1..N : \A q \in 1..FrameLength(Messages[i]) :
       Sent[Start[i] + q] = Frame(Messages[i])[q]
<1>1. Start[N + 1] \in Nat
  BY MessageFacts, StartFacts
<1>2. Sent = [p \in 1..Start[N + 1] |-> Frame(Messages[CarrierOf(p)])[p - Start[CarrierOf(p)]]]
  BY DEF Sent, N
<1>3. ASSUME NEW p \in 1..Start[N + 1] PROVE Sent[p] \in Bytes
  <2> DEFINE i == CarrierOf(p)
             frame == Frame(Messages[i])
             q == p - Start[i]
  <2>1. i \in 1..N /\ Start[i] < p /\ p <= Start[i + 1]
    BY CarrierFacts
  <2> HIDE DEF i
  <2>2. /\ Start[i] \in Nat /\ Start[i + 1] = Start[i] + FrameLength(Messages[i])
        /\ FrameLength(Messages[i]) \in Nat
    BY <2>1, MessageFacts, StartFacts, StartOrder
  <2>3. q \in 1..FrameLength(Messages[i])
    BY <1>1, <2>1, <2>2
  <2>4. frame \in Seq(Bytes) /\ Len(frame) = FrameLength(Messages[i])
    BY <2>1, FrameFacts
  <2> HIDE DEF frame, q
  <2>5. frame[q] \in Bytes
    BY <2>3, <2>4, ElementOfSeq
  <2> QED
    BY <1>2, <2>5 DEF frame, q, i
<1>4. Sent \in Seq(Bytes) /\ Len(Sent) = Start[N + 1] /\ DOMAIN Sent = 1..Start[N + 1]
  <2>1. Sent \in [1..Start[N + 1] -> Bytes]
    BY <1>2, <1>3
  <2> QED
    BY <1>1, <2>1
<1>5. ASSUME NEW i \in 1..N, NEW q \in 1..FrameLength(Messages[i])
      PROVE  Sent[Start[i] + q] = Frame(Messages[i])[q]
  <2>1. /\ Start[i] \in Nat /\ Start[i + 1] = Start[i] + FrameLength(Messages[i])
        /\ Start[i + 1] <= Start[N + 1] /\ FrameLength(Messages[i]) \in Nat
    BY MessageFacts, StartFacts, StartOrder
  <2>2. /\ Start[i] + q \in (Start[i] + 1)..Start[i + 1] /\ Start[i] + q \in 1..Start[N + 1]
        /\ (Start[i] + q) - Start[i] = q
    BY <1>1, <2>1
  <2>3. CarrierOf(Start[i] + q) = i
    BY <2>2, CarrierFacts
  <2> QED
    BY <1>2, <2>2, <2>3
<1> QED
  BY <1>4, <1>5

LEMMA StreamFacts ==
  ASSUME NEW s \in Streams
  PROVE  /\ s \in Seq(Bytes) /\ Len(s) = Start[N + 1] /\ Len(s) \in Nat
         /\ \E d : \A p \in 1..Start[N + 1] : p # d => s[p] = Sent[p]
<1>1. Sent \in Seq(Bytes) /\ Len(Sent) = Start[N + 1] /\ DOMAIN Sent = 1..Start[N + 1]
  BY SentFacts
<1>2. Start[N + 1] \in Nat
  BY MessageFacts, StartFacts
<1>3. CASE s = Sent
  BY <1>1, <1>2, <1>3
<1>4. CASE \E c \in Corruptions : s = [Sent EXCEPT ![c[1]] = c[2]]
  <2>1. PICK c \in Corruptions : s = [Sent EXCEPT ![c[1]] = c[2]]
    BY <1>4
  <2>2. c[1] \in 1..Start[N + 1] /\ c[2] \in Bytes
    BY <1>1, ReceiveAssumption
  <2>3. s \in Seq(Bytes) /\ Len(s) = Len(Sent)
    BY <1>1, <2>1, <2>2, ExceptSeq
  <2>4. \A p \in 1..Start[N + 1] : p # c[1] => s[p] = Sent[p]
    BY <1>1, <2>1, <2>2
  <2> QED
    BY <1>1, <1>2, <2>3, <2>4
<1> QED
  BY <1>3, <1>4 DEF Streams

\* Of a frame at most one byte arrives wrong.
LEMMA FrameArrives ==
  ASSUME NEW s \in Streams, NEW i \in 1..N
  PROVE  /\ Start[i] \in Nat /\ Start[i] + FrameLength(Messages[i]) = Start[i + 1]
         /\ Start[i + 1] <= Len(s)
         /\ \E d : \A q \in 1..FrameLength(Messages[i]) :
              q # d => s[Start[i] + q] = Frame(Messages[i])[q]
<1>1. /\ Start[i] \in Nat /\ Start[i] + FrameLength(Messages[i]) = Start[i + 1]
      /\ Start[i + 1] <= Start[N + 1] /\ FrameLength(Messages[i]) \in Nat
      /\ Start[N + 1] \in Nat
  <2>1. Start[i + 1] = Start[i] + FrameLength(Messages[i]) /\ FrameLength(Messages[i]) \in Nat
    BY StartFacts, MessageFacts
  <2> QED
    BY <2>1, FrameBounds
<1>2. PICK d : \A p \in 1..Start[N + 1] : p # d => s[p] = Sent[p]
  BY StreamFacts
<1>3. ASSUME NEW q \in 1..FrameLength(Messages[i]), Start[i] + q # d
      PROVE  s[Start[i] + q] = Frame(Messages[i])[q]
  <2>1. Start[i] + q \in 1..Start[N + 1]
    BY <1>1
  <2>2. s[Start[i] + q] = Sent[Start[i] + q]
    BY <1>2, <1>3, <2>1
  <2> QED
    BY <2>2, SentFacts
<1>4. \E e : \A q \in 1..FrameLength(Messages[i]) :
        q # e => s[Start[i] + q] = Frame(Messages[i])[q]
  <2>1. CASE \E e \in 1..FrameLength(Messages[i]) : Start[i] + e = d
    <3>1. PICK e \in 1..FrameLength(Messages[i]) : Start[i] + e = d
      BY <2>1
    <3>2. \A q \in 1..FrameLength(Messages[i]) : q # e => Start[i] + q # d
      BY <1>1, <3>1
    <3> QED
      BY <1>3, <3>2
  <2>2. CASE \A e \in 1..FrameLength(Messages[i]) : Start[i] + e # d
    BY <1>3, <2>2
  <2> QED
    BY <2>1, <2>2
<1> QED
  BY <1>1, <1>4, StreamFacts

\* Two accepted messages that differ in one place at most are the same.
LEMMA OneByteApart ==
  ASSUME NEW m1 \in Seq(Bytes), NEW m2 \in Seq(Bytes), Len(m1) = Len(m2),
         NEW d, \A n \in 1..Len(m1) : n # d => m1[n] = m2[n]
  PROVE  /\ verify_CRC8_check_sum(m1) /\ verify_CRC8_check_sum(m2) => m1 = m2
         /\ verify_CRC16_check_sum(m1) /\ verify_CRC16_check_sum(m2) => m1 = m2
<1>1. CASE \A n \in 1..Len(m1) : m1[n] = m2[n]
  BY <1>1, SeqEqual
<1>2. CASE \E q \in 1..Len(m1) : m1[q] # m2[q]
  <2>1. PICK q \in 1..Len(m1) : m1[q] # m2[q]
    BY <1>2
  <2>2. \A n \in (1..Len(m1)) \ {q} : m1[n] = m2[n]
    BY <2>1
  <2> QED
    BY <2>1, <2>2, SingleByteErrorIsDetected
<1> QED
  BY <1>1, <1>2

LEMMA HeaderAtFacts ==
  ASSUME NEW s \in Seq(Bytes), NEW p \in Nat, NEW k \in 1..3, p + k <= Len(s)
  PROVE  /\ HeaderAt(s, p, k) \in Seq(Bytes) /\ Len(HeaderAt(s, p, k)) = 4
         /\ HeaderAt(s, p, k)[1] = SOF_RECEIVE
         /\ \A j \in 1..k : HeaderAt(s, p, k)[1 + j] = s[p + j]
<1> DEFINE part == SubSeq(s, p + 1, p + k)
           rest == Zeros(3 - k)
           read == part \o rest
           sof == <<SOF_RECEIVE>>
<1>1. part \in Seq(Bytes) /\ Len(part) = k /\ \A j \in 1..k : part[j] = s[p + j]
  <2>1. \A j \in (p + 1)..(p + k) : s[j] \in Bytes
    BY ElementOfSeq
  <2>2. p + 1 \in Int /\ p + k \in Int
    OBVIOUS
  <2>3. /\ part \in Seq(Bytes) /\ Len(part) = IF p + 1 <= p + k THEN (p + k) - (p + 1) + 1 ELSE 0
        /\ \A j \in 1..((p + k) - (p + 1) + 1) : part[j] = s[(p + 1) + j - 1]
    BY <2>1, <2>2, SubSeqProperties
  <2> HIDE DEF part
  <2> QED
    BY <2>3
<1>2. rest \in Seq(Bytes) /\ Len(rest) = 3 - k
  <2>1. 3 - k \in Nat
    OBVIOUS
  <2> QED
    BY <2>1, ZeroFacts
<1>3. sof \in Seq(Bytes) /\ Len(sof) = 1 /\ sof[1] = SOF_RECEIVE
  <2>1. SOF_RECEIVE \in Bytes
    BY DEF SOF_RECEIVE, Bytes
  <2> QED
    BY <2>1
<1>4. HeaderAt(s, p, k) = sof \o read
  BY DEF HeaderAt
<1> HIDE DEF part, rest, sof
<1>5. /\ read \in Seq(Bytes) /\ Len(read) = 3
      /\ \A j \in 1..k : read[j] = s[p + j]
  <2>1. /\ part \o rest \in Seq(Bytes) /\ Len(part \o rest) = Len(part) + Len(rest)
        /\ \A j \in 1..Len(part) : (part \o rest)[j] = part[j]
    <3>1. part \in Seq(Bytes) /\ rest \in Seq(Bytes)
      BY <1>1, <1>2
    <3> QED
      BY <3>1, Joined
  <2> HIDE DEF read
  <2>2. /\ read \in Seq(Bytes) /\ Len(read) = Len(part) + Len(rest)
        /\ \A j \in 1..Len(part) : read[j] = part[j]
    BY <2>1 DEF read
  <2> QED
    BY <1>1, <1>2, <2>2
<1> HIDE DEF read
<1>6. /\ sof \o read \in Seq(Bytes) /\ Len(sof \o read) = Len(sof) + Len(read)
      /\ \A j \in 1..Len(sof) : (sof \o read)[j] = sof[j]
      /\ \A j \in 1..Len(read) : (sof \o read)[Len(sof) + j] = read[j]
  <2>1. sof \in Seq(Bytes) /\ read \in Seq(Bytes)
    BY <1>3, <1>5
  <2> QED
    BY <2>1, Joined
<1> DEFINE whole == sof \o read
<1> HIDE DEF whole
<1>7. /\ whole \in Seq(Bytes) /\ Len(whole) = 4 /\ whole[1] = sof[1]
      /\ \A j \in 1..k : whole[1 + j] = read[j]
  <2>1. /\ whole \in Seq(Bytes) /\ Len(whole) = Len(sof) + Len(read)
        /\ \A j \in 1..Len(sof) : whole[j] = sof[j]
        /\ \A j \in 1..Len(read) : whole[Len(sof) + j] = read[j]
    BY <1>6 DEF whole
  <2>2. /\ Len(sof) = 1 /\ Len(read) = 3
        /\ 1 \in 1..Len(sof) /\ \A j \in 1..k : j \in 1..Len(read)
    BY <1>3, <1>5
  <2>3. Len(whole) = 4 /\ whole[1] = sof[1]
    BY <2>1, <2>2
  <2>4. \A j \in 1..k : whole[1 + j] = read[j]
    BY <2>1, <2>2
  <2> QED
    BY <2>1, <2>3, <2>4
<1> QED
  BY <1>3, <1>4, <1>5, <1>7 DEF whole

\* A header that is accepted where a frame starts is the header of that frame.
LEMMA HeaderInPlace ==
  ASSUME NEW s \in Streams, NEW i \in 1..N,
         verify_CRC8_check_sum(HeaderAt(s, Start[i] + 1, 3))
  PROVE  HeaderAt(s, Start[i] + 1, 3) = Header(Messages[i])
<1> DEFINE m == Messages[i]
           p == Start[i] + 1
           read == HeaderAt(s, p, 3)
           header == Header(m)
<1>1. /\ p \in Nat /\ Start[i] \in Nat /\ 3 \in 1..3 /\ p + 3 <= Len(s) /\ s \in Seq(Bytes)
      /\ FrameLength(m) \in Nat /\ FrameLength(m) >= 6
  <2>1. /\ Start[i] \in Nat /\ Start[i] + FrameLength(m) = Start[i + 1] /\ Start[i + 1] <= Len(s)
    BY FrameArrives
  <2>2. FrameLength(m) \in Nat /\ FrameLength(m) >= 6
    BY MessageFacts
  <2>3. s \in Seq(Bytes) /\ Len(s) \in Nat
    BY StreamFacts
  <2> QED
    BY <2>1, <2>2, <2>3
<1>2. /\ read \in Seq(Bytes) /\ Len(read) = 4 /\ read[1] = SOF_RECEIVE
      /\ \A j \in 1..3 : read[1 + j] = s[p + j]
  BY <1>1, HeaderAtFacts
<1>3. /\ header \in Seq(Bytes) /\ Len(header) = 4 /\ header[1] = SOF_RECEIVE
      /\ verify_CRC8_check_sum(header) /\ \A q \in 1..4 : Frame(m)[q] = header[q]
  BY FrameFacts
<1>4. PICK d : \A q \in 1..FrameLength(m) : q # d => s[Start[i] + q] = Frame(m)[q]
  BY FrameArrives
<1> HIDE DEF read, header
<1>5. ASSUME NEW q \in 1..4, q # d PROVE read[q] = header[q]
  <2>1. CASE q = 1
    BY <1>2, <1>3, <2>1
  <2>2. CASE q # 1
    <3>1. q - 1 \in 1..3 /\ 1 + (q - 1) = q /\ p + (q - 1) = Start[i] + q
          /\ q \in 1..FrameLength(m)
      BY <1>1, <2>2
    <3>2. read[q] = s[Start[i] + q]
      BY <1>2, <3>1
    <3> QED
      BY <1>3, <1>4, <1>5, <3>1, <3>2
  <2> QED
    BY <2>1, <2>2
<1>6. read = header
  <2>1. /\ read \in Seq(Bytes) /\ header \in Seq(Bytes) /\ Len(read) = Len(header)
        /\ \A q \in 1..Len(read) : q # d => read[q] = header[q]
    BY <1>2, <1>3, <1>5
  <2>2. verify_CRC8_check_sum(read) /\ verify_CRC8_check_sum(header) => read = header
    BY <2>1, OneByteApart, ZenonT(60)
  <2>3. verify_CRC8_check_sum(read) /\ verify_CRC8_check_sum(header)
    BY <1>3 DEF read
  <2> QED
    BY <2>2, <2>3
<1> QED
  BY <1>6 DEF read, header

\* The bytes behind a header that is in place.
Window(s, i) == Header(Messages[i]) \o SubSeq(s, Start[i] + 5, Start[i + 1])

LEMMA WindowFacts ==
  ASSUME NEW s \in Streams, NEW i \in 1..N
  PROVE  /\ Window(s, i) \in Seq(Bytes) /\ Len(Window(s, i)) = FrameLength(Messages[i])
         /\ \A q \in 1..4 : Window(s, i)[q] = Frame(Messages[i])[q]
         /\ \A q \in 5..FrameLength(Messages[i]) : Window(s, i)[q] = s[Start[i] + q]
         /\ verify_CRC16_check_sum(Window(s, i)) <=> Window(s, i) = Frame(Messages[i])
<1> DEFINE m == Messages[i]
           header == Header(m)
           frame == Frame(m)
           rest == SubSeq(s, Start[i] + 5, Start[i + 1])
           whole == header \o rest
           n == FrameLength(m)
<1>1. /\ Start[i] \in Nat /\ Start[i] + n = Start[i + 1] /\ Start[i + 1] <= Len(s)
      /\ n \in Nat /\ n >= 6 /\ s \in Seq(Bytes) /\ Start[i + 1] \in Nat
  <2>1. Start[i] \in Nat /\ Start[i] + n = Start[i + 1] /\ Start[i + 1] <= Len(s)
    BY FrameArrives
  <2>2. n \in Nat /\ n >= 6 /\ s \in Seq(Bytes)
    BY MessageFacts, StreamFacts
  <2> QED
    BY <2>1, <2>2, FrameBounds
<1> HIDE DEF n
<1>2. /\ rest \in Seq(Bytes) /\ Len(rest) = n - 4
      /\ \A j \in 1..(n - 4) : rest[j] = s[Start[i] + 4 + j]
  <2>1. \A j \in (Start[i] + 5)..Start[i + 1] : s[j] \in Bytes
    BY <1>1, ElementOfSeq
  <2>2. Start[i] + 5 \in Int /\ Start[i + 1] \in Int
    BY <1>1
  <2>3. /\ rest \in Seq(Bytes)
        /\ Len(rest) = IF Start[i] + 5 <= Start[i + 1] THEN Start[i + 1] - (Start[i] + 5) + 1 ELSE 0
        /\ \A j \in 1..(Start[i + 1] - (Start[i] + 5) + 1) : rest[j] = s[(Start[i] + 5) + j - 1]
    BY <2>1, <2>2, SubSeqProperties
  <2> HIDE DEF rest
  <2>4. Start[i + 1] - (Start[i] + 5) + 1 = n - 4 /\ Start[i] + 5 <= Start[i + 1]
    BY <1>1
  <2>5. \A j \in 1..(n - 4) : (Start[i] + 5) + j - 1 = Start[i] + 4 + j
    BY <1>1
  <2> QED
    BY <2>3, <2>4, <2>5
<1>3. /\ header \in Seq(Bytes) /\ Len(header) = 4
      /\ frame \in Seq(Bytes) /\ Len(frame) = n /\ verify_CRC16_check_sum(frame)
      /\ \A q \in 1..4 : frame[q] = header[q]
  BY FrameFacts DEF n
<1> HIDE DEF rest, header, frame
<1>4. /\ header \o rest \in Seq(Bytes) /\ Len(header \o rest) = Len(header) + Len(rest)
      /\ \A j \in 1..Len(header) : (header \o rest)[j] = header[j]
      /\ \A j \in 1..Len(rest) : (header \o rest)[Len(header) + j] = rest[j]
  <2>1. header \in Seq(Bytes) /\ rest \in Seq(Bytes)
    BY <1>2, <1>3
  <2> QED
    BY <2>1, Joined
<1> HIDE DEF whole
<1>5. /\ whole \in Seq(Bytes) /\ Len(whole) = n
      /\ \A q \in 1..4 : whole[q] = frame[q]
      /\ \A j \in 1..(n - 4) : whole[4 + j] = rest[j]
  <2>1. /\ whole \in Seq(Bytes) /\ Len(whole) = Len(header) + Len(rest)
        /\ \A j \in 1..Len(header) : whole[j] = header[j]
        /\ \A j \in 1..Len(rest) : whole[Len(header) + j] = rest[j]
    BY <1>4 DEF whole
  <2>2. Len(header) = 4 /\ Len(rest) = n - 4 /\ \A q \in 1..4 : frame[q] = header[q]
    BY <1>2, <1>3
  <2>3. Len(whole) = n
    BY <1>1, <2>1, <2>2
  <2>4. \A q \in 1..4 : whole[q] = frame[q]
    BY <2>1, <2>2
  <2>5. ASSUME NEW j \in 1..(n - 4) PROVE whole[4 + j] = rest[j]
    <3>1. j \in 1..Len(rest)
      BY <2>2
    <3>2. whole[Len(header) + j] = rest[j]
      BY <2>1, <3>1
    <3> QED
      BY <2>2, <3>2
  <2> QED
    BY <2>1, <2>3, <2>4, <2>5
<1>6. ASSUME NEW q \in 5..n PROVE whole[q] = s[Start[i] + q]
  <2>1. q - 4 \in 1..(n - 4) /\ 4 + (q - 4) = q /\ Start[i] + 4 + (q - 4) = Start[i] + q
    <3>1. Start[i] \in Nat /\ n \in Nat
      BY <1>1
    <3> QED
      BY <3>1
  <2> QED
    BY <1>2, <1>5, <2>1
<1>7. PICK d : \A q \in 1..n : q # d => s[Start[i] + q] = frame[q]
  BY FrameArrives DEF n, frame
<1>8. ASSUME NEW q \in 1..n, q # d PROVE whole[q] = frame[q]
  <2>1. q \in 1..4 \/ q \in 5..n
    BY <1>1
  <2> QED
    BY <1>5, <1>6, <1>7, <1>8, <2>1
<1>9. verify_CRC16_check_sum(whole) <=> whole = frame
  <2>1. /\ whole \in Seq(Bytes) /\ frame \in Seq(Bytes) /\ Len(whole) = Len(frame)
        /\ \A q \in 1..Len(whole) : q # d => whole[q] = frame[q]
    BY <1>3, <1>5, <1>8
  <2>2. verify_CRC16_check_sum(whole) /\ verify_CRC16_check_sum(frame) => whole = frame
    BY <2>1, OneByteApart, ZenonT(60)
  <2>3. verify_CRC16_check_sum(frame)
    BY <1>3
  <2> QED
    BY <2>2, <2>3
<1>10. Window(s, i) = whole
  BY DEF Window, whole, header, rest
<1> QED
  BY <1>5, <1>6, <1>9, <1>10 DEF n, frame

\* What the publisher gets of a frame is what was sent, whatever zeros are behind it.
LEMMA DecodeFrame ==
  ASSUME NEW i \in 1..N, Handled(Messages[i].id, Len(Messages[i].payload)), NEW n \in Nat
  PROVE  Decode(Frame(Messages[i]) \o Zeros(n)) = Messages[i]
<1> DEFINE m == Messages[i]
           frame == Frame(m)
           packet == frame \o Zeros(n)
           size == Len(m.payload)
           longer == packet \o Zeros(size)
           payload == SubSeq(longer, 5, 4 + size)
<1>1. /\ m \in [id : Bytes, payload : Seq(Bytes)] /\ m.payload \in Seq(Bytes) /\ m.id \in Bytes
      /\ size \in Nat /\ size \in Bytes /\ FrameLength(m) = size + 6
  BY MessageFacts
<1>2. /\ frame \in Seq(Bytes) /\ Len(frame) = size + 6 /\ frame[2] = size /\ frame[3] = m.id
      /\ \A q \in 1..size : frame[4 + q] = m.payload[q]
  BY <1>1, FrameFacts
<1> HIDE DEF frame
<1>3. /\ packet \in Seq(Bytes) /\ Len(packet) = Len(frame) + Len(Zeros(n))
      /\ \A q \in 1..Len(frame) : packet[q] = frame[q]
  <2>1. frame \in Seq(Bytes) /\ Zeros(n) \in Seq(Bytes)
    BY <1>2, ZeroFacts
  <2> QED
    BY <2>1, Joined
<1> HIDE DEF packet
<1>4. /\ packet[2] = size /\ packet[3] = m.id /\ Len(packet) >= size + 6 /\ Len(packet) \in Nat
      /\ \A q \in 1..size : packet[4 + q] = m.payload[q]
  <2>1. Len(Zeros(n)) = n
    BY ZeroFacts
  <2> HIDE DEF size
  <2> QED
    BY <1>1, <1>2, <1>3, <2>1
<1>5. /\ longer \in Seq(Bytes) /\ Len(longer) = Len(packet) + Len(Zeros(size))
      /\ \A q \in 1..Len(packet) : longer[q] = packet[q]
  <2>1. packet \in Seq(Bytes) /\ Zeros(size) \in Seq(Bytes)
    BY <1>1, <1>3, ZeroFacts
  <2> QED
    BY <2>1, Joined
<1> HIDE DEF longer
<1>6. Len(longer) >= size + 6 /\ \A q \in 1..size : longer[4 + q] = m.payload[q]
  <2>1. Len(Zeros(size)) = size
    BY <1>1, ZeroFacts
  <2> HIDE DEF size
  <2>2. Len(longer) >= size + 6
    BY <1>1, <1>4, <1>5, <2>1
  <2>3. \A q \in 1..size : 4 + q \in 1..Len(packet)
    BY <1>1, <1>4
  <2> QED
    BY <1>4, <1>5, <2>2, <2>3
<1>7. payload = m.payload
  <2>1. /\ payload \in Seq(Bytes) /\ Len(payload) = size
        /\ \A q \in 1..size : payload[q] = longer[4 + q]
    <3>1. \A q \in 5..(4 + size) : longer[q] \in Bytes
      BY <1>1, <1>5, <1>6, ElementOfSeq
    <3>2. 5 \in Int /\ 4 + size \in Int
      BY <1>1
    <3>3. /\ payload \in Seq(Bytes)
          /\ Len(payload) = IF 5 <= 4 + size THEN (4 + size) - 5 + 1 ELSE 0
          /\ \A q \in 1..((4 + size) - 5 + 1) : payload[q] = longer[5 + q - 1]
      BY <3>1, <3>2, SubSeqProperties
    <3> HIDE DEF payload, size
    <3> QED
      BY <1>1, <3>3
  <2>2. Len(payload) = Len(m.payload) /\ \A q \in 1..Len(payload) : payload[q] = m.payload[q]
    BY <1>6, <2>1
  <2>3. payload \in Seq(Bytes) /\ m.payload \in Seq(Bytes)
    BY <1>1, <2>1
  <2> HIDE DEF payload
  <2> QED
    BY <2>2, <2>3, SeqEqual
<1>8. (IF m.id = ID_JOINT_STATE THEN size ELSE PayloadLength[m.id]) = size
  <2>1. m.id \in DOMAIN PayloadLength
    BY DEF Handled
  <2> QED
    BY <2>1, MessageFacts, ReceiveAssumption
<1>9. Decode(packet) = [id |-> m.id, payload |-> payload]
  BY <1>4, <1>8 DEF Decode, longer
<1> HIDE DEF payload
<1>10. Decode(packet) = m
  BY <1>1, <1>7, <1>9
<1> QED
  BY <1>10 DEF packet, frame

-----------------------------------------------------------------------------
(* Where the reader is *)

\* The reader is behind an accepted header, whose start byte was byte p and of which k more
\* bytes had arrived; what it has collected is what followed.
Reading(p, k) ==
  /\ LooksLikeHeader(stream, p, k) /\ header_frame = HeaderAt(stream, p, k)
  /\ pos = p + k + received_len_sum
  /\ pc = "remain" =>
       /\ received_len_sum + remain_len = SegmentLength /\ Len(data_buf) >= SegmentLength
       /\ \A n \in 1..Len(data_buf) :
            data_buf[n] = IF n <= received_len_sum THEN stream[p + k + n] ELSE 0

\* The inductive invariant of the receiver: where it is in the stream, and that it has
\* reassembled what is there.
Framing ==
  /\ ReceiveTypeOK
  /\ stream \in Streams
  /\ pc # "remain" => received_len_sum = 0
  /\ pc = "header" => pos >= 1 /\ stream[pos] = SOF_RECEIVE
  /\ pc \in {"data", "remain"} => \E p \in 1..Len(stream), k \in 1..3 : Reading(p, k)

LEMMA ReceivedFacts ==
  ASSUME NEW k \in Nat, NEW n \in Nat, k <= n, stream \in Seq(Bytes), pos \in Nat,
         pos + k <= Len(stream)
  PROVE  /\ Received(k, n) \in Seq(Bytes) /\ Len(Received(k, n)) = n
         /\ \A j \in 1..n : Received(k, n)[j] = IF j <= k THEN stream[pos + j] ELSE 0
<1> DEFINE part == SubSeq(stream, pos + 1, pos + k)
           rest == Zeros(n - k)
           read == part \o rest
<1>1. part \in Seq(Bytes) /\ Len(part) = k /\ \A j \in 1..k : part[j] = stream[pos + j]
  <2>1. \A j \in (pos + 1)..(pos + k) : stream[j] \in Bytes
    BY ElementOfSeq
  <2>2. pos + 1 \in Int /\ pos + k \in Int
    OBVIOUS
  <2>3. /\ part \in Seq(Bytes)
        /\ Len(part) = IF pos + 1 <= pos + k THEN (pos + k) - (pos + 1) + 1 ELSE 0
        /\ \A j \in 1..((pos + k) - (pos + 1) + 1) : part[j] = stream[(pos + 1) + j - 1]
    BY <2>1, <2>2, SubSeqProperties
  <2> HIDE DEF part
  <2> QED
    BY <2>3
<1>2. n - k \in Nat
  OBVIOUS
<1>3. rest \in Seq(Bytes) /\ Len(rest) = n - k /\ \A j \in 1..(n - k) : rest[j] = 0
  BY <1>2, ZeroFacts
<1> HIDE DEF part, rest
<1>4. /\ read \in Seq(Bytes) /\ Len(read) = Len(part) + Len(rest)
      /\ \A j \in 1..Len(part) : read[j] = part[j]
      /\ \A j \in 1..Len(rest) : read[Len(part) + j] = rest[j]
  <2>1. part \in Seq(Bytes) /\ rest \in Seq(Bytes)
    BY <1>1, <1>3
  <2> QED
    BY <2>1, Joined
<1> HIDE DEF read
<1>5. /\ read \in Seq(Bytes) /\ Len(read) = n
      /\ \A j \in 1..k : read[j] = part[j]
      /\ \A j \in 1..(n - k) : read[k + j] = rest[j]
  BY <1>1, <1>3, <1>4
<1>6. ASSUME NEW j \in 1..n PROVE read[j] = IF j <= k THEN stream[pos + j] ELSE 0
  <2>1. CASE j <= k
    <3>1. j \in 1..k
      BY <2>1
    <3> QED
      BY <1>1, <1>5, <2>1, <3>1
  <2>2. CASE ~(j <= k)
    <3>1. j - k \in 1..(n - k) /\ k + (j - k) = j
      BY <2>2
    <3> QED
      BY <1>3, <1>5, <2>2, <3>1
  <2> QED
    BY <2>1, <2>2
<1>7. Received(k, n) = read
  BY DEF Received, read, part, rest
<1> QED
  BY <1>5, <1>6, <1>7

\* What the type invariant and the acceptance of a header give the steps below.
LEMMA FramingFacts ==
  ASSUME Framing
  PROVE  /\ stream \in Streams /\ stream \in Seq(Bytes) /\ Len(stream) \in Nat
         /\ pos \in Nat /\ pos <= Len(stream)
         /\ received_len_sum \in Nat /\ remain_len \in Nat
         /\ data_buf \in Seq(Bytes) /\ Len(data_buf) \in Nat
         /\ short_headers \in Nat
BY ReceiveAssumption DEF Framing, ReceiveTypeOK, MaxPayload

\* A header is accepted exactly where one is found in the stream.
LEMMA ReadHeaderStep ==
  ASSUME Framing, NEW k \in 1..3, ReadHeader(k), NEW p, p = pos
  PROVE  /\ pos \in 1..Len(stream) /\ pos + k <= Len(stream) /\ pos' = pos + k
         /\ stream' = stream /\ published' = published /\ port_failed' = port_failed
         /\ data_buf' = data_buf /\ received_len_sum' = received_len_sum
         /\ remain_len' = remain_len
         /\ short_headers' = (IF k < 3 THEN short_headers + 1 ELSE short_headers)
         /\ short_headers' \in 0..MaxShortHeaders
         /\ \/ /\ pc' = "sof" /\ header_frame' = header_frame
               /\ ~HeaderOk(HeaderAt(stream, pos, k))
            \/ /\ pc' = "data" /\ header_frame' = HeaderAt(stream, pos, k)
               /\ LooksLikeHeader(stream, p, k) /\ Reading(p, k)'
<1>1. /\ stream \in Seq(Bytes) /\ Len(stream) \in Nat /\ pos \in Nat /\ pos <= Len(stream)
      /\ received_len_sum = 0 /\ pos >= 1 /\ stream[pos] = SOF_RECEIVE
  BY FramingFacts DEF Framing, ReadHeader
<1>2. pos + k <= Len(stream) /\ pos' = pos + k
  BY DEF ReadHeader, Receives
<1>3. <<SOF_RECEIVE>> \o Received(k, 3) = HeaderAt(stream, pos, k)
  BY DEF Received, HeaderAt
<1>4. \/ /\ HeaderOk(HeaderAt(stream, pos, k))
         /\ pc' = "data" /\ header_frame' = HeaderAt(stream, pos, k)
      \/ /\ ~HeaderOk(HeaderAt(stream, pos, k))
         /\ pc' = "sof" /\ header_frame' = header_frame
  BY <1>3 DEF ReadHeader
<1>5. /\ stream' = stream /\ published' = published /\ port_failed' = port_failed
      /\ data_buf' = data_buf /\ received_len_sum' = received_len_sum /\ remain_len' = remain_len
      /\ short_headers' = (IF k < 3 THEN short_headers + 1 ELSE short_headers)
  BY DEF ReadHeader
<1>6. short_headers' \in 0..MaxShortHeaders
  <2>1. short_headers \in 0..MaxShortHeaders /\ MaxShortHeaders \in Nat
    BY ReceiveAssumption DEF Framing, ReceiveTypeOK
  <2>2. k < 3 => short_headers < MaxShortHeaders
    BY DEF ReadHeader
  <2> QED
    BY <1>5, <2>1, <2>2
<1>7. HeaderOk(HeaderAt(stream, pos, k)) => LooksLikeHeader(stream, pos, k)
  BY <1>1, <1>2 DEF HeaderOk, LooksLikeHeader
<1>8. ASSUME pc' = "data", header_frame' = HeaderAt(stream, pos, k), LooksLikeHeader(stream, pos, k)
      PROVE  Reading(p, k)'
  <2>1. pos' = p + k + received_len_sum'
    BY <1>1, <1>2, <1>5
  <2>2. LooksLikeHeader(stream', p, k) /\ header_frame' = HeaderAt(stream', p, k)
    BY <1>5, <1>8
  <2>3. pc' # "remain"
    BY <1>8
  <2> QED
    BY <2>1, <2>2, <2>3 DEF Reading
<1> QED
  BY <1>1, <1>2, <1>4, <1>5, <1>6, <1>7, <1>8

LEMMA ReadingFacts ==
  ASSUME Framing, NEW p \in 1..Len(stream), NEW k \in 1..3, Reading(p, k)
  PROVE  /\ p \in Nat /\ k \in Nat /\ p + k <= Len(stream) /\ stream[p] = SOF_RECEIVE
         /\ header_frame \in Seq(Bytes) /\ Len(header_frame) = 4
         /\ header_frame = HeaderAt(stream, p, k) /\ HeaderOk(header_frame)
         /\ header_frame[2] \in 0..MaxPayload
         /\ SegmentLength \in Nat /\ SegmentLength <= 60 /\ SegmentLength = header_frame[2] + 2
<1>1. stream \in Seq(Bytes) /\ Len(stream) \in Nat
  BY FramingFacts
<1>2. p \in Nat /\ k \in Nat
  BY <1>1
<1>3. /\ header_frame = HeaderAt(stream, p, k) /\ p + k <= Len(stream) /\ stream[p] = SOF_RECEIVE
      /\ verify_CRC8_check_sum(header_frame) /\ header_frame[2] <= MaxPayload
  BY DEF Reading, LooksLikeHeader
<1>4. header_frame \in Seq(Bytes) /\ Len(header_frame) = 4
  BY <1>1, <1>2, <1>3, HeaderAtFacts
<1>5. header_frame[2] \in 0..MaxPayload
  <2> DEFINE length == header_frame[2]
  <2>1. length \in Bytes /\ length <= MaxPayload
    <3>1. 2 \in 1..Len(header_frame) /\ header_frame \in Seq(Bytes)
      BY <1>4
    <3>2. length \in Bytes
      BY <3>1, ElementOfSeq
    <3> QED
      BY <1>3, <3>2
  <2> HIDE DEF length
  <2>2. length \in 0..MaxPayload
    BY <2>1 DEF Bytes, MaxPayload
  <2> QED
    BY <2>2 DEF length
<1>6. SegmentLength \in Nat /\ SegmentLength <= 60 /\ SegmentLength = header_frame[2] + 2
  <2> DEFINE length == header_frame[2]
  <2>1. length \in 0..MaxPayload /\ SegmentLength = length + 2
    BY <1>5 DEF SegmentLength
  <2> HIDE DEF length
  <2>2. SegmentLength \in Nat /\ SegmentLength <= 60
    BY <2>1 DEF MaxPayload
  <2> QED
    BY <2>1, <2>2 DEF length
<1> QED
  BY <1>2, <1>3, <1>4, <1>5, <1>6 DEF HeaderOk

LEMMA ReadDataStep ==
  ASSUME Framing, NEW n \in 1..(MaxPayload + 2), ReadData(n),
         NEW p \in 1..Len(stream), NEW k \in 1..3, Reading(p, k)
  PROVE  /\ Reading(p, k)' /\ pc' = "remain"
         /\ stream' = stream /\ published' = published /\ port_failed' = port_failed
         /\ header_frame' = header_frame /\ short_headers' = short_headers
         /\ pos' \in 0..Len(stream) /\ data_buf' \in Seq(Bytes)
         /\ received_len_sum' \in 0..(MaxPayload + 2) /\ remain_len' \in 0..(MaxPayload + 2)
<1>1. /\ pos \in Nat /\ stream \in Seq(Bytes) /\ Len(stream) \in Nat /\ pos = p + k
      /\ SegmentLength \in Nat /\ SegmentLength <= 60
  BY FramingFacts, ReadingFacts DEF Framing, ReadData, Reading
<1>2. n \in Nat /\ n <= SegmentLength /\ pos + n <= Len(stream) /\ pos' = pos + n
  BY DEF ReadData, Receives, MaxPayload
<1>3. /\ data_buf' = Received(n, SegmentLength) /\ received_len_sum' = n
      /\ remain_len' = SegmentLength - n /\ pc' = "remain"
      /\ stream' = stream /\ published' = published /\ port_failed' = port_failed
      /\ header_frame' = header_frame /\ short_headers' = short_headers
  BY DEF ReadData
<1>4. /\ data_buf' \in Seq(Bytes) /\ Len(data_buf') = SegmentLength
      /\ \A j \in 1..SegmentLength : data_buf'[j] = IF j <= n THEN stream[pos + j] ELSE 0
  BY <1>1, <1>2, <1>3, ReceivedFacts
<1>5. SegmentLength' = SegmentLength
  BY <1>3 DEF SegmentLength
<1>6. Reading(p, k)'
  <2>1. LooksLikeHeader(stream', p, k) /\ header_frame' = HeaderAt(stream', p, k)
    BY <1>3 DEF Reading
  <2>2. pos' = p + k + received_len_sum'
    BY <1>1, <1>2, <1>3
  <2>3. received_len_sum' + remain_len' = SegmentLength' /\ Len(data_buf') >= SegmentLength'
    BY <1>1, <1>2, <1>3, <1>4, <1>5
  <2>4. \A j \in 1..Len(data_buf') :
          data_buf'[j] = IF j <= received_len_sum' THEN stream'[p + k + j] ELSE 0
    BY <1>1, <1>3, <1>4
  <2> QED
    BY <2>1, <2>2, <2>3, <2>4 DEF Reading
<1>7. /\ pos' \in 0..Len(stream)
      /\ received_len_sum' \in 0..(MaxPayload + 2) /\ remain_len' \in 0..(MaxPayload + 2)
  BY <1>1, <1>2, <1>3 DEF MaxPayload
<1> QED
  BY <1>3, <1>4, <1>6, <1>7

LEMMA ReadRemainStep ==
  ASSUME Framing, NEW n \in 1..(MaxPayload + 2), ReadRemain(n),
         NEW p \in 1..Len(stream), NEW k \in 1..3, Reading(p, k)
  PROVE  /\ Reading(p, k)' /\ pc' = "remain"
         /\ stream' = stream /\ published' = published /\ port_failed' = port_failed
         /\ header_frame' = header_frame /\ short_headers' = short_headers
         /\ pos' \in 0..Len(stream) /\ data_buf' \in Seq(Bytes)
         /\ received_len_sum' \in 0..(MaxPayload + 2) /\ remain_len' \in 0..(MaxPayload + 2)
<1> DEFINE r == received_len_sum
           old == Len(data_buf)
           front == SubSeq(data_buf, 1, r)
           middle == Received(n, remain_len)
           back == SubSeq(data_buf, r + 1, old)
           both == front \o middle
           all == both \o back
<1>1. /\ pc = "remain" /\ remain_len > 0 /\ n <= remain_len
      /\ pos + n <= Len(stream) /\ pos' = pos + n /\ pc' = pc
      /\ data_buf' = all /\ received_len_sum' = r + n /\ remain_len' = remain_len - n
      /\ stream' = stream /\ published' = published /\ port_failed' = port_failed
      /\ header_frame' = header_frame /\ short_headers' = short_headers
  BY DEF ReadRemain, Receives
<1>2. /\ pos \in Nat /\ stream \in Seq(Bytes) /\ Len(stream) \in Nat /\ pos = p + k + r
      /\ r \in Nat /\ remain_len \in Nat /\ n \in Nat
      /\ data_buf \in Seq(Bytes) /\ old \in Nat
      /\ r + remain_len = SegmentLength /\ old >= SegmentLength
      /\ SegmentLength \in Nat /\ SegmentLength <= 60
      /\ p \in Nat /\ k \in Nat
  <2>1. /\ pos \in Nat /\ stream \in Seq(Bytes) /\ Len(stream) \in Nat
        /\ r \in Nat /\ remain_len \in Nat /\ data_buf \in Seq(Bytes) /\ old \in Nat
    BY FramingFacts
  <2>2. SegmentLength \in Nat /\ SegmentLength <= 60 /\ p \in Nat /\ k \in Nat
    BY ReadingFacts
  <2>3. pos = p + k + r /\ r + remain_len = SegmentLength /\ old >= SegmentLength
    BY <1>1 DEF Reading
  <2>4. n \in Nat
    BY DEF MaxPayload
  <2> QED
    BY <2>1, <2>2, <2>3, <2>4
<1>3. \A j \in 1..old : data_buf[j] = IF j <= r THEN stream[p + k + j] ELSE 0
  BY <1>1 DEF Reading
<1>4. front \in Seq(Bytes) /\ Len(front) = r /\ \A j \in 1..r : front[j] = data_buf[j]
  <2>1. r \in 0..Len(data_buf)
    BY <1>2
  <2> QED
    BY <1>2, <2>1
<1>5. /\ middle \in Seq(Bytes) /\ Len(middle) = remain_len
      /\ \A j \in 1..remain_len : middle[j] = IF j <= n THEN stream[pos + j] ELSE 0
  BY <1>1, <1>2, ReceivedFacts
<1>6. /\ back \in Seq(Bytes) /\ Len(back) = old - r
      /\ \A j \in 1..(old - r) : back[j] = data_buf[r + j]
  <2>1. \A j \in (r + 1)..old : data_buf[j] \in Bytes
    BY <1>2, ElementOfSeq
  <2>2. r + 1 \in Int /\ old \in Int
    BY <1>2
  <2>3. /\ back \in Seq(Bytes)
        /\ Len(back) = IF r + 1 <= old THEN old - (r + 1) + 1 ELSE 0
        /\ \A j \in 1..(old - (r + 1) + 1) : back[j] = data_buf[(r + 1) + j - 1]
    BY <2>1, <2>2, SubSeqProperties
  <2> HIDE DEF back
  <2> QED
    BY <1>2, <2>3
<1> HIDE DEF front, middle, back
<1>7. /\ both \in Seq(Bytes) /\ Len(both) = SegmentLength
      /\ \A j \in 1..r : both[j] = front[j]
      /\ \A j \in 1..remain_len : both[r + j] = middle[j]
  <2>1. /\ both \in Seq(Bytes) /\ Len(both) = Len(front) + Len(middle)
        /\ \A j \in 1..Len(front) : both[j] = front[j]
        /\ \A j \in 1..Len(middle) : both[Len(front) + j] = middle[j]
    <3>1. front \in Seq(Bytes) /\ middle \in Seq(Bytes)
      BY <1>4, <1>5
    <3> QED
      BY <3>1, Joined
  <2> HIDE DEF both
  <2> QED
    BY <1>2, <1>4, <1>5, <2>1
<1> HIDE DEF both
<1>8. /\ all \in Seq(Bytes) /\ Len(all) = SegmentLength + (old - r)
      /\ \A j \in 1..SegmentLength : all[j] = both[j]
      /\ \A j \in 1..(old - r) : all[SegmentLength + j] = back[j]
  <2>1. /\ all \in Seq(Bytes) /\ Len(all) = Len(both) + Len(back)
        /\ \A j \in 1..Len(both) : all[j] = both[j]
        /\ \A j \in 1..Len(back) : all[Len(both) + j] = back[j]
    <3>1. both \in Seq(Bytes) /\ back \in Seq(Bytes)
      BY <1>6, <1>7
    <3> QED
      BY <3>1, Joined
  <2> HIDE DEF all
  <2> QED
    BY <1>6, <1>7, <2>1
<1> HIDE DEF all
<1>9. ASSUME NEW j \in 1..Len(all)
      PROVE  all[j] = IF j <= r + n THEN stream[p + k + j] ELSE 0
  <2>1. CASE j \in 1..r
    <3>1. all[j] = data_buf[j] /\ j \in 1..old /\ j <= r /\ j <= r + n
      BY <1>2, <1>4, <1>7, <1>8, <2>1
    <3> QED
      BY <1>3, <3>1
  <2>2. CASE j \in (r + 1)..SegmentLength
    <3>1. j - r \in 1..remain_len /\ r + (j - r) = j /\ j \in 1..SegmentLength
      BY <1>2, <2>2
    <3>2. all[j] = IF j - r <= n THEN stream[pos + (j - r)] ELSE 0
      BY <1>5, <1>7, <1>8, <3>1
    <3>3. (j - r <= n <=> j <= r + n) /\ pos + (j - r) = p + k + j
      BY <1>2, <2>2
    <3> QED
      BY <3>2, <3>3
  <2>3. CASE j > SegmentLength
    <3>1. /\ j - SegmentLength \in 1..(old - r) /\ SegmentLength + (j - SegmentLength) = j
          /\ ~(j <= r + n)
      BY <1>1, <1>2, <1>8, <2>3
    <3>2. all[j] = data_buf[r + (j - SegmentLength)]
      BY <1>6, <1>8, <3>1
    <3>3. r + (j - SegmentLength) \in 1..old /\ ~(r + (j - SegmentLength) <= r)
      BY <1>2, <3>1
    <3> QED
      BY <1>3, <3>1, <3>2, <3>3
  <2>4. j \in Nat /\ j >= 1
    BY <1>8
  <2> QED
    BY <1>2, <2>1, <2>2, <2>3, <2>4
<1>10. SegmentLength' = SegmentLength
  BY <1>1 DEF SegmentLength
<1>11. Reading(p, k)'
  <2>1. LooksLikeHeader(stream', p, k) /\ header_frame' = HeaderAt(stream', p, k)
    BY <1>1 DEF Reading
  <2>2. pos' = p + k + received_len_sum'
    BY <1>1, <1>2
  <2>3. received_len_sum' + remain_len' = SegmentLength'
    BY <1>1, <1>2, <1>10
  <2>4. Len(data_buf') >= SegmentLength'
    BY <1>1, <1>2, <1>8, <1>10
  <2>5. \A j \in 1..Len(data_buf') :
          data_buf'[j] = IF j <= received_len_sum' THEN stream'[p + k + j] ELSE 0
    BY <1>1, <1>9
  <2> QED
    BY <2>1, <2>2, <2>3, <2>4, <2>5 DEF Reading
<1>12. /\ pos' \in 0..Len(stream) /\ data_buf' \in Seq(Bytes)
       /\ received_len_sum' \in 0..(MaxPayload + 2) /\ remain_len' \in 0..(MaxPayload + 2)
  BY <1>1, <1>2, <1>8 DEF MaxPayload
<1> QED
  BY <1>1, <1>11, <1>12

\* Nothing that Reading speaks of is a matter of the read that ended the frame: at the end
\* the packet is what the stream has there, with zeros behind it.
LEMMA PacketFacts ==
  ASSUME Framing, NEW p \in 1..Len(stream), NEW k \in 1..3, Reading(p, k),
         pc = "remain", remain_len = 0
  PROVE  LET end == p + k + header_frame[2] + 2
             window == header_frame \o SubSeq(stream, p + k + 1, end)
             packet == header_frame \o data_buf
         IN  /\ pos = end /\ packet \in Seq(Bytes) /\ Len(packet) >= 4
             /\ \E n \in Nat : packet = window \o Zeros(n)
             /\ verify_CRC16_check_sum(packet) <=> verify_CRC16_check_sum(window)
             /\ verify_CRC16_check_sum(packet) <=> LooksLikeFrame(stream, p, k)
<1> DEFINE end == p + k + header_frame[2] + 2
           rest == SubSeq(stream, p + k + 1, end)
           window == header_frame \o rest
           packet == header_frame \o data_buf
           old == Len(data_buf)
           length == SegmentLength
<1>1. /\ p \in Nat /\ k \in Nat /\ header_frame \in Seq(Bytes) /\ Len(header_frame) = 4
      /\ length \in Nat /\ length >= 2 /\ length = header_frame[2] + 2 /\ header_frame[2] \in Nat
  <2>1. header_frame[2] \in 0..58 /\ length = header_frame[2] + 2
    BY ReadingFacts DEF MaxPayload
  <2>2. p \in Nat /\ k \in Nat /\ header_frame \in Seq(Bytes) /\ Len(header_frame) = 4
    BY ReadingFacts
  <2> HIDE DEF length
  <2>3. \A h \in 0..58 : h \in Nat /\ h + 2 \in Nat /\ h + 2 >= 2
    OBVIOUS
  <2>4. length \in Nat /\ length >= 2 /\ header_frame[2] \in Nat
    BY <2>1, <2>3
  <2> QED
    BY <2>1, <2>2, <2>4
<1>2. /\ stream \in Seq(Bytes) /\ Len(stream) \in Nat /\ pos \in Nat /\ pos <= Len(stream)
      /\ data_buf \in Seq(Bytes) /\ old \in Nat /\ received_len_sum \in Nat
  BY FramingFacts
<1>3. /\ received_len_sum = length /\ old >= length /\ pos = p + k + length
      /\ \A j \in 1..old : data_buf[j] = IF j <= length THEN stream[p + k + j] ELSE 0
  BY <1>2 DEF Reading
<1> HIDE DEF length
<1>4. pos = end /\ end = p + k + length /\ end \in Nat /\ end <= Len(stream)
  <2>1. end = p + k + length
    BY <1>1
  <2>2. pos = end
    BY <1>3, <2>1
  <2> HIDE DEF end
  <2> QED
    BY <1>2, <2>1, <2>2
<1>5. /\ rest \in Seq(Bytes) /\ Len(rest) = length
      /\ \A j \in 1..length : rest[j] = stream[p + k + j]
  <2> HIDE DEF end
  <2>1. \A j \in (p + k + 1)..end : stream[j] \in Bytes
    BY <1>1, <1>2, <1>4, ElementOfSeq
  <2>2. p + k + 1 \in Int /\ end \in Int
    BY <1>1, <1>4
  <2>3. /\ rest \in Seq(Bytes)
        /\ Len(rest) = IF p + k + 1 <= end THEN end - (p + k + 1) + 1 ELSE 0
        /\ \A j \in 1..(end - (p + k + 1) + 1) : rest[j] = stream[(p + k + 1) + j - 1]
    BY <2>1, <2>2, SubSeqProperties, SMTT(60)
  <2> HIDE DEF rest
  <2>4. end - (p + k + 1) + 1 = length /\ p + k + 1 <= end
    BY <1>1, <1>4
  <2>5. \A j \in 1..length : (p + k + 1) + j - 1 = p + k + j
    BY <1>1
  <2> QED
    BY <2>3, <2>4, <2>5
<1> HIDE DEF end, rest
<1>6. /\ window \in Seq(Bytes) /\ Len(window) = 4 + length
      /\ \A j \in 1..4 : window[j] = header_frame[j]
      /\ \A j \in 1..length : window[4 + j] = stream[p + k + j]
  <2>1. /\ window \in Seq(Bytes) /\ Len(window) = Len(header_frame) + Len(rest)
        /\ \A j \in 1..Len(header_frame) : window[j] = header_frame[j]
        /\ \A j \in 1..Len(rest) : window[Len(header_frame) + j] = rest[j]
    <3>1. header_frame \in Seq(Bytes) /\ rest \in Seq(Bytes)
      BY <1>1, <1>5
    <3> QED
      BY <3>1, Joined
  <2> HIDE DEF window
  <2> QED
    BY <1>1, <1>5, <2>1
<1>7. /\ packet \in Seq(Bytes) /\ Len(packet) = 4 + old
      /\ \A j \in 1..4 : packet[j] = header_frame[j]
      /\ \A j \in 1..old : packet[4 + j] = data_buf[j]
  <2>1. /\ packet \in Seq(Bytes) /\ Len(packet) = Len(header_frame) + Len(data_buf)
        /\ \A j \in 1..Len(header_frame) : packet[j] = header_frame[j]
        /\ \A j \in 1..Len(data_buf) : packet[Len(header_frame) + j] = data_buf[j]
    <3>1. header_frame \in Seq(Bytes) /\ data_buf \in Seq(Bytes)
      BY <1>1, <1>2
    <3> QED
      BY <3>1, Joined
  <2> HIDE DEF packet
  <2> QED
    BY <1>1, <2>1
<1> HIDE DEF window, packet
<1> DEFINE n == old - length
           zeros == Zeros(n)
           padded == window \o zeros
<1>8. n \in Nat /\ zeros \in Seq(Bytes) /\ Len(zeros) = n /\ \A j \in 1..n : zeros[j] = 0
  <2>1. n \in Nat
    <3>1. old \in Nat /\ length \in Nat /\ old >= length
      BY <1>1, <1>2, <1>3
    <3> QED
      BY <3>1
  <2> HIDE DEF n
  <2> QED
    BY <2>1, ZeroFacts
<1> HIDE DEF zeros
<1>9. /\ padded \in Seq(Bytes) /\ Len(padded) = 4 + old
      /\ \A j \in 1..(4 + length) : padded[j] = window[j]
      /\ \A j \in 1..n : padded[4 + length + j] = 0
  <2>1. /\ padded \in Seq(Bytes) /\ Len(padded) = Len(window) + Len(zeros)
        /\ \A j \in 1..Len(window) : padded[j] = window[j]
        /\ \A j \in 1..Len(zeros) : padded[Len(window) + j] = zeros[j]
    <3>1. window \in Seq(Bytes) /\ zeros \in Seq(Bytes)
      BY <1>6, <1>8
    <3> QED
      BY <3>1, Joined
  <2> HIDE DEF padded
  <2>2. (4 + length) + n = 4 + old
    BY <1>1, <1>2
  <2> HIDE DEF n
  <2>3. /\ padded \in Seq(Bytes) /\ Len(padded) = (4 + length) + n
        /\ \A j \in 1..(4 + length) : padded[j] = window[j]
        /\ \A j \in 1..n : padded[(4 + length) + j] = zeros[j]
    BY <1>6, <1>8, <2>1
  <2> QED
    BY <1>8, <2>2, <2>3
<1> HIDE DEF padded
<1>10. packet = padded
  <2>1. ASSUME NEW j \in 1..(4 + old) PROVE packet[j] = padded[j]
    <3>1. CASE j \in 1..4
      <4>1. j \in 1..(4 + length)
        BY <1>1, <3>1
      <4> QED
        BY <1>6, <1>7, <1>9, <3>1, <4>1
    <3>2. CASE j \in 5..(4 + length)
      <4>1. j - 4 \in 1..length /\ j - 4 \in 1..old /\ 4 + (j - 4) = j /\ j \in 1..(4 + length)
        BY <1>1, <1>2, <1>3, <3>2
      <4>2. packet[j] = stream[p + k + (j - 4)]
        BY <1>3, <1>7, <4>1
      <4>3. padded[j] = stream[p + k + (j - 4)]
        BY <1>6, <1>9, <4>1
      <4> QED
        BY <4>2, <4>3
    <3>3. CASE j > 4 + length
      <4>1. /\ j - 4 \in 1..old /\ 4 + (j - 4) = j /\ ~(j - 4 <= length)
            /\ j - (4 + length) \in 1..n /\ 4 + length + (j - (4 + length)) = j
        <5>1. length \in Nat /\ old \in Nat /\ old >= length /\ j \in 1..(4 + old) /\ j > 4 + length
          BY <1>1, <1>2, <1>3, <3>3
        <5> HIDE DEF old
        <5> QED
          BY <5>1
      <4>2. packet[j] = 0
        BY <1>3, <1>7, <4>1
      <4>3. padded[j] = 0
        BY <1>9, <4>1
      <4> QED
        BY <4>2, <4>3
    <3>4. j \in 1..4 \/ j \in 5..(4 + length) \/ j > 4 + length
      <4>1. length \in Nat /\ old \in Nat
        BY <1>1, <1>2
      <4> QED
        BY <4>1
    <3> QED
      BY <3>1, <3>2, <3>3, <3>4
  <2>2. /\ packet \in Seq(Bytes) /\ padded \in Seq(Bytes) /\ Len(packet) = Len(padded)
        /\ \A j \in 1..Len(packet) : packet[j] = padded[j]
    BY <1>7, <1>9, <2>1
  <2> QED
    BY <2>2, SeqEqual
<1>11. verify_CRC16_check_sum(packet) <=> verify_CRC16_check_sum(window)
  <2>1. /\ window \in Seq(Bytes) /\ Len(window) > 2
        /\ zeros \in Seq(Bytes) /\ \A j \in 1..Len(zeros) : zeros[j] = 0
    BY <1>1, <1>6, <1>8
  <2>2. verify_CRC16_check_sum(window \o zeros) <=> verify_CRC16_check_sum(window)
    BY <2>1, PaddingIsInvisible
  <2> QED
    BY <1>10, <2>2 DEF padded
<1>12. verify_CRC16_check_sum(window) <=> LooksLikeFrame(stream, p, k)
  <2>1. LooksLikeHeader(stream, p, k) /\ header_frame = HeaderAt(stream, p, k)
    BY DEF Reading
  <2> QED
    BY <1>4, <2>1 DEF LooksLikeFrame, window, rest, end
<1>13. \E z \in Nat : packet = window \o Zeros(z)
  BY <1>8, <1>10 DEF padded, zeros
<1>14. packet \in Seq(Bytes) /\ Len(packet) >= 4
  BY <1>2, <1>7
<1> QED
  BY <1>4, <1>11, <1>12, <1>13, <1>14 DEF window, packet, rest, end

LEMMA PayloadLengthFacts ==
  \A id \in DOMAIN PayloadLength : PayloadLength[id] \in Nat
BY DEF PayloadLength

\* What is published is a message, whatever was received.
LEMMA DecodeType ==
  ASSUME NEW packet \in Seq(Bytes), Len(packet) >= 4, Publishes(packet)
  PROVE  Decode(packet) \in [id : Bytes, payload : Seq(Bytes)]
<1> DEFINE id == packet[3]
           size == IF id = ID_JOINT_STATE THEN packet[2] ELSE PayloadLength[id]
           longer == packet \o Zeros(size)
           payload == SubSeq(longer, 5, 4 + size)
<1>1. packet[2] \in Bytes /\ id \in Bytes /\ Len(packet) \in Nat
  BY ElementOfSeq
<1>2. size \in Nat
  <2>1. id \in DOMAIN PayloadLength
    BY DEF Publishes, Handled
  <2>2. PayloadLength[id] \in Nat
    BY <2>1, PayloadLengthFacts
  <2>3. packet[2] \in Nat
    BY <1>1, ByteFacts
  <2> QED
    BY <2>2, <2>3
<1> HIDE DEF size
<1>3. longer \in Seq(Bytes) /\ Len(longer) >= 4 + size /\ Len(longer) \in Nat
  <2>1. Zeros(size) \in Seq(Bytes) /\ Len(Zeros(size)) = size
    BY <1>2, ZeroFacts
  <2>2. longer \in Seq(Bytes) /\ Len(longer) = Len(packet) + Len(Zeros(size))
    BY <2>1, Joined
  <2> HIDE DEF longer
  <2> QED
    BY <1>1, <1>2, <2>1, <2>2
<1> HIDE DEF longer
<1>4. payload \in Seq(Bytes)
  <2>1. \A j \in 5..(4 + size) : longer[j] \in Bytes
    BY <1>2, <1>3, ElementOfSeq
  <2>2. 5 \in Int /\ 4 + size \in Int
    BY <1>2
  <2> QED
    BY <2>1, <2>2, SubSeqProperties
<1>5. Decode(packet) = [id |-> id, payload |-> payload]
  BY DEF Decode, longer, size
<1> HIDE DEF payload, id
<1> QED
  BY <1>1, <1>4, <1>5

LEMMA FramingInit ==
  ReceiveInit => Framing
<1> SUFFICES ASSUME ReceiveInit PROVE Framing
  OBVIOUS
<1>1. /\ stream \in Streams /\ pos = 0 /\ pc = "sof" /\ published = <<>>
      /\ header_frame = <<>> /\ data_buf = <<>> /\ received_len_sum = 0 /\ remain_len = 0
      /\ short_headers = 0 /\ port_failed = FALSE
  BY DEF ReceiveInit
<1>2. stream \in Seq(Bytes) /\ Len(stream) \in Nat
  BY <1>1, StreamFacts
<1>3. MaxShortHeaders \in Nat
  BY ReceiveAssumption
<1>4. <<>> \in Seq(Bytes) /\ Len(<<>>) = 0 /\ <<>> \in Seq([id : Bytes, payload : Seq(Bytes)])
  OBVIOUS
<1>5. ReceiveTypeOK
  <2>1. pos \in 0..Len(stream) /\ short_headers \in 0..MaxShortHeaders
    BY <1>1, <1>2, <1>3
  <2>2. received_len_sum \in 0..(MaxPayload + 2) /\ remain_len \in 0..(MaxPayload + 2)
    BY <1>1 DEF MaxPayload
  <2>3. /\ header_frame \in Seq(Bytes) /\ Len(header_frame) \in {0, 4} /\ data_buf \in Seq(Bytes)
        /\ published \in Seq([id : Bytes, payload : Seq(Bytes)])
    BY <1>1, <1>4
  <2> QED
    BY <1>1, <1>2, <2>1, <2>2, <2>3 DEF ReceiveTypeOK
<1> QED
  BY <1>1, <1>5 DEF Framing

LEMMA FramingNext ==
  ASSUME Framing, [ReceiveNext]_receive_vars PROVE Framing'
<1>1. /\ stream \in Streams /\ stream \in Seq(Bytes) /\ Len(stream) \in Nat
      /\ pos \in 0..Len(stream) /\ pos \in Nat
  BY FramingFacts
<1>2. ReceiveTypeOK
  BY DEF Framing
<1>3. CASE ReadSof
  <2>1. /\ pc = "sof" /\ pos + 1 <= Len(stream) /\ pos' = pos + 1
        /\ pc' = IF Received(1, 1)[1] = SOF_RECEIVE THEN "header" ELSE "sof"
        /\ UNCHANGED <<stream, header_frame, data_buf, received_len_sum, remain_len,
                       published, short_headers, port_failed>>
    BY <1>3 DEF ReadSof, Receives, frame_vars
  <2>2. Received(1, 1)[1] = stream[pos + 1]
    BY <1>1, <2>1, ReceivedFacts
  <2>3. ReceiveTypeOK'
    BY <1>1, <1>2, <2>1 DEF ReceiveTypeOK
  <2>4. pc' = "header" => pos' >= 1 /\ stream'[pos'] = SOF_RECEIVE
    BY <1>1, <2>1, <2>2
  <2>5. received_len_sum' = 0 /\ pc' \in {"sof", "header"} /\ stream' \in Streams
    BY <1>1, <2>1 DEF Framing
  <2> QED
    BY <2>3, <2>4, <2>5 DEF Framing
<1>4. ASSUME NEW k \in 1..3, ReadHeader(k) PROVE Framing'
  <2>1. PICK p \in 1..Len(stream) : p = pos
    BY <1>4, ReadHeaderStep
  <2>2. /\ pos + k <= Len(stream) /\ pos' = pos + k
        /\ stream' = stream /\ published' = published /\ port_failed' = port_failed
        /\ data_buf' = data_buf /\ received_len_sum' = received_len_sum
        /\ remain_len' = remain_len /\ short_headers' \in 0..MaxShortHeaders
    BY <1>4, <2>1, ReadHeaderStep
  <2>3. \/ pc' = "sof" /\ header_frame' = header_frame
        \/ pc' = "data" /\ header_frame' = HeaderAt(stream, p, k) /\ Reading(p, k)'
    BY <1>4, <2>1, ReadHeaderStep
  <2>4. header_frame' \in Seq(Bytes) /\ Len(header_frame') \in {0, 4}
    <3>1. HeaderAt(stream, p, k) \in Seq(Bytes) /\ Len(HeaderAt(stream, p, k)) = 4
      BY <1>1, <2>1, <2>2, HeaderAtFacts
    <3> QED
      BY <1>2, <2>3, <3>1 DEF ReceiveTypeOK
  <2>5. pos' \in 0..Len(stream')
    BY <1>1, <2>2
  <2>6. ReceiveTypeOK'
    BY <1>2, <2>2, <2>3, <2>4, <2>5 DEF ReceiveTypeOK
  <2>7. received_len_sum' = 0
    BY <1>4, <2>2 DEF Framing, ReadHeader
  <2> QED
    BY <1>1, <2>1, <2>2, <2>3, <2>6, <2>7 DEF Framing
<1>5. ASSUME NEW n \in 1..(MaxPayload + 2), ReadData(n) PROVE Framing'
  <2>1. PICK p \in 1..Len(stream), k \in 1..3 : Reading(p, k)
    BY <1>5 DEF Framing, ReadData
  <2>2. /\ Reading(p, k)' /\ pc' = "remain"
        /\ stream' = stream /\ published' = published /\ port_failed' = port_failed
        /\ header_frame' = header_frame /\ short_headers' = short_headers
        /\ pos' \in 0..Len(stream) /\ data_buf' \in Seq(Bytes)
        /\ received_len_sum' \in 0..(MaxPayload + 2) /\ remain_len' \in 0..(MaxPayload + 2)
    BY <1>5, <2>1, ReadDataStep
  <2>3. ReceiveTypeOK'
    BY <1>2, <2>2 DEF ReceiveTypeOK
  <2> QED
    BY <1>1, <2>2, <2>3 DEF Framing
<1>6. ASSUME NEW n \in 1..(MaxPayload + 2), ReadRemain(n) PROVE Framing'
  <2>1. PICK p \in 1..Len(stream), k \in 1..3 : Reading(p, k)
    BY <1>6 DEF Framing, ReadRemain
  <2>2. /\ Reading(p, k)' /\ pc' = "remain"
        /\ stream' = stream /\ published' = published /\ port_failed' = port_failed
        /\ header_frame' = header_frame /\ short_headers' = short_headers
        /\ pos' \in 0..Len(stream) /\ data_buf' \in Seq(Bytes)
        /\ received_len_sum' \in 0..(MaxPayload + 2) /\ remain_len' \in 0..(MaxPayload + 2)
    BY <1>6, <2>1, ReadRemainStep
  <2>3. ReceiveTypeOK'
    BY <1>2, <2>2 DEF ReceiveTypeOK
  <2> QED
    BY <1>1, <2>2, <2>3 DEF Framing
<1>7. CASE Dispatch
  <2> DEFINE packet == header_frame \o data_buf
  <2>1. PICK p \in 1..Len(stream), k \in 1..3 : Reading(p, k)
    BY <1>7 DEF Framing, Dispatch
  <2>2. packet \in Seq(Bytes) /\ Len(packet) >= 4
    BY <1>7, <2>1, PacketFacts DEF Dispatch
  <2>3. published' = IF Publishes(packet) THEN Append(published, Decode(packet)) ELSE published
    BY <1>7 DEF Dispatch
  <2> HIDE DEF packet
  <2>4. published' \in Seq([id : Bytes, payload : Seq(Bytes)])
    <3>1. published \in Seq([id : Bytes, payload : Seq(Bytes)])
      BY <1>2 DEF ReceiveTypeOK
    <3>2. CASE Publishes(packet)
      <4>1. Decode(packet) \in [id : Bytes, payload : Seq(Bytes)]
        BY <2>2, <3>2, DecodeType
      <4> QED
        BY <2>3, <3>1, <3>2, <4>1, AppendProperties
    <3>3. CASE ~Publishes(packet)
      BY <2>3, <3>1, <3>3
    <3> QED
      BY <3>2, <3>3
  <2>5. /\ pc' = "sof" /\ header_frame' = <<>> /\ data_buf' = <<>> /\ received_len_sum' = 0
        /\ remain_len' = 0 /\ UNCHANGED <<stream, pos, short_headers, port_failed>>
    BY <1>7 DEF Dispatch, LeaveFrame
  <2>6. <<>> \in Seq(Bytes) /\ Len(<<>>) = 0
    OBVIOUS
  <2>7. ReceiveTypeOK'
    BY <1>2, <2>4, <2>5, <2>6 DEF ReceiveTypeOK, MaxPayload
  <2> QED
    BY <1>1, <2>5, <2>7 DEF Framing
<1>8. CASE ReadThrows
  <2>1. /\ pc' = "sof" /\ header_frame' = <<>> /\ data_buf' = <<>> /\ received_len_sum' = 0
        /\ remain_len' = 0 /\ UNCHANGED <<stream, published, short_headers>>
        /\ port_failed' = TRUE /\ pos' \in pos..Len(stream)
    BY <1>8 DEF ReadThrows, LeaveFrame
  <2>2. <<>> \in Seq(Bytes) /\ Len(<<>>) = 0 /\ pos' \in 0..Len(stream)
    BY <1>1, <2>1
  <2>3. ReceiveTypeOK'
    BY <1>2, <2>1, <2>2 DEF ReceiveTypeOK, MaxPayload
  <2> QED
    BY <1>1, <2>1, <2>3 DEF Framing
<1>9. CASE UNCHANGED receive_vars
  <2>1. UNCHANGED <<stream, pos, pc, header_frame, data_buf, received_len_sum, remain_len,
                    published, short_headers, port_failed>>
    BY <1>9 DEF receive_vars, frame_vars
  <2>2. \A p, k : Reading(p, k)' <=> Reading(p, k)
    BY <2>1 DEF Reading, SegmentLength
  <2>3. ReceiveTypeOK'
    BY <1>2, <2>1 DEF ReceiveTypeOK
  <2> QED
    BY <2>1, <2>2, <2>3 DEF Framing
<1> QED
  BY <1>3, <1>4, <1>5, <1>6, <1>7, <1>8, <1>9 DEF ReceiveNext

\* While a frame is read, what is in the buffer is exactly what followed the header in the
\* stream, in order and without a gap, with zeros behind it: however the reads are cut,
\* the insertion of each rest where the data ends (receiveData) puts it in its place.
THEOREM ReassemblyIsExact == ReceiveSpec => []Framing
<1>1. ReceiveInit => Framing
  BY FramingInit
<1>2. Framing /\ [ReceiveNext]_receive_vars => Framing'
  BY FramingNext
<1> QED
  BY <1>1, <1>2, PTL DEF ReceiveSpec

\* The buffers and counters of receiveData stay in their ranges: no read asks for more
\* bytes than a segment has, and what is published is always a message.
THEOREM ReceiveTypeCorrect == ReceiveSpec => []ReceiveTypeOK
<1>1. Framing => ReceiveTypeOK
  BY DEF Framing
<1> QED
  BY <1>1, ReassemblyIsExact, PTL

-----------------------------------------------------------------------------
(* What has been published, as a choice of what was sent *)

DeliveriesOf(pub) ==
  {index \in [DOMAIN pub -> DOMAIN Messages] :
     /\ \A n \in DOMAIN pub : pub[n] = Messages[index[n]]
     /\ \A m, n \in DOMAIN pub : m < n => index[m] < index[n]}

\* The frames from i on are still to come; those before it that were not delivered.
Ahead(i, index) == \A n \in DOMAIN index : index[n] < i
Missed(i, index) == {j \in 1..(i - 1) : Publishable(j)} \ {index[n] : n \in DOMAIN index}

\* Frame i goes by and is not published.
LEMMA PassFrame ==
  ASSUME NEW i \in 1..N, NEW index, index \in [DOMAIN index -> 1..N], Ahead(i, index)
  PROVE  /\ Ahead(i + 1, index)
         /\ Missed(i + 1, index) \subseteq Missed(i, index) \cup {i}
         /\ ~Publishable(i) => Missed(i + 1, index) \subseteq Missed(i, index)
<1>1. N \in Nat /\ i \in Nat
  BY MessageFacts
<1>2. ASSUME NEW n \in DOMAIN index PROVE index[n] < i + 1
  <2>1. index[n] \in 1..N /\ index[n] < i
    BY DEF Ahead
  <2> QED
    BY <1>1, <2>1
<1>3. \A j \in 1..((i + 1) - 1) : j \in 1..(i - 1) \/ j = i
  BY <1>1
<1> QED
  BY <1>2, <1>3 DEF Ahead, Missed

\* Frame i is published.
LEMMA TakeFrame ==
  ASSUME NEW pub \in Seq([id : Bytes, payload : Seq(Bytes)]), NEW index \in DeliveriesOf(pub),
         NEW i \in 1..N, Ahead(i, index)
  PROVE  \E next \in DeliveriesOf(Append(pub, Messages[i])) :
           Ahead(i + 1, next) /\ Missed(i + 1, next) \subseteq Missed(i, index)
<1> DEFINE last == Len(pub) + 1
           longer == Append(pub, Messages[i])
           next == [n \in 1..last |-> IF n = last THEN i ELSE index[n]]
<1>1. N \in Nat /\ i \in Nat /\ DOMAIN Messages = 1..N /\ Messages[i] \in [id : Bytes, payload : Seq(Bytes)]
  BY MessageFacts
<1>2. Len(pub) \in Nat /\ DOMAIN pub = 1..Len(pub)
  OBVIOUS
<1>3. /\ index \in [1..Len(pub) -> 1..N]
      /\ \A n \in 1..Len(pub) : pub[n] = Messages[index[n]]
      /\ \A m, n \in 1..Len(pub) : m < n => index[m] < index[n]
      /\ \A n \in 1..Len(pub) : index[n] < i /\ index[n] \in Nat
  <2>1. /\ index \in [DOMAIN pub -> DOMAIN Messages]
        /\ \A n \in DOMAIN pub : pub[n] = Messages[index[n]]
        /\ \A m, n \in DOMAIN pub : m < n => index[m] < index[n]
    BY DEF DeliveriesOf
  <2>2. index \in [1..Len(pub) -> 1..N]
    BY <1>1, <1>2, <2>1
  <2>3. \A n \in 1..Len(pub) : index[n] < i /\ index[n] \in Nat
    <3>1. DOMAIN index = 1..Len(pub)
      BY <2>2
    <3>2. \A n \in 1..Len(pub) : index[n] < i
      BY <3>1 DEF Ahead
    <3>3. \A n \in 1..Len(pub) : index[n] \in 1..N
      BY <2>2
    <3> QED
      BY <1>1, <3>2, <3>3
  <2> QED
    BY <1>2, <2>1, <2>2, <2>3
<1>4. /\ DOMAIN longer = 1..last /\ longer[last] = Messages[i]
      /\ \A n \in 1..Len(pub) : longer[n] = pub[n]
  BY <1>1, <1>2, AppendProperties
<1>5. last \in Nat /\ \A n \in 1..last : n = last \/ n \in 1..Len(pub)
  BY <1>2
<1>6. \A n \in 1..Len(pub) : n # last /\ n \in 1..last
  BY <1>2
<1>7. next \in [1..last -> 1..N] /\ next[last] = i /\ \A n \in 1..Len(pub) : next[n] = index[n]
  BY <1>3, <1>5, <1>6
<1> HIDE DEF longer, next, last
<1>8. \A n \in 1..last : longer[n] = Messages[next[n]]
  BY <1>3, <1>4, <1>5, <1>7
<1>9. ASSUME NEW m \in 1..last, NEW n \in 1..last, m < n PROVE next[m] < next[n]
  <2>1. m \in 1..Len(pub)
    BY <1>5, <1>9 DEF last
  <2>2. CASE n = last
    BY <1>3, <1>7, <2>1, <2>2
  <2>3. CASE n \in 1..Len(pub)
    BY <1>3, <1>7, <1>9, <2>1, <2>3
  <2> QED
    BY <1>5, <2>2, <2>3
<1>10. next \in DeliveriesOf(longer)
  BY <1>1, <1>4, <1>7, <1>8, <1>9 DEF DeliveriesOf
<1>11. Ahead(i + 1, next)
  <2>1. ASSUME NEW n \in 1..last PROVE next[n] < i + 1
    <3>1. CASE n = last
      BY <1>1, <1>7, <3>1
    <3>2. CASE n \in 1..Len(pub)
      <4>1. next[n] = index[n] /\ index[n] < i /\ index[n] \in Nat
        BY <1>3, <1>7, <3>2
      <4> QED
        BY <1>1, <4>1
    <3> QED
      BY <1>5, <3>1, <3>2
  <2>2. DOMAIN next = 1..last
    BY <1>7
  <2> QED
    BY <2>1, <2>2 DEF Ahead
<1>12. Missed(i + 1, next) \subseteq Missed(i, index)
  <2>1. ASSUME NEW j \in Missed(i + 1, next) PROVE j \in Missed(i, index)
    <3>1. DOMAIN next = 1..last /\ DOMAIN index = 1..Len(pub) /\ last \in 1..last
      BY <1>2, <1>3, <1>5, <1>7 DEF last
    <3>2. j \in 1..((i + 1) - 1) /\ Publishable(j) /\ \A n \in 1..last : j # next[n]
      BY <3>1 DEF Missed
    <3>3. j # i
      BY <1>7, <3>1, <3>2
    <3>4. j \in 1..(i - 1)
      BY <1>1, <3>2, <3>3
    <3>5. \A n \in 1..Len(pub) : j # index[n]
      BY <1>6, <1>7, <3>2
    <3> QED
      BY <3>1, <3>2, <3>4, <3>5 DEF Missed
  <2> QED
    BY <2>1
<1> QED
  BY <1>10, <1>11, <1>12 DEF longer

LEMMA DeliveryFacts ==
  ASSUME ReceiveTypeOK
  PROVE  /\ Deliveries = DeliveriesOf(published)
         /\ \A index \in DeliveriesOf(published) :
              DOMAIN index = DOMAIN published /\ index \in [DOMAIN index -> 1..N]
<1>1. DOMAIN Messages = 1..N
  BY MessageFacts
<1> QED
  BY <1>1 DEF Deliveries, DeliveriesOf
-----------------------------------------------------------------------------
(* The end of a frame that is in place *)

LEMMA FrameInPlace ==
  ASSUME Framing, NEW i \in 1..N, Reading(Start[i] + 1, 3), pc = "remain", remain_len = 0
  PROVE  LET packet == header_frame \o data_buf
         IN  /\ pos = Start[i + 1]
             /\ Publishes(packet) <=> Publishable(i) /\ Window(stream, i) = Frame(Messages[i])
             /\ Publishes(packet) => Decode(packet) = Messages[i]
<1> DEFINE m == Messages[i]
           p == Start[i] + 1
           packet == header_frame \o data_buf
           size == Len(m.payload)
<1>1. /\ stream \in Streams /\ Start[i] \in Nat /\ Start[i] + FrameLength(m) = Start[i + 1]
      /\ Start[i + 1] <= Len(stream) /\ Len(stream) \in Nat
      /\ FrameLength(m) = size + 6 /\ size \in Nat
  BY FramingFacts, FrameArrives, MessageFacts
<1> HIDE DEF size
<1>2. p \in 1..Len(stream) /\ 3 \in 1..3
  BY <1>1
<1>3. /\ header_frame = HeaderAt(stream, p, 3) /\ HeaderOk(header_frame)
      /\ header_frame \in Seq(Bytes) /\ Len(header_frame) = 4
  BY <1>2, ReadingFacts
<1>4. header_frame = Header(m)
  BY <1>1, <1>3, HeaderInPlace DEF HeaderOk
<1>5. header_frame[2] = size /\ header_frame[3] = m.id /\ size <= MaxPayload
  BY <1>3, <1>4, FrameFacts DEF size, HeaderOk
<1> DEFINE end == p + 3 + header_frame[2] + 2
           window == header_frame \o SubSeq(stream, p + 3 + 1, end)
<1>6. end = Start[i + 1] /\ p + 3 + 1 = Start[i] + 5
  <2>1. Start[i] \in Nat /\ size \in Nat /\ Start[i + 1] = Start[i] + (size + 6)
    BY <1>1
  <2>2. header_frame[2] = size
    BY <1>5
  <2> QED
    BY <2>1, <2>2
<1>7. window = Window(stream, i)
  BY <1>4, <1>6 DEF Window
<1>8. /\ pos = end /\ packet \in Seq(Bytes)
      /\ \E n \in Nat : packet = window \o Zeros(n)
      /\ verify_CRC16_check_sum(packet) <=> verify_CRC16_check_sum(window)
  BY <1>2, PacketFacts
<1> HIDE DEF end, window
<1>9. packet[2] = size /\ packet[3] = m.id
  <2>1. data_buf \in Seq(Bytes)
    BY FramingFacts
  <2>2. \A j \in 1..Len(header_frame) : packet[j] = header_frame[j]
    BY <1>3, <2>1, Joined
  <2> QED
    BY <1>3, <1>5, <2>2
<1> HIDE DEF packet
<1>10. verify_CRC16_check_sum(packet) <=> Window(stream, i) = Frame(m)
  BY <1>1, <1>7, <1>8, WindowFacts
<1>11. Publishable(i) <=> Handled(m.id, size)
  BY <1>5 DEF Publishable, size
<1>12. Publishes(packet) <=> Publishable(i) /\ Window(stream, i) = Frame(m)
  BY <1>9, <1>10, <1>11 DEF Publishes
<1>13. ASSUME Publishes(packet) PROVE Decode(packet) = m
  <2>1. Handled(m.id, Len(m.payload)) /\ window = Frame(m)
    BY <1>7, <1>11, <1>12, <1>13 DEF size
  <2>2. PICK n \in Nat : packet = Frame(m) \o Zeros(n)
    BY <1>8, <2>1
  <2> QED
    BY <2>1, <2>2, DecodeFrame
<1> QED
  BY <1>6, <1>8, <1>12, <1>13 DEF packet

-----------------------------------------------------------------------------
(* Whatever is published was sent *)

\* Every frame published so far ended by byte q.
EndedBy(index, q) == \A n \in DOMAIN index : Start[index[n] + 1] <= q
InOrder(q) == \E index \in Deliveries : EndedBy(index, q)

\* Inductive: what is being read now began where all that was published had ended.
OrderInv ==
  /\ Framing
  /\ pc = "sof" => InOrder(pos)
  /\ pc = "header" => InOrder(pos - 1)
  /\ pc \in {"data", "remain"} =>
       \E p \in 1..Len(stream), k \in 1..3 : Reading(p, k) /\ InOrder(p - 1)

LEMMA NoDelivery ==
  /\ <<>> \in DeliveriesOf(<<>>)
  /\ \A q : EndedBy(<<>>, q)
  /\ Ahead(1, <<>>) /\ Missed(1, <<>>) = {}
<1>1. DOMAIN <<>> = {} /\ <<>> \in [{} -> DOMAIN Messages]
  OBVIOUS
<1>2. 1..(1 - 1) = {}
  OBVIOUS
<1> QED
  BY <1>1, <1>2 DEF DeliveriesOf, EndedBy, Ahead, Missed

LEMMA EndedByFacts ==
  ASSUME NEW index, index \in [DOMAIN index -> 1..N]
  PROVE  /\ \A q, r \in Int : EndedBy(index, q) /\ q <= r => EndedBy(index, r)
         /\ \A i \in 1..(N + 1) : EndedBy(index, Start[i]) <=> Ahead(i, index)
<1>1. \A n \in DOMAIN index : index[n] \in 1..N
  OBVIOUS
<1>2. \A j \in 1..N : Start[j + 1] \in Nat
  BY MessageFacts, StartFacts
<1>3. ASSUME NEW q \in Int, NEW r \in Int, EndedBy(index, q), q <= r PROVE EndedBy(index, r)
  <2>1. ASSUME NEW n \in DOMAIN index PROVE Start[index[n] + 1] <= r
    <3>1. Start[index[n] + 1] \in Nat /\ Start[index[n] + 1] <= q
      BY <1>1, <1>2, <1>3 DEF EndedBy
    <3> QED
      BY <1>3, <3>1
  <2> QED
    BY <2>1 DEF EndedBy
<1>4. ASSUME NEW i \in 1..(N + 1) PROVE EndedBy(index, Start[i]) <=> Ahead(i, index)
  <2>1. \A n \in DOMAIN index : Start[index[n] + 1] <= Start[i] <=> index[n] < i
    BY <1>1, StartOrder
  <2> QED
    BY <2>1 DEF EndedBy, Ahead
<1> QED
  BY <1>3, <1>4

LEMMA InOrderGrows ==
  ASSUME ReceiveTypeOK, NEW q \in Int, NEW r \in Int, q <= r, InOrder(q)
  PROVE  InOrder(r)
<1>1. PICK index \in Deliveries : EndedBy(index, q)
  BY DEF InOrder
<1>2. index \in [DOMAIN index -> 1..N]
  BY DeliveryFacts
<1>3. EndedBy(index, r)
  BY <1>1, <1>2, EndedByFacts
<1> QED
  BY <1>3 DEF InOrder

LEMMA OrderNow ==
  ASSUME OrderInv PROVE InOrder(pos)
<1>1. Framing /\ ReceiveTypeOK /\ pos \in Nat /\ Len(stream) \in Nat
  BY FramingFacts DEF OrderInv, Framing
<1>2. CASE pc = "sof"
  BY <1>2 DEF OrderInv
<1>3. CASE pc = "header"
  BY <1>1, <1>3, InOrderGrows DEF OrderInv
<1>4. CASE pc \in {"data", "remain"}
  <2>1. PICK p \in 1..Len(stream), k \in 1..3 : Reading(p, k) /\ InOrder(p - 1)
    BY <1>4 DEF OrderInv
  <2>2. pos = p + k + received_len_sum /\ received_len_sum \in Nat
    BY <1>1, <2>1, FramingFacts DEF Reading
  <2>3. p - 1 \in Int /\ pos \in Int /\ p - 1 <= pos
    BY <1>1, <2>2
  <2> QED
    BY <1>1, <2>1, <2>3, InOrderGrows
<1> QED
  BY <1>1, <1>2, <1>3, <1>4 DEF ReceiveTypeOK

LEMMA OrderNext ==
  ASSUME NoFalseFrame, OrderInv, [ReceiveNext]_receive_vars PROVE OrderInv'
<1>1. Framing /\ Framing' /\ ReceiveTypeOK /\ ReceiveTypeOK'
  BY FramingNext DEF OrderInv, Framing
<1>2. pos \in Nat /\ Len(stream) \in Nat /\ stream \in Streams /\ stream \in Seq(Bytes)
  BY <1>1, FramingFacts
<1>3. ASSUME published' = published, NEW q, InOrder(q) PROVE InOrder(q)'
  BY <1>3 DEF InOrder, Deliveries
<1>4. pos' \in Nat
  BY <1>1, FramingFacts DEF ReceiveTypeOK
<1>5. ASSUME NEW q \in Int, NEW r \in Int, q <= r, InOrder(q), published' = published
      PROVE  InOrder(r)'
  BY <1>1, <1>3, <1>5, InOrderGrows
<1>6. CASE ReadSof
  <2>1. /\ pc = "sof" /\ pos' = pos + 1 /\ pc' \in {"sof", "header"} /\ published' = published
    BY <1>6 DEF ReadSof, Receives
  <2>2. InOrder(pos)
    BY <2>1 DEF OrderInv
  <2>3. PICK q \in Int : q = pos
    BY <1>2
  <2>4. InOrder(q)' /\ InOrder(q + 1)'
    BY <1>5, <2>1, <2>2, <2>3
  <2>5. q = pos' - 1 /\ q + 1 = pos'
    BY <1>2, <2>1, <2>3
  <2>6. InOrder(pos)' /\ InOrder(pos - 1)'
    BY <2>4, <2>5
  <2> QED
    BY <1>1, <2>1, <2>6 DEF OrderInv
<1>7. ASSUME NEW k \in 1..3, ReadHeader(k) PROVE OrderInv'
  <2>1. PICK p \in 1..Len(stream) : p = pos
    BY <1>1, <1>7, ReadHeaderStep
  <2>2. /\ stream' = stream /\ published' = published /\ pos' = pos + k
        /\ \/ pc' = "sof"
           \/ pc' = "data" /\ Reading(p, k)'
    BY <1>1, <1>7, <2>1, ReadHeaderStep
  <2>3. InOrder(p - 1)
    BY <1>7, <2>1 DEF OrderInv, ReadHeader
  <2>4. InOrder(p - 1)' /\ InOrder(p + k)'
    BY <1>2, <1>5, <2>2, <2>3
  <2>5. InOrder(pos)'
    BY <2>1, <2>2, <2>4
  <2> QED
    BY <1>1, <2>1, <2>2, <2>4, <2>5 DEF OrderInv
<1>8. ASSUME NEW n \in 1..(MaxPayload + 2), ReadData(n) \/ ReadRemain(n) PROVE OrderInv'
  <2>1. pc \in {"data", "remain"}
    BY <1>8 DEF ReadData, ReadRemain
  <2>2. PICK p \in 1..Len(stream), k \in 1..3 : Reading(p, k) /\ InOrder(p - 1)
    BY <2>1 DEF OrderInv
  <2>3. Reading(p, k)' /\ pc' = "remain" /\ stream' = stream /\ published' = published
    BY <1>1, <1>8, <2>2, ReadDataStep, ReadRemainStep
  <2>4. InOrder(p - 1)'
    BY <1>3, <2>2, <2>3
  <2> QED
    BY <1>1, <2>2, <2>3, <2>4 DEF OrderInv
<1>9. CASE Dispatch
  <2> DEFINE packet == header_frame \o data_buf
  <2>1. pc = "remain" /\ remain_len = 0
    BY <1>9 DEF Dispatch
  <2>2. PICK p \in 1..Len(stream), k \in 1..3 : Reading(p, k) /\ InOrder(p - 1)
    BY <2>1 DEF OrderInv
  <2>3. /\ pc' = "sof" /\ pos' = pos /\ stream' = stream
        /\ published' = IF Publishes(packet) THEN Append(published, Decode(packet)) ELSE published
    BY <1>9 DEF Dispatch, LeaveFrame
  <2>4. CASE ~Publishes(packet)
    <3>1. InOrder(pos)
      BY OrderNow
    <3>2. PICK q \in Int : q = pos
      BY <1>2
    <3>3. InOrder(q)'
      BY <1>3, <2>3, <2>4, <3>1, <3>2
    <3>4. InOrder(pos)'
      BY <2>3, <3>2, <3>3
    <3> QED
      BY <1>1, <2>3, <3>4 DEF OrderInv
  <2>5. CASE Publishes(packet)
    <3>1. LooksLikeFrame(stream, p, k)
      BY <1>1, <2>1, <2>2, <2>5, PacketFacts DEF Publishes
    <3>2. DOMAIN stream = 1..Len(stream)
      BY <1>2
    <3>3. InPlace(p, k)
      BY <1>2, <3>1, <3>2 DEF NoFalseFrame
    <3>4. PICK i \in 1..N : k = 3 /\ p = Start[i] + 1
      BY <3>3, MessageFacts DEF InPlace
    <3>5. Reading(Start[i] + 1, 3)
      BY <2>2, <3>4
    <3>6. pos = Start[i + 1] /\ Decode(packet) = Messages[i]
      BY <1>1, <2>1, <2>5, <3>5, FrameInPlace
    <3>7. Start[i] \in Nat /\ i + 1 \in 1..(N + 1) /\ i \in 1..(N + 1)
      BY MessageFacts, StartFacts
    <3>8. p - 1 = Start[i]
      BY <3>4, <3>7
    <3>9. PICK index \in DeliveriesOf(published) : EndedBy(index, Start[i])
      BY <1>1, <2>2, <3>8, DeliveryFacts DEF InOrder
    <3>10. Ahead(i, index)
      BY <1>1, <3>7, <3>9, DeliveryFacts, EndedByFacts
    <3>11. published' = Append(published, Messages[i])
      BY <2>3, <2>5, <3>6
    <3>12. PICK next \in DeliveriesOf(published') : Ahead(i + 1, next)
      BY <1>1, <3>10, <3>11, TakeFrame DEF ReceiveTypeOK
    <3>13. next \in Deliveries' /\ next \in [DOMAIN next -> 1..N]
      BY <3>12, MessageFacts DEF Deliveries, DeliveriesOf
    <3>14. EndedBy(next, Start[i + 1])
      BY <3>7, <3>12, <3>13, EndedByFacts
    <3>15. pos' = Start[i + 1]
      BY <2>3, <3>6
    <3>16. InOrder(pos)'
      BY <3>13, <3>14, <3>15 DEF InOrder
    <3> QED
      BY <1>1, <2>3, <3>16 DEF OrderInv
  <2> QED
    BY <2>4, <2>5
<1>10. CASE ReadThrows
  <2>1. pc' = "sof" /\ published' = published /\ pos' \in pos..Len(stream)
    BY <1>10 DEF ReadThrows, LeaveFrame
  <2>2. InOrder(pos)
    BY OrderNow
  <2>3. PICK q \in Int, r \in Int : q = pos /\ r = pos'
    BY <1>2, <1>4
  <2>4. q <= r
    BY <1>2, <1>4, <2>1, <2>3
  <2>5. InOrder(r)'
    BY <1>5, <2>1, <2>2, <2>3, <2>4
  <2>6. InOrder(pos)'
    BY <2>3, <2>5
  <2> QED
    BY <1>1, <2>1, <2>6 DEF OrderInv
<1>11. CASE UNCHANGED receive_vars
  <2>1. UNCHANGED <<stream, pos, pc, header_frame, data_buf, received_len_sum, remain_len,
                    published, short_headers, port_failed>>
    BY <1>11 DEF receive_vars, frame_vars
  <2>2. \A p, k : Reading(p, k)' <=> Reading(p, k)
    BY <2>1 DEF Reading, SegmentLength
  <2>3. \A q : InOrder(q)' <=> InOrder(q)
    BY <2>1 DEF InOrder, Deliveries
  <2>4. (InOrder(pos)' <=> InOrder(pos)) /\ (InOrder(pos - 1)' <=> InOrder(pos - 1))
    BY <2>1 DEF InOrder, Deliveries
  <2> QED
    BY <1>1, <2>1, <2>2, <2>3, <2>4 DEF OrderInv
<1> QED
  BY <1>6, <1>7, <1>8, <1>9, <1>10, <1>11 DEF ReceiveNext

\* Unless the bytes of the stream happen to carry a right checksum where no frame was
\* sent, whatever is published was sent, once and in order: for every sequence of
\* messages, any one corrupted byte, and however reads are cut short or fail.
THEOREM PublishedIsSent ==
  ASSUME NoFalseFrame PROVE ReceiveSpec => []PublishedWasSent
<1>1. ReceiveInit => OrderInv
  <2> SUFFICES ASSUME ReceiveInit PROVE OrderInv
    OBVIOUS
  <2>1. Framing /\ pc = "sof" /\ published = <<>>
    BY FramingInit DEF ReceiveInit
  <2>2. Deliveries = DeliveriesOf(<<>>)
    BY <2>1 DEF Deliveries, DeliveriesOf
  <2>3. InOrder(pos)
    BY <2>2, NoDelivery DEF InOrder
  <2> QED
    BY <2>1, <2>3 DEF OrderInv
<1>2. OrderInv /\ [ReceiveNext]_receive_vars => OrderInv'
  BY OrderNext
<1>3. OrderInv => PublishedWasSent
  BY OrderNow DEF InOrder, PublishedWasSent
<1> QED
  BY <1>1, <1>2, <1>3, PTL DEF ReceiveSpec

-----------------------------------------------------------------------------
(* An undisturbed stream loses nothing *)

Same(s, i, n) == \A q \in 1..n : s[Start[i] + q] = Sent[Start[i] + q]

\* What arrives as it was sent is read as it was sent.
LEMMA IntactFrame ==
  ASSUME NEW s \in Streams, NEW i \in 1..N
  PROVE  /\ Same(s, i, 1) => s[Start[i] + 1] = SOF_RECEIVE
         /\ Same(s, i, 4) => HeaderAt(s, Start[i] + 1, 3) = Header(Messages[i])
         /\ Same(s, i, FrameLength(Messages[i])) => Window(s, i) = Frame(Messages[i])
<1> DEFINE m == Messages[i]
           n == FrameLength(m)
           p == Start[i] + 1
           read == HeaderAt(s, p, 3)
           header == Header(m)
<1>1. /\ Start[i] \in Nat /\ n \in Nat /\ n >= 6 /\ s \in Seq(Bytes)
      /\ \A q \in 1..n : Sent[Start[i] + q] = Frame(m)[q]
      /\ p \in Nat /\ p + 3 <= Len(s) /\ 3 \in 1..3
  <2>1. Start[i] \in Nat /\ Start[i] + n = Start[i + 1] /\ Start[i + 1] <= Len(s)
    BY FrameArrives
  <2>2. n \in Nat /\ n >= 6
    BY MessageFacts
  <2>3. s \in Seq(Bytes) /\ Len(s) \in Nat
    BY StreamFacts
  <2>4. \A q \in 1..n : Sent[Start[i] + q] = Frame(m)[q]
    BY SentFacts
  <2> HIDE DEF n
  <2>5. p \in Nat /\ p + 3 <= Len(s)
    BY <2>1, <2>2, <2>3
  <2> QED
    BY <2>1, <2>2, <2>3, <2>4, <2>5
<1>2. /\ header \in Seq(Bytes) /\ Len(header) = 4 /\ header[1] = SOF_RECEIVE
      /\ \A q \in 1..4 : Frame(m)[q] = header[q]
  BY FrameFacts
<1>3. Frame(m) \in Seq(Bytes) /\ Len(Frame(m)) = n
  BY FrameFacts
<1> HIDE DEF n
<1>4. /\ read \in Seq(Bytes) /\ Len(read) = 4 /\ read[1] = SOF_RECEIVE
      /\ \A j \in 1..3 : read[1 + j] = s[p + j]
  BY <1>1, HeaderAtFacts
<1> HIDE DEF read, header
<1>5. ASSUME Same(s, i, 1) PROVE s[Start[i] + 1] = SOF_RECEIVE
  <2>1. 1 \in 1..n /\ 1 \in 1..1 /\ 1 \in 1..4
    BY <1>1
  <2> QED
    BY <1>1, <1>2, <1>5, <2>1 DEF Same
<1>6. ASSUME Same(s, i, 4) PROVE read = header
  <2>1. ASSUME NEW q \in 1..4 PROVE read[q] = header[q]
    <3>1. CASE q = 1
      BY <1>2, <1>4, <3>1
    <3>2. CASE q # 1
      <4>1. q - 1 \in 1..3 /\ 1 + (q - 1) = q /\ p + (q - 1) = Start[i] + q /\ q \in 1..n
        BY <1>1, <3>2
      <4>2. read[q] = s[Start[i] + q]
        BY <1>4, <4>1
      <4> QED
        BY <1>1, <1>2, <1>6, <4>1, <4>2 DEF Same
    <3> QED
      BY <3>1, <3>2
  <2>2. /\ read \in Seq(Bytes) /\ header \in Seq(Bytes) /\ Len(read) = Len(header)
        /\ \A q \in 1..Len(read) : read[q] = header[q]
    BY <1>2, <1>4, <2>1
  <2> QED
    BY <2>2, SeqEqual
<1>7. ASSUME Same(s, i, n) PROVE Window(s, i) = Frame(m)
  <2> DEFINE window == Window(s, i)
             frame == Frame(m)
  <2>1. /\ window \in Seq(Bytes) /\ Len(window) = n
        /\ \A q \in 1..4 : window[q] = frame[q]
        /\ \A q \in 5..n : window[q] = s[Start[i] + q]
    BY WindowFacts DEF n
  <2>2. ASSUME NEW q \in 1..n PROVE window[q] = frame[q]
    <3>1. q \in 1..4 \/ q \in 5..n
      BY <1>1
    <3> QED
      BY <1>1, <1>7, <2>1, <3>1 DEF Same
  <2> HIDE DEF window, frame
  <2>3. window = frame
    BY <1>3, <2>1, <2>2, SeqEqual DEF frame
  <2> QED
    BY <2>3 DEF window, frame
<1> QED
  BY <1>5, <1>6, <1>7 DEF read, header, n

\* The places the reader can be in, in step with frame i.
Between(i) == pc = "sof" /\ pos = Start[i]
InHeader(i) == i \in 1..N /\ pc = "header" /\ pos = Start[i] + 1
InData(i) == i \in 1..N /\ pc \in {"data", "remain"} /\ Reading(Start[i] + 1, 3)

InRefused(i) ==
  /\ i \in 1..N /\ Len(Messages[i].payload) > MaxPayload
  /\ pc = "sof" /\ Start[i] + 4 <= pos /\ pos < Start[i + 1]

Undisturbed == stream = Sent /\ short_headers = 0 /\ ~port_failed
Complete(i) == \E index \in Deliveries : Ahead(i, index) /\ Missed(i, index) = {}

\* Inductive: the reader of an undisturbed stream is in step, or passing over a frame it
\* has refused, and all before that has been published.
LosslessInv ==
  /\ Framing
  /\ Undisturbed => \E i \in 1..(N + 1) :
       Complete(i) /\ (Between(i) \/ InHeader(i) \/ InData(i) \/ InRefused(i))

\* A byte is read only where a frame is.
LEMMA ReadsInFrame ==
  ASSUME Framing, NEW i \in 1..(N + 1), ReadSof, pos = Start[i]
  PROVE  i \in 1..N
<1>1. Len(stream) = Start[N + 1] /\ pos + 1 <= Len(stream) /\ Len(stream) \in Nat
  BY FramingFacts, StreamFacts DEF ReadSof, Receives
<1>2. i # N + 1
  BY <1>1
<1> QED
  BY <1>2, MessageFacts

LEMMA SofStep ==
  ASSUME Framing, ReadSof
  PROVE  /\ pc = "sof" /\ pos' = pos + 1 /\ pos + 1 <= Len(stream)
         /\ pc' = IF stream[pos + 1] = SOF_RECEIVE THEN "header" ELSE "sof"
         /\ UNCHANGED <<stream, published, short_headers, port_failed>>
<1>1. /\ pc = "sof" /\ pos + 1 <= Len(stream) /\ pos' = pos + 1
      /\ pc' = IF Received(1, 1)[1] = SOF_RECEIVE THEN "header" ELSE "sof"
      /\ UNCHANGED <<stream, published, short_headers, port_failed>>
  BY DEF ReadSof, Receives
<1>2. stream \in Seq(Bytes) /\ pos \in Nat
  BY FramingFacts
<1>3. Received(1, 1)[1] = stream[pos + 1]
  BY <1>1, <1>2, ReceivedFacts
<1> QED
  BY <1>1, <1>3

\* The end of frame i, with what that means for the messages published.
LEMMA DispatchStep ==
  ASSUME Framing, NEW i \in 1..N, Reading(Start[i] + 1, 3), Dispatch,
         NEW index \in DeliveriesOf(published), Ahead(i, index)
  PROVE  /\ Between(i + 1)' /\ UNCHANGED <<stream, short_headers, port_failed>>
         /\ \E next \in DeliveriesOf(published') :
              /\ Ahead(i + 1, next)
              /\ Missed(i + 1, next) \subseteq Missed(i, index) \cup {i}
              /\ ~Publishable(i) \/ Window(stream, i) = Frame(Messages[i]) =>
                   Missed(i + 1, next) \subseteq Missed(i, index)
<1> DEFINE packet == header_frame \o data_buf
<1>1. pc = "remain" /\ remain_len = 0
  BY DEF Dispatch
<1>2. /\ pos = Start[i + 1]
      /\ Publishes(packet) <=> Publishable(i) /\ Window(stream, i) = Frame(Messages[i])
      /\ Publishes(packet) => Decode(packet) = Messages[i]
  BY <1>1, FrameInPlace
<1>3. /\ pc' = "sof" /\ pos' = pos /\ UNCHANGED <<stream, short_headers, port_failed>>
      /\ published' = IF Publishes(packet) THEN Append(published, Decode(packet)) ELSE published
  BY DEF Dispatch, LeaveFrame
<1>4. /\ published \in Seq([id : Bytes, payload : Seq(Bytes)])
      /\ index \in [DOMAIN index -> 1..N]
  BY DeliveryFacts DEF Framing, ReceiveTypeOK
<1> HIDE DEF packet
<1>5. Between(i + 1)'
  BY <1>2, <1>3 DEF Between
<1>6. CASE Publishes(packet)
  <2>1. published' = Append(published, Messages[i])
    BY <1>2, <1>3, <1>6
  <2>2. PICK next \in DeliveriesOf(published') :
          Ahead(i + 1, next) /\ Missed(i + 1, next) \subseteq Missed(i, index)
    BY <1>4, <2>1, TakeFrame
  <2> QED
    BY <1>3, <1>5, <2>2
<1>7. CASE ~Publishes(packet)
  <2>1. published' = published
    BY <1>3, <1>7
  <2>2. /\ Ahead(i + 1, index)
        /\ Missed(i + 1, index) \subseteq Missed(i, index) \cup {i}
        /\ ~Publishable(i) => Missed(i + 1, index) \subseteq Missed(i, index)
    BY <1>4, PassFrame
  <2> QED
    BY <1>2, <1>3, <1>5, <1>7, <2>1, <2>2
<1> QED
  BY <1>6, <1>7

\* The header of frame i is read where the frame begins.
LEMMA HeaderStep ==
  ASSUME Framing, NEW i, InHeader(i), NEW k \in 1..3, ReadHeader(k)
  PROVE  /\ pos' = Start[i] + 1 + k /\ UNCHANGED <<stream, published, port_failed>>
         /\ short_headers' = (IF k < 3 THEN short_headers + 1 ELSE short_headers)
         /\ \/ /\ pc' = "sof"
               /\ k = 3 => Len(Messages[i].payload) > MaxPayload \/ ~Same(stream, i, 4)
            \/ LooksLikeHeader(stream, Start[i] + 1, k) /\ (k = 3 => InData(i)')
<1>1. i \in 1..N /\ pos = Start[i] + 1
  BY DEF InHeader
<1>2. PICK p : p = pos /\ p = Start[i] + 1
  BY <1>1
<1>3. /\ pos' = pos + k /\ UNCHANGED <<stream, published, port_failed>>
      /\ short_headers' = (IF k < 3 THEN short_headers + 1 ELSE short_headers)
      /\ \/ pc' = "sof" /\ ~HeaderOk(HeaderAt(stream, pos, k))
         \/ pc' = "data" /\ LooksLikeHeader(stream, p, k) /\ Reading(p, k)'
  BY <1>2, ReadHeaderStep
<1>4. CASE pc' = "sof" /\ ~HeaderOk(HeaderAt(stream, pos, k))
  <2>1. ASSUME k = 3, Same(stream, i, 4) PROVE Len(Messages[i].payload) > MaxPayload
    <3>1. HeaderAt(stream, pos, k) = Header(Messages[i])
      BY <1>1, <2>1, IntactFrame, FramingFacts
    <3>2. verify_CRC8_check_sum(Header(Messages[i]))
          /\ Header(Messages[i])[2] = Len(Messages[i].payload)
      BY <1>1, FrameFacts
    <3>3. Len(Messages[i].payload) \in Nat
      BY <1>1, MessageFacts
    <3> QED
      BY <1>4, <3>1, <3>2, <3>3 DEF HeaderOk, MaxPayload
  <2> QED
    BY <1>1, <1>3, <1>4, <2>1
<1>5. CASE pc' = "data" /\ LooksLikeHeader(stream, p, k) /\ Reading(p, k)'
  <2>1. ASSUME k = 3 PROVE InData(i)'
    BY <1>1, <1>2, <1>5, <2>1 DEF InData
  <2> QED
    BY <1>1, <1>2, <1>3, <1>5, <2>1
<1> QED
  BY <1>3, <1>4, <1>5

LEMMA DataStep ==
  ASSUME Framing, NEW i, InData(i), NEW n \in 1..(MaxPayload + 2), ReadData(n) \/ ReadRemain(n)
  PROVE  InData(i)' /\ UNCHANGED <<stream, published, short_headers, port_failed>>
<1>1. i \in 1..N /\ Reading(Start[i] + 1, 3)
  BY DEF InData
<1>2. PICK p \in 1..Len(stream) : p = Start[i] + 1
  <2>1. stream \in Streams /\ Len(stream) \in Nat
    BY FramingFacts
  <2>2. Start[i + 1] <= Len(stream)
    BY <1>1, <2>1, FrameArrives
  <2>3. /\ Start[i] \in Nat /\ Start[i + 1] \in Nat
        /\ Start[i + 1] = Start[i] + FrameLength(Messages[i])
        /\ FrameLength(Messages[i]) \in Nat /\ FrameLength(Messages[i]) >= 6
    BY <1>1, StartFacts, MessageFacts
  <2> QED
    BY <2>1, <2>2, <2>3
<1>3. 3 \in 1..3 /\ Reading(p, 3)
  BY <1>1, <1>2
<1>4. PICK k \in 1..3 : k = 3
  BY <1>3
<1>5. /\ Reading(p, k)' /\ pc' = "remain"
      /\ UNCHANGED <<stream, published, short_headers, port_failed>>
  BY <1>3, <1>4, ReadDataStep, ReadRemainStep
<1> QED
  BY <1>1, <1>2, <1>4, <1>5 DEF InData

\* Where the reader is in frame i, the frames before it are those it has consumed.
LEMMA ConsumedFacts ==
  ASSUME NEW i \in 1..(N + 1), pos \in Nat, Start[i] <= pos,
         i = N + 1 \/ pos < Start[i + 1], NEW index
  PROVE  Lost(index) = Missed(i, index)
<1>1. N \in Nat /\ DOMAIN Messages = 1..N
  BY MessageFacts
<1>2. ASSUME NEW j \in 1..N PROVE Start[j + 1] <= pos <=> j < i
  <2>1. Start[j + 1] \in Nat /\ Start[i] \in Nat /\ (Start[j + 1] <= Start[i] <=> j < i)
    BY StartOrder
  <2>2. CASE j < i
    BY <2>1, <2>2
  <2>3. CASE ~(j < i)
    <3>1. i \in 1..N /\ j + 1 \in 1..(N + 1) /\ i < j + 1
      BY <1>1, <2>3
    <3>2. Start[i + 1] \in Nat /\ Start[i + 1] <= Start[j + 1]
      BY <3>1, StartOrder
    <3>3. pos < Start[i + 1]
      BY <1>1, <3>1
    <3> QED
      BY <2>1, <2>3, <3>2, <3>3
  <2> QED
    BY <2>2, <2>3
<1>3. \A j : j \in Consumed <=> j \in 1..(i - 1)
  BY <1>1, <1>2 DEF Consumed
<1> QED
  BY <1>3 DEF Lost, Missed

LEMMA LosslessNext ==
  ASSUME RefusedAreQuiet, LosslessInv, [ReceiveNext]_receive_vars PROVE LosslessInv'
<1>1. Framing /\ Framing'
  BY FramingNext DEF LosslessInv
<1> SUFFICES ASSUME Undisturbed'
             PROVE  \E i \in 1..(N + 1) :
                      /\ Complete(i)'
                      /\ Between(i)' \/ InHeader(i)' \/ InData(i)' \/ InRefused(i)'
  BY <1>1 DEF LosslessInv
<1>2. stream \in Streams /\ pos \in Nat /\ short_headers \in Nat /\ N \in Nat
  BY <1>1, FramingFacts, MessageFacts
<1>3. stream' = stream /\ Undisturbed
  <2>1. \A n \in 1..3 : ReadHeader(n) =>
          /\ stream' = stream /\ port_failed' = port_failed
          /\ short_headers' = (IF n < 3 THEN short_headers + 1 ELSE short_headers)
    BY DEF ReadHeader
  <2>2. ReadSof \/ Dispatch \/ (\E n \in 1..(MaxPayload + 2) : ReadData(n) \/ ReadRemain(n))
          => UNCHANGED <<stream, short_headers, port_failed>>
    BY DEF ReadSof, Dispatch, ReadData, ReadRemain
  <2>3. ReadThrows => FALSE
    BY DEF ReadThrows, Undisturbed
  <2>4. UNCHANGED receive_vars => UNCHANGED <<stream, short_headers, port_failed>>
    BY DEF receive_vars
  <2>5. CASE \E n \in 1..3 : ReadHeader(n)
    BY <1>2, <2>1, <2>5 DEF Undisturbed
  <2> QED
    BY <2>2, <2>3, <2>4, <2>5 DEF ReceiveNext, Undisturbed
<1>4. PICK i \in 1..(N + 1) :
        Complete(i) /\ (Between(i) \/ InHeader(i) \/ InData(i) \/ InRefused(i))
  BY <1>3 DEF LosslessInv
<1>5. \A n : Same(stream, i, n)
  BY <1>3 DEF Undisturbed, Same
<1>6. ASSUME published' = published, NEW j PROVE Complete(j)' <=> Complete(j)
  BY <1>6 DEF Complete, Deliveries
<1>7. CASE ReadSof
  <2>1. /\ pc = "sof" /\ pos' = pos + 1 /\ pos + 1 <= Len(stream)
        /\ pc' = IF stream[pos + 1] = SOF_RECEIVE THEN "header" ELSE "sof"
        /\ UNCHANGED <<stream, published, short_headers, port_failed>>
    BY <1>1, <1>7, SofStep
  <2>2. CASE Between(i)
    <3>1. pos = Start[i] /\ i \in 1..N
      BY <1>1, <1>7, <2>2, ReadsInFrame DEF Between
    <3>2. stream[Start[i] + 1] = SOF_RECEIVE
      BY <1>2, <1>5, <3>1, IntactFrame
    <3>3. InHeader(i)'
      BY <2>1, <3>1, <3>2 DEF InHeader
    <3> QED
      BY <1>4, <1>6, <2>1, <3>3
  <2>3. CASE InRefused(i)
    <3>1. /\ i \in 1..N /\ Len(Messages[i].payload) > MaxPayload
          /\ Start[i] + 4 <= pos /\ pos < Start[i + 1]
      BY <2>3 DEF InRefused
    <3>2. Start[i] \in Nat /\ Start[i + 1] \in Nat /\ i + 1 \in 1..(N + 1)
      BY <3>1, FrameBounds
    <3>3. pos + 1 \in (Start[i] + 5)..Start[i + 1]
      BY <1>2, <3>1, <3>2
    <3>4. Sent[pos + 1] # SOF_RECEIVE
      BY <3>1, <3>3, MessageFacts DEF RefusedAreQuiet
    <3>5. pc' = "sof"
      BY <1>3, <2>1, <3>4 DEF Undisturbed
    <3>6. CASE pos + 1 < Start[i + 1]
      <4>1. Start[i] + 4 <= pos'
        BY <1>2, <2>1, <3>1, <3>2
      <4>2. InRefused(i)'
        BY <2>1, <3>1, <3>5, <3>6, <4>1 DEF InRefused
      <4> QED
        BY <1>4, <1>6, <2>1, <4>2
    <3>7. CASE pos + 1 = Start[i + 1]
      <4>1. Between(i + 1)'
        BY <2>1, <3>5, <3>7 DEF Between
      <4>2. ~Publishable(i)
        <5>1. Len(Messages[i].payload) \in Nat
          BY <3>1, MessageFacts
        <5> QED
          BY <3>1, <5>1 DEF Publishable, MaxPayload
      <4>3. PICK index \in Deliveries : Ahead(i, index) /\ Missed(i, index) = {}
        BY <1>4 DEF Complete
      <4>4. index \in [DOMAIN index -> 1..N]
        BY <1>1, <4>3, DeliveryFacts DEF Framing
      <4>5. Ahead(i + 1, index) /\ Missed(i + 1, index) = {}
        BY <3>1, <4>2, <4>3, <4>4, PassFrame
      <4>6. Complete(i + 1)
        BY <4>3, <4>5 DEF Complete
      <4> QED
        BY <1>6, <2>1, <3>2, <4>1, <4>6
    <3> QED
      BY <1>2, <3>1, <3>2, <3>6, <3>7
  <2>4. pc # "sof" => FALSE
    BY <2>1
  <2> QED
    BY <1>4, <2>2, <2>3, <2>4 DEF InHeader, InData
<1>8. CASE \E n \in 1..3 : ReadHeader(n)
  <2>1. PICK k \in 1..3 : ReadHeader(k)
    BY <1>8
  <2>2. InHeader(i)
    BY <1>4, <2>1 DEF ReadHeader, Between, InHeader, InData, InRefused
  <2>3. /\ pos' = Start[i] + 1 + k /\ UNCHANGED <<stream, published, port_failed>>
        /\ short_headers' = (IF k < 3 THEN short_headers + 1 ELSE short_headers)
        /\ \/ /\ pc' = "sof"
              /\ k = 3 => Len(Messages[i].payload) > MaxPayload \/ ~Same(stream, i, 4)
           \/ LooksLikeHeader(stream, Start[i] + 1, k) /\ (k = 3 => InData(i)')
    BY <1>1, <2>1, <2>2, HeaderStep
  <2>4. k = 3
    <3>1. short_headers' = 0 /\ short_headers = 0
      BY <1>3 DEF Undisturbed
    <3>2. ~(k < 3)
      BY <2>3, <3>1
    <3> QED
      BY <3>2
  <2>5. InData(i)' \/ (pc' = "sof" /\ Len(Messages[i].payload) > MaxPayload)
    <3>1. Same(stream, i, 4)
      BY <1>5
    <3>2. CASE pc' = "sof" /\ (k = 3 => Len(Messages[i].payload) > MaxPayload \/ ~Same(stream, i, 4))
      BY <2>4, <3>1, <3>2
    <3>3. CASE k = 3 => InData(i)'
      BY <2>4, <3>3
    <3> QED
      BY <2>3, <3>2, <3>3
  <2>6. ASSUME pc' = "sof", Len(Messages[i].payload) > MaxPayload PROVE InRefused(i)'
    <3>1. i \in 1..N
      BY <2>2 DEF InHeader
    <3>2. Start[i] \in Nat /\ Start[i + 1] \in Nat /\ Start[i] + 6 <= Start[i + 1]
      BY <3>1, FrameBounds
    <3>3. Start[i] + 4 <= pos' /\ pos' < Start[i + 1]
      BY <2>3, <2>4, <3>2
    <3> QED
      BY <2>6, <3>1, <3>3 DEF InRefused
  <2> QED
    BY <1>4, <1>6, <2>3, <2>5, <2>6
<1>9. CASE \E n \in 1..(MaxPayload + 2) : ReadData(n) \/ ReadRemain(n)
  <2>1. PICK n \in 1..(MaxPayload + 2) : ReadData(n) \/ ReadRemain(n)
    BY <1>9
  <2>2. InData(i)
    BY <1>4, <2>1 DEF ReadData, ReadRemain, Between, InHeader, InRefused
  <2>3. InData(i)' /\ published' = published
    BY <1>1, <2>1, <2>2, DataStep
  <2> QED
    BY <1>4, <1>6, <2>3
<1>10. CASE Dispatch
  <2>1. InData(i)
    BY <1>4, <1>10 DEF Dispatch, Between, InHeader, InRefused
  <2>2. i \in 1..N /\ Reading(Start[i] + 1, 3)
    BY <2>1 DEF InData
  <2>3. PICK index \in Deliveries : Ahead(i, index) /\ Missed(i, index) = {}
    BY <1>4 DEF Complete
  <2>4. index \in DeliveriesOf(published)
    BY <1>1, <2>3, DeliveryFacts DEF Framing
  <2>5. /\ Between(i + 1)'
        /\ \E next \in DeliveriesOf(published') :
             /\ Ahead(i + 1, next)
             /\ ~Publishable(i) \/ Window(stream, i) = Frame(Messages[i]) =>
                  Missed(i + 1, next) \subseteq Missed(i, index)
    BY <1>1, <1>10, <2>2, <2>3, <2>4, DispatchStep
  <2>6. Window(stream, i) = Frame(Messages[i])
    BY <1>2, <1>5, <2>2, IntactFrame
  <2>7. PICK next \in DeliveriesOf(published') :
          Ahead(i + 1, next) /\ Missed(i + 1, next) = {}
    BY <2>3, <2>5, <2>6
  <2>8. next \in Deliveries'
    BY <2>7 DEF Deliveries, DeliveriesOf
  <2>9. Complete(i + 1)'
    BY <2>7, <2>8 DEF Complete
  <2>10. i + 1 \in 1..(N + 1)
    BY <1>2, <2>2
  <2> QED
    BY <2>5, <2>9, <2>10
<1>11. CASE ReadThrows
  BY <1>11 DEF ReadThrows, Undisturbed
<1>12. CASE UNCHANGED receive_vars
  <2>1. UNCHANGED <<stream, pos, pc, header_frame, data_buf, received_len_sum, remain_len,
                    published, short_headers, port_failed>>
    BY <1>12 DEF receive_vars, frame_vars
  <2>2. Reading(Start[i] + 1, 3)' <=> Reading(Start[i] + 1, 3)
    BY <2>1 DEF Reading, SegmentLength
  <2>3. /\ Between(i)' <=> Between(i)
        /\ InHeader(i)' <=> InHeader(i)
        /\ InRefused(i)' <=> InRefused(i)
        /\ InData(i)' <=> InData(i)
    BY <2>1, <2>2 DEF Between, InHeader, InRefused, InData
  <2> QED
    BY <1>4, <1>6, <2>1, <2>3
<1> QED
  BY <1>7, <1>8, <1>9, <1>10, <1>11, <1>12 DEF ReceiveNext

\* However the reads cut the data segments of an undisturbed stream, every frame the
\* switch publishes is published by the time it has been consumed: for every sequence of
\* messages whose refused frames have no start byte in them.
THEOREM UndisturbedIsLossless ==
  ASSUME RefusedAreQuiet PROVE ReceiveSpec => []SplitReadsLoseNothing
<1>1. ReceiveInit => LosslessInv
  <2> SUFFICES ASSUME ReceiveInit PROVE LosslessInv
    OBVIOUS
  <2>1. Framing /\ pc = "sof" /\ published = <<>> /\ pos = 0
    BY FramingInit DEF ReceiveInit
  <2>2. Start[1] = 0 /\ 1 \in 1..(N + 1)
    BY StartFacts, MessageFacts
  <2>3. Deliveries = DeliveriesOf(<<>>)
    BY <2>1 DEF Deliveries, DeliveriesOf
  <2>4. Complete(1)
    BY <2>3, NoDelivery DEF Complete
  <2>5. Between(1)
    BY <2>1, <2>2 DEF Between
  <2> QED
    BY <2>1, <2>2, <2>4, <2>5 DEF LosslessInv
<1>2. LosslessInv /\ [ReceiveNext]_receive_vars => LosslessInv'
  BY LosslessNext
<1>3. LosslessInv => SplitReadsLoseNothing
  <2> SUFFICES ASSUME LosslessInv, pc = "sof", stream = Sent, short_headers = 0, ~port_failed
               PROVE  \E index \in Deliveries : Lost(index) = {}
    BY DEF SplitReadsLoseNothing
  <2>1. PICK i \in 1..(N + 1) : Complete(i) /\ (Between(i) \/ InRefused(i))
    BY DEF LosslessInv, Undisturbed, InHeader, InData
  <2>2. pos \in Nat
    BY FramingFacts DEF LosslessInv
  <2>3. Start[i] \in Nat
    BY <2>1, StartFacts
  <2>4. Start[i] <= pos /\ (i = N + 1 \/ pos < Start[i + 1])
    <3>1. CASE Between(i)
      <4>1. pos = Start[i]
        BY <3>1 DEF Between
      <4>2. ASSUME i # N + 1 PROVE pos < Start[i + 1]
        <5>1. i \in 1..N
          BY <2>1, <4>2, MessageFacts
        <5>2. Start[i] + 6 <= Start[i + 1] /\ Start[i + 1] \in Nat
          BY <5>1, StartOrder, <2>1
        <5> QED
          BY <2>3, <4>1, <5>2
      <4> QED
        BY <2>3, <4>1, <4>2
    <3>2. CASE InRefused(i)
      <4>1. Start[i] + 4 <= pos /\ pos < Start[i + 1]
        BY <3>2 DEF InRefused
      <4> QED
        BY <2>2, <2>3, <4>1
    <3> QED
      BY <2>1, <3>1, <3>2
  <2>5. PICK index \in Deliveries : Missed(i, index) = {}
    BY <2>1 DEF Complete
  <2>6. Lost(index) = Missed(i, index)
    BY <2>1, <2>2, <2>4, ConsumedFacts
  <2> QED
    BY <2>5, <2>6
<1> QED
  BY <1>1, <1>2, <1>3, PTL DEF ReceiveSpec

-----------------------------------------------------------------------------
(* A disturbance costs one frame *)

Noise(p) == IF \E q \in 1..p : stream[q] # Sent[q] THEN 1 ELSE 0

\* At most c of the frames before frame i are missing.
AccountedBy(pub, i, c) ==
  \E index \in DeliveriesOf(pub) : Ahead(i, index) /\ Cardinality(Missed(i, index)) <= c

Accounted(i) == AccountedBy(published, i, short_headers + Noise(Start[i]))

InStep(i) == Between(i) \/ InHeader(i) \/ InData(i)

\* Between two frames the reader is back in step: it has left the header of frame i, or
\* has not seen it, and looks for a start byte in the rest of the frame.
Hunting(i) == i \in 1..N /\ pc = "sof" /\ Start[i] < pos /\ pos < Start[i + 1]
InFalseHeader(i) ==
  i \in 1..N /\ pc = "header" /\ Start[i] + 1 < pos /\ pos + 3 <= Start[i + 1]

\* Inductive: in step, the disturbances so far account for what is missing; out of step,
\* they also account for the frame that is being lost.
CostInv ==
  /\ Framing
  /\ ~port_failed => \E i \in 1..(N + 1) :
       \/ Accounted(i) /\ InStep(i)
       \/ Accounted(i + 1) /\ (Hunting(i) \/ InFalseHeader(i))

\* At most one byte is wrong: a frame that it hits is the first and the last one hit.
LEMMA NoiseFacts ==
  ASSUME stream \in Streams, NEW i \in 1..N
  PROVE  /\ Noise(Start[i]) \in 0..1 /\ Noise(Start[i + 1]) \in 0..1
         /\ Noise(Start[i]) <= Noise(Start[i + 1])
         /\ \A n \in 1..FrameLength(Messages[i]) :
              ~Same(stream, i, n) => Noise(Start[i]) = 0 /\ Noise(Start[i + 1]) = 1
<1>1. /\ Start[i] \in Nat /\ Start[i + 1] \in Nat /\ Start[N + 1] \in Nat
      /\ Start[i] + 6 <= Start[i + 1] /\ Start[i + 1] <= Start[N + 1]
  BY FrameBounds
<1>2. PICK d : \A q \in 1..Start[N + 1] : q # d => stream[q] = Sent[q]
  BY StreamFacts
<1>3. Start[i + 1] = Start[i] + FrameLength(Messages[i]) /\ FrameLength(Messages[i]) \in Nat
  BY StartFacts, MessageFacts
<1>4. (1..Start[i]) \subseteq (1..Start[i + 1])
  BY <1>1
<1>5. Noise(Start[i]) <= Noise(Start[i + 1])
  BY <1>4 DEF Noise
<1>6. ASSUME NEW n \in 1..FrameLength(Messages[i]), ~Same(stream, i, n)
      PROVE  Noise(Start[i]) = 0 /\ Noise(Start[i + 1]) = 1
  <2>1. PICK q \in 1..n : stream[Start[i] + q] # Sent[Start[i] + q]
    BY <1>6 DEF Same
  <2>2. /\ Start[i] + q \in 1..Start[i + 1] /\ Start[i] + q \in 1..Start[N + 1]
        /\ \A r \in 1..Start[i] : r \in 1..Start[N + 1] /\ r # Start[i] + q
    BY <1>1, <1>3
  <2>3. d = Start[i] + q
    BY <1>2, <2>1, <2>2
  <2>4. \A r \in 1..Start[i] : stream[r] = Sent[r]
    BY <1>2, <2>2, <2>3
  <2> QED
    BY <2>1, <2>2, <2>4 DEF Noise
<1> QED
  BY <1>5, <1>6 DEF Noise

LEMMA MissedIsFinite ==
  ASSUME NEW i \in 1..(N + 1), NEW index
  PROVE  IsFiniteSet(Missed(i, index)) /\ IsFiniteSet(Missed(i + 1, index))
<1>1. i \in Int /\ i - 1 \in Int /\ 1 \in Int /\ i + 1 - 1 = i
  BY MessageFacts
<1>2. IsFiniteSet(1..(i - 1)) /\ IsFiniteSet(1..i)
  BY <1>1, FS_Interval
<1>3. Missed(i, index) \subseteq 1..(i - 1) /\ Missed(i + 1, index) \subseteq 1..i
  BY <1>1 DEF Missed
<1> QED
  BY <1>2, <1>3, FS_Subset

LEMMA MissedCosts ==
  ASSUME NEW i \in 1..N, NEW index, NEW next
  PROVE  /\ Cardinality(Missed(i, index)) \in Nat
         /\ Cardinality(Missed(i + 1, index)) \in Nat
         /\ Missed(i + 1, next) \subseteq Missed(i, index) =>
              Cardinality(Missed(i + 1, next)) <= Cardinality(Missed(i, index))
         /\ Missed(i + 1, next) \subseteq Missed(i, index) \cup {i} =>
              Cardinality(Missed(i + 1, next)) <= Cardinality(Missed(i, index)) + 1
<1> DEFINE old == Missed(i, index)
           new == Missed(i + 1, next)
<1>1. i \in 1..(N + 1)
  BY MessageFacts
<1>2. IsFiniteSet(old) /\ IsFiniteSet(Missed(i + 1, index))
  BY <1>1, MissedIsFinite
<1> HIDE DEF old, new
<1>3. Cardinality(old) \in Nat /\ Cardinality(Missed(i + 1, index)) \in Nat
  BY <1>2, FS_CardinalityType
<1>4. new \subseteq old => Cardinality(new) <= Cardinality(old)
  BY <1>2, FS_Subset
<1>5. ASSUME new \subseteq old \cup {i} PROVE Cardinality(new) <= Cardinality(old) + 1
  <2>1. IsFiniteSet(old \cup {i}) /\ Cardinality(old \cup {i}) <= Cardinality(old) + 1
    <3>1. /\ IsFiniteSet(old \cup {i})
          /\ Cardinality(old \cup {i}) = IF i \in old THEN Cardinality(old) ELSE Cardinality(old) + 1
      BY <1>2, FS_AddElement
    <3> QED
      BY <1>3, <3>1
  <2>2. IsFiniteSet(new) /\ Cardinality(new) <= Cardinality(old \cup {i})
    BY <1>5, <2>1, FS_Subset
  <2>3. Cardinality(new) \in Nat /\ Cardinality(old \cup {i}) \in Nat
    BY <2>1, <2>2, FS_CardinalityType
  <2> QED
    BY <1>3, <2>1, <2>2, <2>3
<1> QED
  BY <1>3, <1>4, <1>5 DEF old, new

\* Frame i goes by unpublished: nothing is missing that should be there, or one frame is.
LEMMA AccountsPass ==
  ASSUME ReceiveTypeOK, NEW i \in 1..N, NEW c \in Nat, NEW d \in Nat,
         AccountedBy(published, i, c), (~Publishable(i) /\ c <= d) \/ c + 1 <= d
  PROVE  AccountedBy(published, i + 1, d)
<1>1. PICK index \in DeliveriesOf(published) :
        Ahead(i, index) /\ Cardinality(Missed(i, index)) <= c
  BY DEF AccountedBy
<1>2. index \in [DOMAIN index -> 1..N]
  BY <1>1, DeliveryFacts
<1>3. /\ Ahead(i + 1, index)
      /\ Missed(i + 1, index) \subseteq Missed(i, index) \cup {i}
      /\ ~Publishable(i) => Missed(i + 1, index) \subseteq Missed(i, index)
  BY <1>1, <1>2, PassFrame
<1>4. /\ Cardinality(Missed(i, index)) \in Nat /\ Cardinality(Missed(i + 1, index)) \in Nat
      /\ Cardinality(Missed(i + 1, index)) <= Cardinality(Missed(i, index)) + 1
      /\ ~Publishable(i) => Cardinality(Missed(i + 1, index)) <= Cardinality(Missed(i, index))
  BY <1>3, MissedCosts
<1>5. Cardinality(Missed(i + 1, index)) <= d
  BY <1>1, <1>4
<1> QED
  BY <1>1, <1>3, <1>5 DEF AccountedBy

\* No frame begins inside another.
LEMMA NoFrameInside ==
  ASSUME NEW i \in 1..N, NEW j \in 1..N
  PROVE  ~(Start[i] < Start[j] /\ Start[j] < Start[i + 1])
<1>1. /\ Start[i] \in Nat /\ Start[i + 1] \in Nat /\ Start[j] \in Nat /\ Start[j + 1] \in Nat
      /\ i \in 1..(N + 1) /\ j \in 1..(N + 1) /\ Start[j] + 6 <= Start[j + 1]
  BY FrameBounds
<1>2. Start[i + 1] <= Start[j] <=> i < j
  BY <1>1, StartOrder
<1>3. Start[j + 1] <= Start[i] <=> j < i
  BY <1>1, StartOrder
<1>4. i < j \/ j < i \/ i = j
  BY MessageFacts
<1> QED
  BY <1>1, <1>2, <1>3, <1>4

\* The start of a frame, missed or believed: the steps that look for it.
LEMMA CostSof ==
  ASSUME StartBytesInside, CostInv, ReadSof, ~port_failed, NEW i \in 1..(N + 1),
         \/ Accounted(i) /\ InStep(i)
         \/ Accounted(i + 1) /\ (Hunting(i) \/ InFalseHeader(i))
  PROVE  \E j \in 1..(N + 1) :
           \/ Accounted(j)' /\ InStep(j)'
           \/ Accounted(j + 1)' /\ (Hunting(j)' \/ InFalseHeader(j)')
<1>1. /\ pc = "sof" /\ pos' = pos + 1 /\ pos + 1 <= Len(stream)
      /\ pc' = IF stream[pos + 1] = SOF_RECEIVE THEN "header" ELSE "sof"
      /\ UNCHANGED <<stream, published, short_headers, port_failed>>
  BY SofStep DEF CostInv
<1>2. Framing /\ ReceiveTypeOK /\ stream \in Streams /\ pos \in Nat /\ short_headers \in Nat
  BY FramingFacts DEF CostInv, Framing
<1>3. \A j : Accounted(j)' <=> Accounted(j)
  BY <1>1 DEF Accounted, AccountedBy, Noise
<1>4. CASE Accounted(i) /\ Between(i)
  <2>1. pos = Start[i] /\ i \in 1..N
    BY <1>2, <1>4, ReadsInFrame DEF Between
  <2>2. /\ Start[i] \in Nat /\ Start[i + 1] \in Nat /\ Start[i] + 6 <= Start[i + 1]
        /\ i \in 1..(N + 1)
    BY <2>1, FrameBounds
  <2>3. CASE stream[pos + 1] = SOF_RECEIVE
    <3>1. InHeader(i)'
      BY <1>1, <2>1, <2>3 DEF InHeader
    <3> QED
      BY <1>3, <1>4, <2>2, <3>1 DEF InStep
  <2>4. CASE stream[pos + 1] # SOF_RECEIVE
    <3>1. ~Same(stream, i, 1)
      BY <1>2, <2>1, <2>4, IntactFrame
    <3>2. 1 \in 1..FrameLength(Messages[i])
      BY <2>1, MessageFacts
    <3>3. Noise(Start[i]) = 0 /\ Noise(Start[i + 1]) = 1
      BY <1>2, <2>1, <3>1, <3>2, NoiseFacts
    <3>4. AccountedBy(published, i, short_headers)
      BY <1>2, <1>4, <3>3 DEF Accounted
    <3>5. AccountedBy(published, i + 1, short_headers + 1)
      BY <1>2, <2>1, <3>4, AccountsPass
    <3>6. Accounted(i + 1)
      BY <3>3, <3>5 DEF Accounted
    <3>7. Start[i] < pos' /\ pos' < Start[i + 1]
      BY <1>1, <2>1, <2>2
    <3>8. Hunting(i)'
      BY <1>1, <2>1, <2>4, <3>7 DEF Hunting
    <3> QED
      BY <1>3, <2>2, <3>6, <3>8
  <2> QED
    BY <2>3, <2>4
<1>5. CASE Accounted(i + 1) /\ Hunting(i)
  <2>1. i \in 1..N /\ Start[i] < pos /\ pos < Start[i + 1]
    BY <1>5 DEF Hunting
  <2>2. Start[i] \in Nat /\ Start[i + 1] \in Nat /\ i + 1 \in 1..(N + 1) /\ i \in 1..(N + 1)
    BY <2>1, FrameBounds
  <2>3. CASE stream[pos + 1] = SOF_RECEIVE
    <3>1. pos + 1 \notin (Start[i + 1] - 2)..Start[i + 1]
      BY <1>2, <2>1, <2>3, MessageFacts DEF StartBytesInside
    <3>2. Start[i] + 1 < pos' /\ pos' + 3 <= Start[i + 1]
      <4>1. pos' = pos + 1
        BY <1>1
      <4>2. ~(Start[i + 1] - 2 <= pos + 1 /\ pos + 1 <= Start[i + 1])
        BY <1>2, <2>2, <3>1
      <4> QED
        BY <1>2, <2>1, <2>2, <4>1, <4>2
    <3>3. InFalseHeader(i)'
      BY <1>1, <2>1, <2>3, <3>2 DEF InFalseHeader
    <3> QED
      BY <1>3, <1>5, <2>2, <3>3
  <2>4. CASE stream[pos + 1] # SOF_RECEIVE
    <3>1. CASE pos + 1 < Start[i + 1]
      <4>1. Start[i] < pos' /\ pos' < Start[i + 1]
        BY <1>1, <1>2, <2>1, <2>2, <3>1
      <4>2. Hunting(i)'
        BY <1>1, <2>1, <2>4, <4>1 DEF Hunting
      <4> QED
        BY <1>3, <1>5, <2>2, <4>2
    <3>2. CASE pos + 1 = Start[i + 1]
      <4>1. Between(i + 1)'
        BY <1>1, <2>4, <3>2 DEF Between
      <4> QED
        BY <1>3, <1>5, <2>2, <4>1 DEF InStep
    <3> QED
      BY <1>2, <2>1, <2>2, <3>1, <3>2
  <2> QED
    BY <2>3, <2>4
<1> QED
  BY <1>1, <1>4, <1>5 DEF InStep, InHeader, InData, InFalseHeader

\* A header, read in its place or where none is.
LEMMA CostHeader ==
  ASSUME NoFalseHeader, CostInv, NEW k \in 1..3, ReadHeader(k), ~port_failed,
         NEW i \in 1..(N + 1),
         \/ Accounted(i) /\ InStep(i)
         \/ Accounted(i + 1) /\ (Hunting(i) \/ InFalseHeader(i))
  PROVE  \E j \in 1..(N + 1) :
           \/ Accounted(j)' /\ InStep(j)'
           \/ Accounted(j + 1)' /\ (Hunting(j)' \/ InFalseHeader(j)')
<1>1. pc = "header"
  BY DEF ReadHeader
<1>2. /\ Framing /\ ReceiveTypeOK /\ stream \in Streams /\ stream \in Seq(Bytes)
      /\ pos \in Nat /\ short_headers \in Nat
  BY FramingFacts DEF CostInv, Framing
<1>3. ASSUME NEW p \in Nat, 1 <= p, p <= Len(stream), LooksLikeHeader(stream, p, k)
      PROVE  k = 3 /\ \E j \in 1..N : p = Start[j] + 1
  <2>1. p \in DOMAIN stream
    BY <1>2, <1>3
  <2> QED
    BY <1>2, <1>3, <2>1, MessageFacts DEF NoFalseHeader, InPlace
<1>4. CASE Accounted(i) /\ InHeader(i)
  <2>1. /\ pos' = Start[i] + 1 + k /\ UNCHANGED <<stream, published, port_failed>>
        /\ short_headers' = (IF k < 3 THEN short_headers + 1 ELSE short_headers)
        /\ \/ /\ pc' = "sof"
              /\ k = 3 => Len(Messages[i].payload) > MaxPayload \/ ~Same(stream, i, 4)
           \/ LooksLikeHeader(stream, Start[i] + 1, k) /\ (k = 3 => InData(i)')
    BY <1>2, <1>4, HeaderStep
  <2>2. i \in 1..N
    BY <1>4 DEF InHeader
  <2>3. /\ Start[i] \in Nat /\ Start[i + 1] \in Nat /\ Start[i] + 6 <= Start[i + 1]
        /\ i \in 1..(N + 1) /\ i + 1 \in 1..(N + 1)
    BY <2>2, FrameBounds
  <2>4. CASE LooksLikeHeader(stream, Start[i] + 1, k) /\ (k = 3 => InData(i)')
    <3>1. Start[i] + 1 \in Nat /\ 1 <= Start[i] + 1 /\ Start[i] + 1 <= Len(stream)
      <4>1. pos = Start[i] + 1 /\ pos <= Len(stream)
        BY <1>2, <1>4, FramingFacts DEF InHeader
      <4>2. Start[i] + 1 \in Nat /\ 1 <= Start[i] + 1
        BY <2>3
      <4> QED
        BY <4>1, <4>2
    <3>2. k = 3
      BY <1>3, <2>4, <3>1
    <3>3. Accounted(i)' <=> Accounted(i)
      BY <2>1, <3>2 DEF Accounted, AccountedBy, Noise
    <3> QED
      BY <1>4, <2>3, <2>4, <3>2, <3>3 DEF InStep
  <2>5. ASSUME pc' = "sof",
               k = 3 => Len(Messages[i].payload) > MaxPayload \/ ~Same(stream, i, 4)
        PROVE  Hunting(i)' /\ Accounted(i + 1)'
    <3>1. Hunting(i)'
      <4>1. pos' = Start[i] + 1 + k
        BY <2>1
      <4>2. Start[i] < pos' /\ pos' < Start[i + 1]
        BY <2>3, <4>1
      <4> QED
        BY <2>2, <2>5, <4>2 DEF Hunting
    <3>2. /\ Noise(Start[i]) \in 0..1 /\ Noise(Start[i + 1]) \in 0..1
          /\ Noise(Start[i]) <= Noise(Start[i + 1])
      BY <1>2, <2>2, NoiseFacts
    <3> DEFINE c == short_headers + Noise(Start[i])
               d == short_headers' + Noise(Start[i + 1])
    <3>3. c \in Nat /\ d \in Nat /\ c <= d /\ (k < 3 => c + 1 <= d)
      <4>1. short_headers' = (IF k < 3 THEN short_headers + 1 ELSE short_headers)
        BY <2>1
      <4>2. short_headers \in Nat
        BY <1>2
      <4>3. CASE k < 3
        BY <3>2, <4>1, <4>2, <4>3
      <4>4. CASE ~(k < 3)
        BY <3>2, <4>1, <4>2, <4>4
      <4> QED
        BY <4>3, <4>4
    <3>4. (~Publishable(i) /\ c <= d) \/ c + 1 <= d
      <4>1. CASE k < 3
        BY <3>3, <4>1
      <4>2. CASE k = 3 /\ Len(Messages[i].payload) > MaxPayload
        <5>1. Len(Messages[i].payload) \in Nat
          BY <2>2, MessageFacts
        <5>2. ~Publishable(i)
          BY <4>2, <5>1 DEF Publishable, MaxPayload
        <5> QED
          BY <3>3, <5>2
      <4>3. CASE k = 3 /\ ~Same(stream, i, 4)
        <5>1. 4 \in 1..FrameLength(Messages[i])
          BY <2>2, MessageFacts
        <5>2. Noise(Start[i]) = 0 /\ Noise(Start[i + 1]) = 1
          BY <1>2, <2>2, <4>3, <5>1, NoiseFacts
        <5> QED
          BY <1>2, <2>1, <4>3, <5>2
      <4> QED
        BY <2>5, <4>1, <4>2, <4>3
    <3>5. AccountedBy(published, i, c)
      BY <1>4 DEF Accounted
    <3> HIDE DEF c, d
    <3>6. AccountedBy(published, i + 1, d)
      BY <1>2, <2>2, <3>3, <3>4, <3>5, AccountsPass
    <3>7. published' = published /\ d = short_headers' + Noise(Start[i + 1])'
      BY <2>1 DEF d, Noise
    <3>8. Accounted(i + 1)'
      BY <3>6, <3>7 DEF Accounted, AccountedBy
    <3> QED
      BY <3>1, <3>8
  <2> QED
    BY <2>1, <2>3, <2>4, <2>5
<1>5. CASE Accounted(i + 1) /\ InFalseHeader(i)
  <2>1. i \in 1..N /\ Start[i] + 1 < pos /\ pos + 3 <= Start[i + 1]
    BY <1>5 DEF InFalseHeader
  <2>2. Start[i] \in Nat /\ Start[i + 1] \in Nat /\ i + 1 \in 1..(N + 1) /\ i \in 1..(N + 1)
    BY <2>1, FrameBounds
  <2>3. PICK p : p = pos
    OBVIOUS
  <2>4. /\ pos \in 1..Len(stream) /\ pos' = pos + k
        /\ UNCHANGED <<stream, published, port_failed>>
        /\ short_headers' = (IF k < 3 THEN short_headers + 1 ELSE short_headers)
        /\ pc' = "sof" \/ LooksLikeHeader(stream, p, k)
    BY <1>2, <2>3, ReadHeaderStep
  <2>5. pc' = "sof"
    <3> SUFFICES ASSUME LooksLikeHeader(stream, p, k) PROVE FALSE
      BY <2>4
    <3>1. p \in Nat /\ 1 <= p /\ p <= Len(stream)
      BY <1>2, <2>3, <2>4
    <3>2. PICK j \in 1..N : p = Start[j] + 1
      BY <1>3, <3>1
    <3>3. Start[j] \in Nat
      BY <3>2, FrameBounds
    <3>4. Start[i] < Start[j] /\ Start[j] < Start[i + 1]
      BY <2>1, <2>2, <2>3, <3>2, <3>3
    <3> QED
      BY <2>1, <3>2, <3>4, NoFrameInside
  <2>6. Accounted(i + 1)'
    <3>1. PICK index \in DeliveriesOf(published) :
            /\ Ahead(i + 1, index)
            /\ Cardinality(Missed(i + 1, index)) <= short_headers + Noise(Start[i + 1])
      BY <1>5 DEF Accounted, AccountedBy
    <3>2. /\ Cardinality(Missed(i + 1, index)) \in Nat /\ Noise(Start[i + 1]) \in 0..1
          /\ short_headers' \in Nat /\ short_headers <= short_headers'
      BY <1>2, <2>1, <2>4, MissedCosts, NoiseFacts
    <3>3. Cardinality(Missed(i + 1, index)) <= short_headers' + Noise(Start[i + 1])
      BY <1>2, <3>1, <3>2
    <3>4. published' = published /\ Noise(Start[i + 1])' = Noise(Start[i + 1])
      BY <2>4 DEF Noise
    <3> QED
      BY <3>1, <3>3, <3>4 DEF Accounted, AccountedBy
  <2>7. CASE pos + k < Start[i + 1]
    <3>1. pos' = pos + k
      BY <2>4
    <3>2. Start[i] < pos' /\ pos' < Start[i + 1]
      <4>1. pos \in Nat /\ k \in Nat /\ k >= 1
        BY <1>2
      <4> QED
        BY <2>1, <2>2, <2>7, <3>1, <4>1
    <3>3. Hunting(i)'
      BY <2>1, <2>5, <3>2 DEF Hunting
    <3> QED
      BY <2>2, <2>6, <3>3
  <2>8. CASE pos + k = Start[i + 1]
    <3>1. Between(i + 1)'
      BY <2>4, <2>5, <2>8 DEF Between
    <3> QED
      BY <2>2, <2>6, <3>1 DEF InStep
  <2>9. pos + k <= Start[i + 1]
    BY <1>2, <2>1, <2>2
  <2> QED
    BY <1>2, <2>2, <2>7, <2>8, <2>9
<1> QED
  BY <1>1, <1>4, <1>5 DEF InStep, Between, InData, Hunting

LEMMA CostDispatch ==
  ASSUME CostInv, Dispatch, ~port_failed, NEW i \in 1..(N + 1), Accounted(i), InStep(i)
  PROVE  i + 1 \in 1..(N + 1) /\ Accounted(i + 1)' /\ Between(i + 1)'
<1>1. Framing /\ ReceiveTypeOK /\ stream \in Streams /\ short_headers \in Nat
  BY FramingFacts DEF CostInv, Framing
<1>2. i \in 1..N /\ Reading(Start[i] + 1, 3)
  BY DEF Dispatch, InStep, InData, InHeader, Between
<1>3. PICK index \in DeliveriesOf(published) :
        /\ Ahead(i, index)
        /\ Cardinality(Missed(i, index)) <= short_headers + Noise(Start[i])
  BY DEF Accounted, AccountedBy
<1>4. /\ Between(i + 1)' /\ UNCHANGED <<stream, short_headers, port_failed>>
      /\ \E next \in DeliveriesOf(published') :
           /\ Ahead(i + 1, next)
           /\ Missed(i + 1, next) \subseteq Missed(i, index) \cup {i}
           /\ ~Publishable(i) \/ Window(stream, i) = Frame(Messages[i]) =>
                Missed(i + 1, next) \subseteq Missed(i, index)
  BY <1>1, <1>2, <1>3, DispatchStep
<1>5. PICK next \in DeliveriesOf(published') :
        /\ Ahead(i + 1, next)
        /\ Missed(i + 1, next) \subseteq Missed(i, index) \cup {i}
        /\ Window(stream, i) = Frame(Messages[i]) => Missed(i + 1, next) \subseteq Missed(i, index)
  BY <1>4
<1>6. /\ Noise(Start[i]) \in 0..1 /\ Noise(Start[i + 1]) \in 0..1
      /\ Noise(Start[i]) <= Noise(Start[i + 1])
  BY <1>1, <1>2, NoiseFacts
<1>7. Cardinality(Missed(i, index)) \in Nat /\ Cardinality(Missed(i + 1, next)) \in Nat
  BY <1>2, MissedCosts
<1>8. Cardinality(Missed(i + 1, next)) <= short_headers + Noise(Start[i + 1])
  <2>1. CASE Window(stream, i) = Frame(Messages[i])
    <3>1. Cardinality(Missed(i + 1, next)) <= Cardinality(Missed(i, index))
      BY <1>2, <1>5, <2>1, MissedCosts
    <3> QED
      BY <1>1, <1>3, <1>6, <1>7, <3>1
  <2>2. CASE Window(stream, i) # Frame(Messages[i])
    <3>1. ~Same(stream, i, FrameLength(Messages[i]))
      BY <1>1, <1>2, <2>2, IntactFrame
    <3>2. FrameLength(Messages[i]) \in 1..FrameLength(Messages[i])
      BY <1>2, MessageFacts
    <3>3. Noise(Start[i]) = 0 /\ Noise(Start[i + 1]) = 1
      BY <1>1, <1>2, <3>1, <3>2, NoiseFacts
    <3>4. Cardinality(Missed(i + 1, next)) <= Cardinality(Missed(i, index)) + 1
      BY <1>2, <1>5, MissedCosts
    <3> QED
      BY <1>1, <1>3, <1>7, <3>3, <3>4
  <2> QED
    BY <2>1, <2>2
<1>9. short_headers' = short_headers /\ Noise(Start[i + 1])' = Noise(Start[i + 1])
  BY <1>4 DEF Noise
<1>10. Accounted(i + 1)'
  BY <1>5, <1>8, <1>9 DEF Accounted, AccountedBy
<1> QED
  BY <1>2, <1>4, <1>10, FrameBounds

LEMMA CostNext ==
  ASSUME NoFalseHeader, StartBytesInside, CostInv, [ReceiveNext]_receive_vars PROVE CostInv'
<1>1. Framing /\ Framing'
  BY FramingNext DEF CostInv
<1> SUFFICES ASSUME ~port_failed'
             PROVE  \E j \in 1..(N + 1) :
                      \/ Accounted(j)' /\ InStep(j)'
                      \/ Accounted(j + 1)' /\ (Hunting(j)' \/ InFalseHeader(j)')
  BY <1>1 DEF CostInv
<1>2. ~port_failed
  BY DEF ReceiveNext, ReadSof, ReadHeader, ReadData, ReadRemain, Dispatch, ReadThrows,
         receive_vars
<1>3. PICK i \in 1..(N + 1) :
        \/ Accounted(i) /\ InStep(i)
        \/ Accounted(i + 1) /\ (Hunting(i) \/ InFalseHeader(i))
  BY <1>2 DEF CostInv
<1>4. CASE ReadSof
  BY <1>2, <1>3, <1>4, CostSof
<1>5. CASE \E k \in 1..3 : ReadHeader(k)
  BY <1>2, <1>3, <1>5, CostHeader
<1>6. CASE \E n \in 1..(MaxPayload + 2) : ReadData(n) \/ ReadRemain(n)
  <2>1. PICK n \in 1..(MaxPayload + 2) : ReadData(n) \/ ReadRemain(n)
    BY <1>6
  <2>2. Accounted(i) /\ InData(i)
    BY <1>3, <2>1 DEF ReadData, ReadRemain, InStep, Between, InHeader, Hunting, InFalseHeader
  <2>3. InData(i)' /\ UNCHANGED <<stream, published, short_headers, port_failed>>
    BY <1>1, <2>1, <2>2, DataStep
  <2>4. Accounted(i)'
    BY <2>2, <2>3 DEF Accounted, AccountedBy, Noise
  <2> QED
    BY <2>3, <2>4 DEF InStep
<1>7. CASE Dispatch
  <2>1. Accounted(i) /\ InStep(i)
    BY <1>3, <1>7 DEF Dispatch, Hunting, InFalseHeader
  <2> QED
    BY <1>2, <1>7, <2>1, CostDispatch DEF InStep
<1>8. CASE ReadThrows
  BY <1>8 DEF ReadThrows
<1>9. CASE UNCHANGED receive_vars
  <2>1. UNCHANGED <<stream, pos, pc, header_frame, data_buf, received_len_sum, remain_len,
                    published, short_headers, port_failed>>
    BY <1>9 DEF receive_vars, frame_vars
  <2>2. Reading(Start[i] + 1, 3)' <=> Reading(Start[i] + 1, 3)
    BY <2>1 DEF Reading, SegmentLength
  <2>3. InStep(i)' <=> InStep(i)
    BY <2>1, <2>2 DEF InStep, Between, InHeader, InData
  <2>4. (Hunting(i)' <=> Hunting(i)) /\ (InFalseHeader(i)' <=> InFalseHeader(i))
    BY <2>1 DEF Hunting, InFalseHeader
  <2>5. (Accounted(i)' <=> Accounted(i)) /\ (Accounted(i + 1)' <=> Accounted(i + 1))
    BY <2>1 DEF Accounted, AccountedBy, Noise
  <2> QED
    BY <1>3, <2>3, <2>4, <2>5
<1> QED
  BY <1>4, <1>5, <1>6, <1>7, <1>8, <1>9 DEF ReceiveNext

\* Each short header read and each corrupted byte costs at most one frame, as long as the
\* port does not fail: for every sequence of messages in which no header is made up by
\* accident and no start byte comes within the last three bytes of a frame.
THEOREM DisturbanceIsBounded ==
  ASSUME NoFalseHeader, StartBytesInside PROVE ReceiveSpec => []DisturbanceCostsOneFrame
<1>1. ReceiveInit => CostInv
  <2> SUFFICES ASSUME ReceiveInit PROVE CostInv
    OBVIOUS
  <2>1. /\ Framing /\ pc = "sof" /\ published = <<>> /\ pos = 0 /\ short_headers = 0
        /\ ~port_failed
    BY FramingInit DEF ReceiveInit
  <2>2. Start[1] = 0 /\ 1 \in 1..(N + 1)
    BY StartFacts, MessageFacts
  <2>3. Noise(Start[1]) = 0
    BY <2>2 DEF Noise
  <2>4. Cardinality(Missed(1, <<>>)) <= 0
    BY NoDelivery, FS_EmptySet
  <2>5. Accounted(1)
    BY <2>1, <2>3, <2>4, NoDelivery DEF Accounted, AccountedBy
  <2>6. InStep(1)
    BY <2>1, <2>2 DEF InStep, Between
  <2> QED
    BY <2>1, <2>2, <2>5, <2>6 DEF CostInv
<1>2. CostInv /\ [ReceiveNext]_receive_vars => CostInv'
  BY CostNext
<1>3. CostInv => DisturbanceCostsOneFrame
  <2> SUFFICES ASSUME CostInv, pc = "sof", ~port_failed
               PROVE  \E index \in Deliveries :
                        Cardinality(Lost(index)) <= short_headers + (IF stream = Sent THEN 0 ELSE 1)
    BY DEF DisturbanceCostsOneFrame
  <2>1. /\ Framing /\ ReceiveTypeOK /\ stream \in Streams /\ pos \in Nat
        /\ short_headers \in Nat
    BY FramingFacts DEF CostInv, Framing
  <2>2. PICK i \in 1..(N + 1) :
          (Accounted(i) /\ Between(i)) \/ (Accounted(i + 1) /\ Hunting(i))
    BY DEF CostInv, InStep, InHeader, InData, InFalseHeader
  <2> DEFINE noise == IF stream = Sent THEN 0 ELSE 1
  <2>3. \A p : Noise(p) \in 0..1 /\ Noise(p) <= noise
    BY DEF Noise
  <2>4. Start[i] \in Nat
    BY StartFacts
  <2> HIDE DEF noise
  <2>5. CASE Accounted(i) /\ Between(i)
    <3>1. PICK index \in DeliveriesOf(published) :
            Cardinality(Missed(i, index)) <= short_headers + Noise(Start[i])
      BY <2>5 DEF Accounted, AccountedBy
    <3>2. Start[i] <= pos /\ (i = N + 1 \/ pos < Start[i + 1])
      <4>1. pos = Start[i]
        BY <2>5 DEF Between
      <4>2. ASSUME i # N + 1 PROVE pos < Start[i + 1]
        <5>1. i \in 1..N
          BY <4>2, MessageFacts
        <5>2. Start[i] + 6 <= Start[i + 1] /\ Start[i + 1] \in Nat
          BY <5>1, FrameBounds
        <5> QED
          BY <2>4, <4>1, <5>2
      <4> QED
        BY <2>4, <4>1, <4>2
    <3>3. Lost(index) = Missed(i, index)
      BY <2>1, <3>2, ConsumedFacts
    <3>4. Cardinality(Missed(i, index)) \in Nat
      BY MissedIsFinite, FS_CardinalityType
    <3>5. Cardinality(Lost(index)) <= short_headers + noise
      <4>1. short_headers \in Nat /\ noise \in 0..1
        BY <2>1 DEF noise
      <4>2. Noise(Start[i]) \in 0..1 /\ Noise(Start[i]) <= noise
        BY <2>3
      <4> QED
        BY <3>1, <3>3, <3>4, <4>1, <4>2
    <3> QED
      BY <2>1, <3>5, DeliveryFacts DEF noise
  <2>6. CASE Accounted(i + 1) /\ Hunting(i)
    <3>1. PICK index \in DeliveriesOf(published) :
            Cardinality(Missed(i + 1, index)) <= short_headers + Noise(Start[i + 1])
      BY <2>6 DEF Accounted, AccountedBy
    <3>2. i \in 1..N /\ Start[i] < pos /\ pos < Start[i + 1]
      BY <2>6 DEF Hunting
    <3>3. Start[i] <= pos
      BY <2>1, <2>4, <3>2
    <3>4. Lost(index) = Missed(i, index)
      BY <2>1, <3>2, <3>3, ConsumedFacts
    <3>5. Missed(i, index) \subseteq Missed(i + 1, index)
      BY <3>2 DEF Missed
    <3>6. /\ Cardinality(Missed(i, index)) <= Cardinality(Missed(i + 1, index))
          /\ Cardinality(Missed(i, index)) \in Nat /\ Cardinality(Missed(i + 1, index)) \in Nat
      <4>1. IsFiniteSet(Missed(i, index)) /\ IsFiniteSet(Missed(i + 1, index))
        BY MissedIsFinite
      <4> QED
        BY <3>5, <4>1, FS_Subset, FS_CardinalityType
    <3>7. Cardinality(Lost(index)) <= short_headers + noise
      <4>1. short_headers \in Nat /\ noise \in 0..1
        BY <2>1 DEF noise
      <4>2. Noise(Start[i + 1]) \in 0..1 /\ Noise(Start[i + 1]) <= noise
        BY <2>3
      <4> QED
        BY <3>1, <3>4, <3>6, <4>1, <4>2
    <3> QED
      BY <2>1, <3>7, DeliveryFacts DEF noise
  <2> QED
    BY <2>2, <2>5, <2>6
<1> QED
  BY <1>1, <1>2, <1>3, PTL DEF ReceiveSpec
=============================================================================
