--------------------------- MODULE ChecksumsProofs --------------------------
(***************************************************************************)
(* What the checksums of crc8_crc16.cpp detect and what they do not see,   *)
(* for every message.  The loops of the source are runs over a message:    *)
(* a state, one step per byte.  What is said of runs is proved once, by    *)
(* induction over their length, and used for both checksums.               *)
(***************************************************************************)
EXTENDS Checksums, TLAPS, WellFoundedInduction, SequenceTheorems

\* Induction over the naturals, for sets.
LEMMA LeastNatural ==
  ASSUME NEW T, T \subseteq Nat, T # {} PROVE \E x \in T : \A y \in T : x <= y
<1> DEFINE Below == {pair \in Nat \X Nat : pair[1] < pair[2]}
<1>1. IsWellFoundedOn(Below, Nat)
  BY NatLessThanWellFounded DEF OpToRel
<1>2. PICK x \in T : \A y \in T : ~(<<y, x>> \in Below)
  <2> HIDE DEF Below
  <2> QED
    BY <1>1, WFMin
<1>3. \A y \in T : y < x => <<y, x>> \in Below
  OBVIOUS
<1>4. \A y \in T : ~(y < x)
  <2> HIDE DEF Below
  <2> QED
    BY <1>2, <1>3
<1> QED
  BY <1>4

LEMMA InductionUpTo ==
  ASSUME NEW max \in Nat, NEW S, 0 \in S, \A n \in 0..(max - 1) : n \in S => n + 1 \in S
  PROVE  \A n \in 0..max : n \in S
<1> SUFFICES ASSUME NEW m \in 0..max, m \notin S PROVE FALSE
  OBVIOUS
<1> DEFINE T == {n \in 0..max : n \notin S}
<1>1. PICK x \in T : \A y \in T : x <= y
  <2>1. T \subseteq Nat /\ T # {}
    OBVIOUS
  <2> HIDE DEF T
  <2> QED
    BY <2>1, LeastNatural
<1>2. x # 0 /\ x - 1 \in 0..(max - 1) /\ x - 1 \notin T
  BY <1>1
<1> QED
  BY <1>1, <1>2
-----------------------------------------------------------------------------
(* Runs *)

\* f is the state after every prefix of the message.
IsRun(S, step, init, message, f) ==
  /\ f \in [0..Len(message) -> S]
  /\ f[0] = init
  /\ \A n \in 1..Len(message) : f[n] = step[f[n - 1]][message[n]]

LEMMA RunExists ==
  ASSUME NEW S, NEW B, NEW step \in [S -> [B -> S]], NEW init \in S, NEW message \in Seq(B)
  PROVE  \E f : IsRun(S, step, init, message, f)
<1> DEFINE IsPart(n, f) ==
      /\ f \in [0..n -> S] /\ f[0] = init
      /\ \A i \in 1..n : f[i] = step[f[i - 1]][message[i]]
<1> DEFINE Reached == {n \in 0..Len(message) : \E f : IsPart(n, f)}
<1> HIDE DEF IsPart
<1>1. 0 \in Reached
  <2>1. IsPart(0, [i \in 0..0 |-> init])
    BY DEF IsPart
  <2> QED
    BY <2>1
<1>2. ASSUME NEW n \in 0..(Len(message) - 1), n \in Reached PROVE n + 1 \in Reached
  <2>1. PICK f : IsPart(n, f)
    BY <1>2
  <2> DEFINE next == step[f[n]][message[n + 1]]
             g == [i \in 0..(n + 1) |-> IF i = n + 1 THEN next ELSE f[i]]
  <2>2. f[n] \in S /\ message[n + 1] \in B
    BY <2>1 DEF IsPart
  <2>3. next \in S
    BY <2>2
  <2>4. g \in [0..(n + 1) -> S] /\ g[0] = init
    BY <2>1, <2>3 DEF IsPart
  <2>5. ASSUME NEW i \in 1..(n + 1) PROVE g[i] = step[g[i - 1]][message[i]]
    <3>1. i - 1 \in 0..n /\ g[i - 1] = f[i - 1]
      OBVIOUS
    <3>2. CASE i = n + 1
      BY <3>1, <3>2
    <3>3. CASE i \in 1..n
      <4>1. g[i] = f[i] /\ f[i] = step[f[i - 1]][message[i]]
        BY <2>1, <3>3 DEF IsPart
      <4> QED
        BY <3>1, <4>1
    <3> QED
      BY <3>2, <3>3
  <2> HIDE DEF g
  <2>6. IsPart(n + 1, g)
    BY <2>4, <2>5 DEF IsPart
  <2> QED
    BY <2>6
<1>3. Len(message) \in Reached
  <2>1. Len(message) \in Nat
    OBVIOUS
  <2>2. \A n \in 0..(Len(message) - 1) : n \in Reached => n + 1 \in Reached
    BY <1>2
  <2> HIDE DEF Reached
  <2>3. \A n \in 0..Len(message) : n \in Reached
    BY <1>1, <2>1, <2>2, InductionUpTo
  <2> QED
    BY <2>1, <2>3
<1> QED
  BY <1>3 DEF IsRun, IsPart

\* A loop that makes the steps of a run as long as its state is right is a run.
LEMMA LoopIsRun ==
  ASSUME NEW S, NEW B, NEW step \in [S -> [B -> S]], NEW init \in S, NEW message \in Seq(B),
         NEW T, NEW f \in [0..Len(message) -> T], f[0] = init,
         \A n \in 1..Len(message) : f[n - 1] \in S => f[n] = step[f[n - 1]][message[n]]
  PROVE  IsRun(S, step, init, message, f)
<1> DEFINE Known == {n \in 0..Len(message) : f[n] \in S}
<1>1. 0 \in Known
  OBVIOUS
<1>2. ASSUME NEW n \in 0..(Len(message) - 1), n \in Known PROVE n + 1 \in Known
  <2> DEFINE i == n + 1
  <2>1. i \in 1..Len(message) /\ i - 1 = n /\ f[n] \in S
    BY <1>2
  <2> HIDE DEF i
  <2>2. f[i - 1] \in S /\ message[i] \in B
    BY <2>1
  <2>3. f[i] = step[f[i - 1]][message[i]]
    BY <2>1, <2>2
  <2>4. f[i] \in S
    BY <2>2, <2>3
  <2> QED
    BY <2>1, <2>4 DEF i
<1>3. \A n \in 0..Len(message) : f[n] \in S
  <2>1. Len(message) \in Nat
    OBVIOUS
  <2>2. \A n \in 0..(Len(message) - 1) : n \in Known => n + 1 \in Known
    BY <1>2
  <2> HIDE DEF Known
  <2>3. \A n \in 0..Len(message) : n \in Known
    BY <1>1, <2>1, <2>2, InductionUpTo
  <2> QED
    BY <2>3 DEF Known
<1>4. ASSUME NEW n \in 1..Len(message) PROVE f[n] = step[f[n - 1]][message[n]]
  <2>1. f[n - 1] \in S
    BY <1>3
  <2> QED
    BY <2>1
<1> QED
  BY <1>3, <1>4 DEF IsRun

\* A run depends on nothing behind it.
LEMMA RunsAgree ==
  ASSUME NEW S, NEW step, NEW init, NEW m1, NEW m2, NEW f1, NEW f2,
         IsRun(S, step, init, m1, f1), IsRun(S, step, init, m2, f2),
         Len(m1) \in Nat, Len(m2) \in Nat,
         NEW k \in Nat, k <= Len(m1), k <= Len(m2), \A n \in 1..k : m1[n] = m2[n]
  PROVE  f1[k] = f2[k]
<1> DEFINE Same == {n \in 0..k : f1[n] = f2[n]}
<1>1. 0 \in Same
  BY DEF IsRun
<1>2. ASSUME NEW n \in 0..(k - 1), n \in Same PROVE n + 1 \in Same
  <2>1. f1[n] = f2[n]
    BY <1>2
  <2>2. /\ n + 1 \in 1..k /\ n + 1 \in 1..Len(m1) /\ n + 1 \in 1..Len(m2)
        /\ (n + 1) - 1 = n
    OBVIOUS
  <2>3. f1[n + 1] = step[f1[n]][m1[n + 1]] /\ f2[n + 1] = step[f2[n]][m2[n + 1]]
    BY <2>2 DEF IsRun
  <2>4. m1[n + 1] = m2[n + 1]
    BY <2>2
  <2> QED
    BY <2>1, <2>2, <2>3, <2>4
<1>3. k \in Same
  <2>1. \A n \in 0..(k - 1) : n \in Same => n + 1 \in Same
    BY <1>2
  <2> HIDE DEF Same
  <2>2. \A n \in 0..k : n \in Same
    BY <1>1, <2>1, InductionUpTo
  <2> QED
    BY <2>2
<1> QED
  BY <1>3

\* A step that tells bytes and states apart never forgets a difference in one place.
LEMMA RunsStayApart ==
  ASSUME NEW S, NEW B, NEW step, NEW init, NEW m1 \in Seq(B), NEW m2 \in Seq(B), NEW f1, NEW f2,
         IsRun(S, step, init, m1, f1), IsRun(S, step, init, m2, f2),
         \A s \in S, b, c \in B : step[s][b] = step[s][c] => b = c,
         \A s, t \in S, b \in B : step[s][b] = step[t][b] => s = t,
         Len(m1) = Len(m2), NEW q \in 1..Len(m1), m1[q] # m2[q],
         \A n \in (1..Len(m1)) \ {q} : m1[n] = m2[n]
  PROVE  f1[Len(m1)] # f2[Len(m1)]
<1> DEFINE max == Len(m1) - q
           Apart == {n \in 0..max : f1[q + n] # f2[q + n]}
<1>1. 0 \in Apart
  <2>1. f1[q - 1] = f2[q - 1]
    <3>1. q - 1 \in Nat /\ q - 1 <= Len(m1) /\ \A n \in 1..(q - 1) : m1[n] = m2[n]
      OBVIOUS
    <3>2. Len(m1) \in Nat /\ Len(m2) \in Nat /\ q - 1 <= Len(m2)
      OBVIOUS
    <3> QED
      BY <3>1, <3>2, RunsAgree
  <2>2. f1[q - 1] \in S /\ f1[q] = step[f1[q - 1]][m1[q]] /\ f2[q] = step[f2[q - 1]][m2[q]]
    BY DEF IsRun
  <2>3. m1[q] \in B /\ m2[q] \in B
    OBVIOUS
  <2>4. f1[q] # f2[q]
    BY <2>1, <2>2, <2>3
  <2> QED
    BY <2>4
<1>2. ASSUME NEW n \in 0..(max - 1), n \in Apart PROVE n + 1 \in Apart
  <2> DEFINE i == q + n
  <2>1. /\ i \in 0..Len(m1) /\ i + 1 \in 1..Len(m1) /\ i + 1 \in 1..Len(m2)
        /\ (i + 1) - 1 = i /\ i + 1 # q /\ q + (n + 1) = i + 1 /\ n + 1 \in 0..max
    OBVIOUS
  <2>2. f1[i] # f2[i]
    BY <1>2
  <2> HIDE DEF i
  <2>3. f1[i + 1] = step[f1[i]][m1[i + 1]] /\ f2[i + 1] = step[f2[i]][m2[i + 1]]
    BY <2>1 DEF IsRun
  <2>4. f1[i] \in S /\ f2[i] \in S
    BY <2>1 DEF IsRun
  <2>5. m1[i + 1] = m2[i + 1] /\ m1[i + 1] \in B
    BY <2>1
  <2>6. f1[i + 1] # f2[i + 1]
    BY <2>2, <2>3, <2>4, <2>5
  <2> QED
    BY <2>1, <2>6
<1>3. max \in Apart
  <2>1. max \in Nat
    OBVIOUS
  <2>2. \A n \in 0..(max - 1) : n \in Apart => n + 1 \in Apart
    BY <1>2
  <2> HIDE DEF Apart, max
  <2>3. \A n \in 0..max : n \in Apart
    BY <1>1, <2>1, <2>2, InductionUpTo
  <2> QED
    BY <2>1, <2>3
<1> QED
  BY <1>3

\* Zero bytes neither leave the state zero nor lead into it.
LEMMA ZerosKeepZero ==
  ASSUME NEW S, NEW step, NEW init, NEW message, NEW f, NEW zero \in S,
         IsRun(S, step, init, message, f), step[zero][0] = zero,
         \A s, t \in S : step[s][0] = step[t][0] => s = t,
         Len(message) \in Nat, NEW k \in 0..Len(message),
         \A n \in (k + 1)..Len(message) : message[n] = 0
  PROVE  f[Len(message)] = zero <=> f[k] = zero
<1> DEFINE max == Len(message) - k
           Same == {n \in 0..max : f[k + n] = zero <=> f[k] = zero}
<1>1. 0 \in Same
  OBVIOUS
<1>2. ASSUME NEW n \in 0..(max - 1), n \in Same PROVE n + 1 \in Same
  <2> DEFINE i == k + n
  <2>1. /\ i \in 0..Len(message) /\ i + 1 \in 1..Len(message) /\ (i + 1) - 1 = i
        /\ i + 1 \in (k + 1)..Len(message) /\ k + (n + 1) = i + 1 /\ n + 1 \in 0..max
    OBVIOUS
  <2>2. f[i] = zero <=> f[k] = zero
    BY <1>2
  <2> HIDE DEF i
  <2>3. f[i + 1] = step[f[i]][message[i + 1]] /\ f[i] \in S /\ message[i + 1] = 0
    BY <2>1 DEF IsRun
  <2>4. f[i + 1] = zero <=> f[i] = zero
    BY <2>3
  <2> QED
    BY <2>1, <2>2, <2>4
<1>3. max \in Same
  <2>1. max \in Nat
    OBVIOUS
  <2>2. \A n \in 0..(max - 1) : n \in Same => n + 1 \in Same
    BY <1>2
  <2> HIDE DEF Same, max
  <2>3. \A n \in 0..max : n \in Same
    BY <1>1, <2>1, <2>2, InductionUpTo
  <2> QED
    BY <2>1, <2>3
<1> QED
  BY <1>3
-----------------------------------------------------------------------------
(* The two checksums are runs *)

Pairs == Bytes \X Bytes
Steps8 == [crc \in Bytes |-> [byte \in Bytes |-> Crc8Step(crc, byte)]]
Steps16 == [crc \in Pairs |-> [byte \in Bytes |-> Crc16Step(crc, byte)]]

LEMMA ByteFacts == 0 \in Bytes /\ 255 \in Bytes /\ Bytes \subseteq Nat
BY DEF Bytes

LEMMA XorCancels ==
  ASSUME NEW x \in Bytes, NEW y \in Bytes, NEW z \in Bytes
  PROVE  /\ XorOf[x][y] \in Bytes
         /\ XorOf[x][x] = 0
         /\ XorOf[x][y] = XorOf[x][z] => y = z
         /\ XorOf[y][x] = XorOf[z][x] => y = z
         /\ XorOf[x][y] = 0 => x = y
<1>1. XorOf[x][y] \in Bytes
  BY XorAssumption
<1>2. \A a, b \in Bytes : XorOf[a][b] = XorOf[b][a] /\ XorOf[XorOf[a][b]][b] = a
  BY XorAssumption
<1>3. 0 \in Bytes /\ \A a \in Bytes : XorOf[a][0] = a
  BY XorAssumption, ByteFacts
<1>4. XorOf[XorOf[x][0]][x] = 0
  <2>1. XorOf[0][x] = x
    BY <1>2, <1>3
  <2>2. XorOf[XorOf[0][x]][x] = 0
    BY <1>2, <1>3
  <2> QED
    BY <1>3, <2>1, <2>2
<1>5. XorOf[x][x] = 0
  BY <1>3, <1>4
<1>6. XorOf[y][x] = XorOf[z][x] => y = z
  BY <1>2
<1>7. XorOf[x][y] = XorOf[x][z] => y = z
  BY <1>2, <1>6
<1>8. ASSUME XorOf[x][y] = 0 PROVE x = y
  <2>1. XorOf[XorOf[x][y]][y] = x /\ XorOf[0][y] = y
    BY <1>2, <1>3
  <2> QED
    BY <1>8, <2>1
<1> QED
  BY <1>1, <1>5, <1>6, <1>7, <1>8

LEMMA Steps8Properties ==
  /\ Steps8 \in [Bytes -> [Bytes -> Bytes]]
  /\ \A s \in Bytes, b, c \in Bytes : Steps8[s][b] = Steps8[s][c] => b = c
  /\ \A s, t \in Bytes, b \in Bytes : Steps8[s][b] = Steps8[t][b] => s = t
  /\ \A s, b \in Bytes : Steps8[s][b] = Crc8Step(s, b)
  /\ \A s, b \in Bytes : Steps8[s][b] = 0 <=> s = b
<1>1. ASSUME NEW s \in Bytes, NEW b \in Bytes
      PROVE  Steps8[s][b] = CRC8_TABLE[XorOf[s][b]] /\ Steps8[s][b] \in Bytes
  BY XorCancels, TableAssumption DEF Steps8, Crc8Step
<1>2. Steps8 \in [Bytes -> [Bytes -> Bytes]]
  BY <1>1, XorCancels, TableAssumption DEF Steps8, Crc8Step
<1>3. \A x, y \in Bytes : CRC8_TABLE[x] = CRC8_TABLE[y] => x = y
  BY TableAssumption
<1>4. ASSUME NEW s \in Bytes, NEW b \in Bytes, NEW c \in Bytes, Steps8[s][b] = Steps8[s][c]
      PROVE  b = c
  <2>1. XorOf[s][b] = XorOf[s][c]
    BY <1>1, <1>3, <1>4, XorCancels
  <2> QED
    BY <2>1, XorCancels
<1>5. ASSUME NEW s \in Bytes, NEW t \in Bytes, NEW b \in Bytes, Steps8[s][b] = Steps8[t][b]
      PROVE  s = t
  <2>1. XorOf[s][b] = XorOf[t][b]
    BY <1>1, <1>3, <1>5, XorCancels
  <2> QED
    BY <2>1, XorCancels
<1>6. ASSUME NEW s \in Bytes, NEW b \in Bytes PROVE Steps8[s][b] = 0 <=> s = b
  <2>1. 0 \in Bytes /\ CRC8_TABLE[0] = 0
    BY TableAssumption, ByteFacts
  <2>2. CRC8_TABLE[XorOf[s][b]] = 0 <=> XorOf[s][b] = 0
    BY <1>3, <2>1, XorCancels
  <2>3. XorOf[s][b] = 0 <=> s = b
    BY XorCancels
  <2> QED
    BY <1>1, <2>2, <2>3
<1> QED
  BY <1>2, <1>4, <1>5, <1>6 DEF Steps8

LEMMA Crc8IsRun ==
  ASSUME NEW message \in Seq(Bytes)
  PROVE  /\ IsRun(Bytes, Steps8, 255, message, Crc8Run(message))
         /\ get_CRC8_check_sum(message) \in Bytes
<1> DEFINE Turn(crc, n) == IF n = 0 THEN 255 ELSE Crc8Step(crc[n - 1], message[n])
<1>1. 255 \in Bytes /\ Steps8 \in [Bytes -> [Bytes -> Bytes]]
  BY Steps8Properties, ByteFacts
<1>2. PICK f : IsRun(Bytes, Steps8, 255, message, f)
  BY <1>1, RunExists
<1>3. f = [n \in 0..Len(message) |-> Turn(f, n)]
  <2>1. f \in [0..Len(message) -> Bytes]
    BY <1>2 DEF IsRun
  <2>2. ASSUME NEW n \in 0..Len(message) PROVE f[n] = Turn(f, n)
    <3>1. CASE n = 0
      BY <1>2, <3>1 DEF IsRun
    <3>2. CASE n \in 1..Len(message)
      <4>1. n - 1 \in 0..Len(message) /\ f[n] = Steps8[f[n - 1]][message[n]]
        BY <1>2, <3>2 DEF IsRun
      <4>2. f[n - 1] \in Bytes /\ message[n] \in Bytes /\ n # 0
        BY <2>1, <3>2, <4>1
      <4> QED
        BY <4>1, <4>2, Steps8Properties
    <3> QED
      BY <3>1, <3>2
  <2> HIDE DEF Turn
  <2> QED
    BY <2>1, <2>2
<1> DEFINE run == Crc8Run(message)
<1>4. run = [n \in 0..Len(message) |-> Turn(run, n)]
  BY <1>3 DEF Crc8Run
<1> HIDE DEF run
<1> DEFINE T == {Turn(run, n) : n \in 0..Len(message)}
<1>5. /\ run \in [0..Len(message) -> T] /\ run[0] = 255
      /\ \A n \in 1..Len(message) : run[n] = Crc8Step(run[n - 1], message[n])
  <2>1. run \in [0..Len(message) -> T] /\ \A n \in 0..Len(message) : run[n] = Turn(run, n)
    <3> HIDE DEF Turn
    <3> QED
      BY <1>4
  <2> QED
    BY <2>1
<1> HIDE DEF T
<1>6. ASSUME NEW n \in 1..Len(message), run[n - 1] \in Bytes
      PROVE  run[n] = Steps8[run[n - 1]][message[n]]
  <2>1. run[n] = Crc8Step(run[n - 1], message[n]) /\ message[n] \in Bytes
    BY <1>5
  <2> QED
    BY <1>6, <2>1, Steps8Properties
<1>7. \A n \in 1..Len(message) :
        run[n - 1] \in Bytes => run[n] = Steps8[run[n - 1]][message[n]]
  BY <1>6
<1>8. IsRun(Bytes, Steps8, 255, message, run)
  <2> DEFINE init == 255
  <2>1. init \in Bytes /\ run[0] = init /\ run \in [0..Len(message) -> T]
    BY <1>1, <1>5
  <2> HIDE DEF init
  <2>2. IsRun(Bytes, Steps8, init, message, run)
    BY <1>1, <2>1, <1>7, LoopIsRun
  <2> QED
    BY <2>2 DEF init
<1> QED
  BY <1>8 DEF IsRun, get_CRC8_check_sum, run

LEMMA Steps16Properties ==
  /\ Steps16 \in [Pairs -> [Bytes -> Pairs]]
  /\ \A s \in Pairs, b, c \in Bytes : Steps16[s][b] = Steps16[s][c] => b = c
  /\ \A s, t \in Pairs, b \in Bytes : Steps16[s][b] = Steps16[t][b] => s = t
  /\ \A s \in Pairs, b \in Bytes : Steps16[s][b] = Crc16Step(s, b)
  /\ \A s \in Pairs, b \in Bytes : s[1] = b => Steps16[s][b] = <<s[2], 0>>
  /\ \A s \in Pairs, b \in Bytes : Steps16[s][b][2] = 0 => s[1] = b /\ Steps16[s][b] = <<s[2], 0>>
<1> DEFINE Entry(s, b) == W_CRC_TABLE[XorOf[s[1]][b]]
<1>1. ASSUME NEW s \in Pairs, NEW b \in Bytes
      PROVE  /\ s[1] \in Bytes /\ s[2] \in Bytes /\ s = <<s[1], s[2]>>
             /\ XorOf[s[1]][b] \in Bytes
             /\ Entry(s, b)[1] \in Bytes /\ Entry(s, b)[2] \in Bytes
             /\ Entry(s, b) = <<Entry(s, b)[1], Entry(s, b)[2]>>
             /\ Crc16Step(s, b) = <<XorOf[s[2]][Entry(s, b)[1]], Entry(s, b)[2]>>
             /\ Crc16Step(s, b) \in Pairs
  <2>1. s[1] \in Bytes /\ s[2] \in Bytes /\ s = <<s[1], s[2]>>
    BY DEF Pairs
  <2>2. XorOf[s[1]][b] \in Bytes
    BY <2>1, XorCancels
  <2>3. Entry(s, b) \in Bytes \X Bytes
    BY <2>2, TableAssumption
  <2>4. /\ Entry(s, b)[1] \in Bytes /\ Entry(s, b)[2] \in Bytes
        /\ Entry(s, b) = <<Entry(s, b)[1], Entry(s, b)[2]>>
    BY <2>3
  <2>5. Crc16Step(s, b) = <<XorOf[s[2]][Entry(s, b)[1]], Entry(s, b)[2]>>
    BY DEF Crc16Step
  <2> HIDE DEF Entry
  <2>6. XorOf[s[2]][Entry(s, b)[1]] \in Bytes
    BY <2>1, <2>4, XorCancels
  <2>7. Crc16Step(s, b) \in Pairs
    BY <2>4, <2>5, <2>6 DEF Pairs
  <2> QED
    BY <2>1, <2>2, <2>4, <2>5, <2>7
<1>2. \A s \in Pairs, b \in Bytes : Steps16[s][b] = Crc16Step(s, b)
  BY DEF Steps16
<1>3. Steps16 \in [Pairs -> [Bytes -> Pairs]]
  BY <1>1 DEF Steps16
<1> HIDE DEF Entry
<1>4. ASSUME NEW s \in Pairs, NEW t \in Pairs, NEW b \in Bytes, NEW c \in Bytes,
             Steps16[s][b] = Steps16[t][c]
      PROVE  /\ XorOf[s[1]][b] = XorOf[t[1]][c]
             /\ XorOf[s[2]][Entry(s, b)[1]] = XorOf[t[2]][Entry(s, b)[1]]
  <2>1. Entry(s, b)[2] = Entry(t, c)[2]
    BY <1>1, <1>2, <1>4
  <2>2. XorOf[s[1]][b] = XorOf[t[1]][c]
    BY <1>1, <2>1, TableAssumption DEF Entry
  <2>3. Entry(s, b) = Entry(t, c)
    BY <2>2 DEF Entry
  <2> QED
    BY <1>1, <1>2, <1>4, <2>2, <2>3
<1>5. \A s \in Pairs, b, c \in Bytes : Steps16[s][b] = Steps16[s][c] => b = c
  BY <1>1, <1>4, XorCancels
<1>6. ASSUME NEW s \in Pairs, NEW t \in Pairs, NEW b \in Bytes, Steps16[s][b] = Steps16[t][b]
      PROVE  s = t
  <2>1. s[1] = t[1] /\ s[2] = t[2]
    BY <1>1, <1>4, <1>6, XorCancels
  <2> QED
    BY <1>1, <2>1
<1>7. ASSUME NEW s \in Pairs, NEW b \in Bytes, s[1] = b PROVE Steps16[s][b] = <<s[2], 0>>
  <2>1. XorOf[s[1]][b] = 0
    BY <1>1, <1>7, XorCancels
  <2>2. Entry(s, b) = <<0, 0>>
    BY <2>1, TableAssumption DEF Entry
  <2>3. XorOf[s[2]][0] = s[2]
    BY <1>1, XorAssumption
  <2> QED
    BY <1>1, <1>2, <2>2, <2>3
<1>8. ASSUME NEW s \in Pairs, NEW b \in Bytes, Steps16[s][b][2] = 0 PROVE s[1] = b
  <2>1. Entry(s, b)[2] = 0
    BY <1>1, <1>2, <1>8
  <2>2. 0 \in Bytes /\ W_CRC_TABLE[0][2] = 0
    BY TableAssumption, ByteFacts
  <2>3. \A x \in Bytes : W_CRC_TABLE[x][2] = W_CRC_TABLE[0][2] => x = 0
    BY <2>2, TableAssumption
  <2>4. XorOf[s[1]][b] = 0
    BY <1>1, <2>1, <2>2, <2>3 DEF Entry
  <2> QED
    BY <1>1, <2>4, XorCancels
<1> QED
  BY <1>2, <1>3, <1>5, <1>6, <1>7, <1>8

LEMMA Crc16IsRun ==
  ASSUME NEW message \in Seq(Bytes)
  PROVE  /\ IsRun(Pairs, Steps16, <<255, 255>>, message, Crc16Run(message))
         /\ get_CRC16_check_sum(message) \in Pairs
<1> DEFINE Turn(crc, n) == IF n = 0 THEN <<255, 255>> ELSE Crc16Step(crc[n - 1], message[n])
<1>1. <<255, 255>> \in Pairs /\ Steps16 \in [Pairs -> [Bytes -> Pairs]]
  BY Steps16Properties, ByteFacts DEF Pairs
<1>2. PICK f : IsRun(Pairs, Steps16, <<255, 255>>, message, f)
  BY <1>1, RunExists
<1>3. f = [n \in 0..Len(message) |-> Turn(f, n)]
  <2>1. f \in [0..Len(message) -> Pairs]
    BY <1>2 DEF IsRun
  <2>2. ASSUME NEW n \in 0..Len(message) PROVE f[n] = Turn(f, n)
    <3>1. CASE n = 0
      BY <1>2, <3>1 DEF IsRun
    <3>2. CASE n \in 1..Len(message)
      <4>1. n - 1 \in 0..Len(message) /\ f[n] = Steps16[f[n - 1]][message[n]]
        BY <1>2, <3>2 DEF IsRun
      <4>2. f[n - 1] \in Pairs /\ message[n] \in Bytes /\ n # 0
        BY <2>1, <3>2, <4>1
      <4> QED
        BY <4>1, <4>2, Steps16Properties
    <3> QED
      BY <3>1, <3>2
  <2> HIDE DEF Turn
  <2> QED
    BY <2>1, <2>2
<1> DEFINE run == Crc16Run(message)
<1>4. run = [n \in 0..Len(message) |-> Turn(run, n)]
  BY <1>3 DEF Crc16Run
<1> HIDE DEF run
<1> DEFINE T == {Turn(run, n) : n \in 0..Len(message)}
<1>5. /\ run \in [0..Len(message) -> T] /\ run[0] = <<255, 255>>
      /\ \A n \in 1..Len(message) : run[n] = Crc16Step(run[n - 1], message[n])
  <2>1. run \in [0..Len(message) -> T] /\ \A n \in 0..Len(message) : run[n] = Turn(run, n)
    <3> HIDE DEF Turn
    <3> QED
      BY <1>4
  <2> QED
    BY <2>1
<1> HIDE DEF T
<1>6. ASSUME NEW n \in 1..Len(message), run[n - 1] \in Pairs
      PROVE  run[n] = Steps16[run[n - 1]][message[n]]
  <2>1. run[n] = Crc16Step(run[n - 1], message[n]) /\ message[n] \in Bytes
    BY <1>5
  <2>2. Steps16[run[n - 1]][message[n]] = Crc16Step(run[n - 1], message[n])
    BY <1>6, <2>1, Steps16Properties
  <2> QED
    BY <2>1, <2>2
<1>7. \A n \in 1..Len(message) :
        run[n - 1] \in Pairs => run[n] = Steps16[run[n - 1]][message[n]]
  BY <1>6
<1> DEFINE init == <<255, 255>>
<1>8. run[0] = init /\ init \in Pairs
  BY <1>1, <1>5
<1> HIDE DEF init
<1>9. IsRun(Pairs, Steps16, init, message, run)
  BY <1>1, <1>5, <1>7, <1>8, LoopIsRun
<1> QED
  BY <1>9 DEF IsRun, get_CRC16_check_sum, run, init
-----------------------------------------------------------------------------
(* A message is right if its checksum, taken over all of it, is zero *)

NoRest == <<0, 0>>

LEMMA PairFacts ==
  ASSUME NEW pair \in Pairs
  PROVE  /\ pair[1] \in Bytes /\ pair[2] \in Bytes /\ pair = <<pair[1], pair[2]>>
         /\ pair \in Seq(Bytes) /\ Len(pair) = 2
<1>1. pair[1] \in Bytes /\ pair[2] \in Bytes /\ pair = <<pair[1], pair[2]>>
  BY DEF Pairs
<1>2. ASSUME NEW x \in Bytes, NEW y \in Bytes PROVE <<x, y>> \in Seq(Bytes) /\ Len(<<x, y>>) = 2
  OBVIOUS
<1> QED
  BY <1>1, <1>2

LEMMA Prefixes ==
  ASSUME NEW message \in Seq(Bytes), NEW k \in 0..Len(message)
  PROVE  LET part == SubSeq(message, 1, k)
         IN  /\ part \in Seq(Bytes) /\ Len(part) = k
             /\ \A n \in 1..k : part[n] = message[n]
             /\ get_CRC8_check_sum(part) = Crc8Run(message)[k]
             /\ get_CRC16_check_sum(part) = Crc16Run(message)[k]
<1> DEFINE part == SubSeq(message, 1, k)
<1>1. part \in Seq(Bytes) /\ Len(part) = k /\ \A n \in 1..k : part[n] = message[n]
  OBVIOUS
<1>2. k \in Nat /\ k <= Len(message) /\ Len(message) \in Nat
  OBVIOUS
<1> HIDE DEF part
<1>3. Crc8Run(part)[k] = Crc8Run(message)[k]
  <2>1. /\ IsRun(Bytes, Steps8, 255, part, Crc8Run(part))
        /\ IsRun(Bytes, Steps8, 255, message, Crc8Run(message))
    BY <1>1, Crc8IsRun
  <2> QED
    BY <1>1, <1>2, <2>1, RunsAgree
<1>4. Crc16Run(part)[k] = Crc16Run(message)[k]
  <2>1. /\ IsRun(Pairs, Steps16, <<255, 255>>, part, Crc16Run(part))
        /\ IsRun(Pairs, Steps16, <<255, 255>>, message, Crc16Run(message))
    BY <1>1, Crc16IsRun
  <2> QED
    BY <1>1, <1>2, <2>1, RunsAgree
<1> QED
  BY <1>1, <1>3, <1>4 DEF part, get_CRC8_check_sum, get_CRC16_check_sum

LEMMA Verify8IsNoRest ==
  ASSUME NEW message \in Seq(Bytes)
  PROVE  /\ verify_CRC8_check_sum(message) \in BOOLEAN
         /\ verify_CRC8_check_sum(message) <=> Len(message) > 2 /\ get_CRC8_check_sum(message) = 0
<1>1. CASE Len(message) <= 2
  BY <1>1 DEF verify_CRC8_check_sum
<1>2. CASE Len(message) > 2
  <2> DEFINE n == Len(message)
             body == SubSeq(message, 1, n - 1)
             run == Crc8Run(message)
  <2>1. n - 1 \in 0..n /\ n \in 1..n /\ n - 1 \in 0..Len(message)
    BY <1>2
  <2>2. body \in Seq(Bytes) /\ Len(body) = n - 1 /\ get_CRC8_check_sum(body) = run[n - 1]
    BY <2>1, Prefixes
  <2>3. \A i \in 1..(n - 1) : body[i] = message[i]
    BY <2>1, Prefixes
  <2>4. IsRun(Bytes, Steps8, 255, message, run)
    BY Crc8IsRun
  <2>5. run[n - 1] \in Bytes /\ message[n] \in Bytes /\ run[n] = Steps8[run[n - 1]][message[n]]
    BY <2>1, <2>4 DEF IsRun
  <2> HIDE DEF body, run
  <2>6. run[n] = 0 <=> run[n - 1] = message[n]
    <3> DEFINE before == run[n - 1]
               byte == message[n]
    <3>1. before \in Bytes /\ byte \in Bytes /\ run[n] = Steps8[before][byte]
      BY <2>5
    <3> HIDE DEF before, byte
    <3>2. Steps8[before][byte] = 0 <=> before = byte
      BY <3>1, Steps8Properties
    <3> QED
      BY <3>1, <3>2 DEF before, byte
  <2>7. Append(body, run[n - 1]) = message <=> run[n - 1] = message[n]
    <3>1. Append(body, run[n - 1])[n] = run[n - 1]
      BY <2>1, <2>2, <2>5
    <3>2. ASSUME run[n - 1] = message[n] PROVE Append(body, run[n - 1]) = message
      <4>1. /\ Append(body, run[n - 1]) \in Seq(Bytes)
            /\ Len(Append(body, run[n - 1])) = n
        BY <2>1, <2>2, <2>5
      <4>2. \A i \in 1..n : Append(body, run[n - 1])[i] = message[i]
        BY <2>1, <2>2, <2>3, <2>5, <3>2
      <4> QED
        BY <4>1, <4>2, SeqEqual
    <3> QED
      BY <3>1, <3>2
  <2> QED
    BY <1>2, <2>2, <2>6, <2>7
    DEF body, run, verify_CRC8_check_sum, append_CRC8_check_sum, get_CRC8_check_sum
<1> QED
  BY <1>1, <1>2

LEMMA Verify16IsNoRest ==
  ASSUME NEW message \in Seq(Bytes)
  PROVE  /\ verify_CRC16_check_sum(message) \in BOOLEAN
         /\ verify_CRC16_check_sum(message)
              <=> Len(message) > 2 /\ get_CRC16_check_sum(message) = NoRest
<1>1. CASE Len(message) <= 2
  BY <1>1 DEF verify_CRC16_check_sum
<1>2. CASE Len(message) > 2
  <2> DEFINE n == Len(message)
             body == SubSeq(message, 1, n - 2)
             run == Crc16Run(message)
             low == message[n - 1]
             high == message[n]
  <2>1. n - 2 \in 0..n /\ n - 1 \in 1..n /\ n \in 1..n /\ (n - 1) - 1 = n - 2 /\ n - 1 \in 0..n
    BY <1>2
  <2>2. body \in Seq(Bytes) /\ Len(body) = n - 2 /\ get_CRC16_check_sum(body) = run[n - 2]
    BY <2>1, Prefixes
  <2>3. \A i \in 1..(n - 2) : body[i] = message[i]
    BY <2>1, Prefixes
  <2>4. IsRun(Pairs, Steps16, <<255, 255>>, message, run)
    BY Crc16IsRun
  <2>5. run[n - 2] \in Pairs /\ run[n - 1] \in Pairs /\ low \in Bytes /\ high \in Bytes
    BY <2>1, <2>4 DEF IsRun
  <2>6. run[n - 1] = Steps16[run[n - 2]][low] /\ run[n] = Steps16[run[n - 1]][high]
    BY <2>1, <2>4 DEF IsRun
  <2> HIDE DEF body, run, low, high
  <2>7. run[n - 2] = <<low, high>> => run[n] = NoRest
    <3> SUFFICES ASSUME run[n - 2] = <<low, high>> PROVE run[n] = NoRest
      OBVIOUS
    <3>1. run[n - 2][1] = low /\ run[n - 2][2] = high
      OBVIOUS
    <3>2. run[n - 1] = <<run[n - 2][2], 0>>
      BY <2>5, <2>6, <3>1, Steps16Properties
    <3>3. run[n - 1][1] = high /\ run[n - 1][2] = 0
      BY <3>1, <3>2
    <3>4. run[n] = <<run[n - 1][2], 0>>
      BY <2>5, <2>6, <3>3, Steps16Properties
    <3> QED
      BY <3>3, <3>4 DEF NoRest
  <2>8. run[n] = NoRest => run[n - 2] = <<low, high>>
    <3> SUFFICES ASSUME run[n] = NoRest PROVE run[n - 2] = <<low, high>>
      OBVIOUS
    <3>1. run[n][2] = 0 /\ run[n][1] = 0
      BY DEF NoRest
    <3>2. run[n - 1][1] = high /\ run[n] = <<run[n - 1][2], 0>>
      BY <2>5, <2>6, <3>1, Steps16Properties
    <3>3. run[n - 1][2] = 0
      BY <3>1, <3>2
    <3>4. run[n - 2][1] = low /\ run[n - 1] = <<run[n - 2][2], 0>>
      BY <2>5, <2>6, <3>3, Steps16Properties
    <3>5. run[n - 2][2] = high
      BY <3>2, <3>4
    <3> QED
      BY <2>5, <3>4, <3>5 DEF Pairs
  <2>9. body \o run[n - 2] = message <=> run[n - 2] = <<low, high>>
    <3> DEFINE rest == run[n - 2]
    <3>1. /\ rest \in Seq(Bytes) /\ Len(rest) = 2
          /\ rest[1] \in Bytes /\ rest[2] \in Bytes /\ rest = <<rest[1], rest[2]>>
      BY <2>5, PairFacts
    <3> HIDE DEF rest
    <3>2. /\ body \o rest \in Seq(Bytes) /\ Len(body \o rest) = n
          /\ \A i \in 1..n : (body \o rest)[i] = IF i <= n - 2 THEN body[i] ELSE rest[i - (n - 2)]
      <4>1. Len(body) + Len(rest) = n /\ Len(body) = n - 2
        BY <2>1, <2>2, <3>1
      <4>2. /\ body \o rest \in Seq(Bytes) /\ Len(body \o rest) = Len(body) + Len(rest)
            /\ \A i \in 1..(Len(body) + Len(rest)) :
                 (body \o rest)[i] = IF i <= Len(body) THEN body[i] ELSE rest[i - Len(body)]
        BY <2>2, <3>1, ConcatProperties
      <4> QED
        BY <4>1, <4>2
    <3>3. (n - 1) - (n - 2) = 1 /\ n - (n - 2) = 2 /\ ~(n - 1 <= n - 2) /\ ~(n <= n - 2)
      BY <2>1
    <3>4. (body \o rest)[n - 1] = rest[1] /\ (body \o rest)[n] = rest[2]
      BY <2>1, <3>2, <3>3
    <3>5. ASSUME rest = <<low, high>> PROVE body \o rest = message
      <4>1. rest[1] = low /\ rest[2] = high
        BY <3>5
      <4>2. ASSUME NEW i \in 1..n PROVE (body \o rest)[i] = message[i]
        <5>1. CASE i <= n - 2
          BY <2>3, <3>2, <5>1
        <5>2. CASE i = n - 1
          BY <3>4, <4>1, <5>2 DEF low
        <5>3. CASE i = n
          BY <3>4, <4>1, <5>3 DEF high
        <5>4. n \in Nat
          OBVIOUS
        <5> HIDE DEF n
        <5>5. i <= n - 2 \/ i = n - 1 \/ i = n
          BY <5>4
        <5> QED
          BY <5>1, <5>2, <5>3, <5>5
      <4> QED
        BY <3>2, <4>2, SeqEqual
    <3> QED
      BY <3>1, <3>4, <3>5 DEF rest, low, high
  <2> QED
    BY <1>2, <2>2, <2>7, <2>8, <2>9
    DEF body, run, verify_CRC16_check_sum, append_CRC16_check_sum, get_CRC16_check_sum
<1> QED
  BY <1>1, <1>2
-----------------------------------------------------------------------------
(* The promises of the checksums *)

\* A message that is given its checksum is accepted with it, whatever the message
\* (append_CRC8_check_sum, append_CRC16_check_sum against the two verify functions).
THEOREM AppendedChecksumVerifies ==
  ASSUME NEW message \in Seq(Bytes)
  PROVE  /\ Len(message) > 1 => verify_CRC8_check_sum(append_CRC8_check_sum(message))
         /\ Len(message) > 0 => verify_CRC16_check_sum(append_CRC16_check_sum(message))
<1>1. /\ get_CRC8_check_sum(message) \in Bytes /\ get_CRC16_check_sum(message) \in Pairs
      /\ get_CRC16_check_sum(message) \in Seq(Bytes) /\ Len(get_CRC16_check_sum(message)) = 2
  BY Crc8IsRun, Crc16IsRun, PairFacts
<1>2. ASSUME NEW whole \in Seq(Bytes), NEW k \in Nat, Len(whole) = Len(message) + k,
             \A i \in 1..Len(message) : whole[i] = message[i]
      PROVE  SubSeq(whole, 1, Len(whole) - k) = message
  <2> DEFINE part == SubSeq(whole, 1, Len(whole) - k)
  <2>1. part \in Seq(Bytes) /\ Len(part) = Len(message)
    BY <1>2
  <2>2. \A i \in 1..Len(message) : part[i] = message[i]
    BY <1>2
  <2>3. part = message
    <3> HIDE DEF part
    <3> QED
      BY <2>1, <2>2, SeqEqual
  <2> QED
    BY <2>3
<1>3. ASSUME Len(message) > 1 PROVE verify_CRC8_check_sum(append_CRC8_check_sum(message))
  <2> DEFINE whole == append_CRC8_check_sum(message)
  <2>1. /\ whole \in Seq(Bytes) /\ Len(whole) = Len(message) + 1
        /\ \A i \in 1..Len(message) : whole[i] = message[i]
    BY <1>1, AppendProperties DEF append_CRC8_check_sum
  <2>2. SubSeq(whole, 1, Len(whole) - 1) = message
    <3> HIDE DEF whole
    <3> QED
      BY <1>2, <2>1
  <2>3. append_CRC8_check_sum(SubSeq(whole, 1, Len(whole) - 1)) = whole
    BY <2>2
  <2>4. Len(whole) > 2
    <3> HIDE DEF whole
    <3> QED
      BY <1>3, <2>1
  <2> QED
    BY <2>3, <2>4 DEF verify_CRC8_check_sum
<1>4. ASSUME Len(message) > 0 PROVE verify_CRC16_check_sum(append_CRC16_check_sum(message))
  <2> DEFINE whole == append_CRC16_check_sum(message)
  <2>1. /\ whole \in Seq(Bytes) /\ Len(whole) = Len(message) + 2
        /\ \A i \in 1..Len(message) : whole[i] = message[i]
    <3> DEFINE rest == get_CRC16_check_sum(message)
    <3>1. rest \in Seq(Bytes) /\ Len(rest) = 2
      BY <1>1
    <3> HIDE DEF rest
    <3>2. /\ message \o rest \in Seq(Bytes) /\ Len(message \o rest) = Len(message) + Len(rest)
          /\ \A i \in 1..(Len(message) + Len(rest)) :
               (message \o rest)[i] = IF i <= Len(message) THEN message[i] ELSE rest[i - Len(message)]
      BY <3>1, ConcatProperties
    <3>3. whole = message \o rest
      BY DEF append_CRC16_check_sum, rest
    <3> HIDE DEF whole
    <3> QED
      BY <3>1, <3>2, <3>3
  <2>2. SubSeq(whole, 1, Len(whole) - 2) = message
    <3> HIDE DEF whole
    <3> QED
      BY <1>2, <2>1
  <2>3. append_CRC16_check_sum(SubSeq(whole, 1, Len(whole) - 2)) = whole
    BY <2>2
  <2>4. Len(whole) > 2
    <3> HIDE DEF whole
    <3> QED
      BY <1>4, <2>1
  <2> QED
    BY <2>3, <2>4 DEF verify_CRC16_check_sum
<1> QED
  BY <1>3, <1>4

\* One byte that arrives wrong is always noticed: no accepted message becomes another
\* one by the change of a single byte (the tables of crc8_crc16.cpp).
THEOREM SingleByteErrorIsDetected ==
  ASSUME NEW m1 \in Seq(Bytes), NEW m2 \in Seq(Bytes), Len(m1) = Len(m2),
         NEW q \in 1..Len(m1), m1[q] # m2[q], \A n \in (1..Len(m1)) \ {q} : m1[n] = m2[n]
  PROVE  /\ ~(verify_CRC8_check_sum(m1) /\ verify_CRC8_check_sum(m2))
         /\ ~(verify_CRC16_check_sum(m1) /\ verify_CRC16_check_sum(m2))
<1>1. get_CRC8_check_sum(m1) # get_CRC8_check_sum(m2)
  <2>1. /\ IsRun(Bytes, Steps8, 255, m1, Crc8Run(m1))
        /\ IsRun(Bytes, Steps8, 255, m2, Crc8Run(m2))
    BY Crc8IsRun
  <2>2. /\ \A s \in Bytes, b, c \in Bytes : Steps8[s][b] = Steps8[s][c] => b = c
        /\ \A s, t \in Bytes, b \in Bytes : Steps8[s][b] = Steps8[t][b] => s = t
    BY Steps8Properties
  <2>3. Crc8Run(m1)[Len(m1)] # Crc8Run(m2)[Len(m1)]
    BY <2>1, <2>2, RunsStayApart
  <2> QED
    BY <2>3 DEF get_CRC8_check_sum
<1>2. get_CRC16_check_sum(m1) # get_CRC16_check_sum(m2)
  <2>1. /\ IsRun(Pairs, Steps16, <<255, 255>>, m1, Crc16Run(m1))
        /\ IsRun(Pairs, Steps16, <<255, 255>>, m2, Crc16Run(m2))
    BY Crc16IsRun
  <2>2. /\ \A s \in Pairs, b, c \in Bytes : Steps16[s][b] = Steps16[s][c] => b = c
        /\ \A s, t \in Pairs, b \in Bytes : Steps16[s][b] = Steps16[t][b] => s = t
    BY Steps16Properties
  <2>3. Crc16Run(m1)[Len(m1)] # Crc16Run(m2)[Len(m1)]
    BY <2>1, <2>2, RunsStayApart
  <2> QED
    BY <2>3 DEF get_CRC16_check_sum
<1> QED
  BY <1>1, <1>2, Verify8IsNoRest, Verify16IsNoRest

\* Zeros behind a message change nothing: it is accepted with them exactly if it is
\* accepted without (what the reassembly of receiveData relies on, since it leaves the
\* unused part of its buffer behind the frame).
THEOREM PaddingIsInvisible ==
  ASSUME NEW message \in Seq(Bytes), Len(message) > 2,
         NEW padding \in Seq(Bytes), \A i \in 1..Len(padding) : padding[i] = 0
  PROVE  verify_CRC16_check_sum(message \o padding) <=> verify_CRC16_check_sum(message)
<1> DEFINE whole == message \o padding
           k == Len(message)
<1>1. /\ whole \in Seq(Bytes) /\ Len(whole) = Len(message) + Len(padding)
      /\ \A i \in 1..Len(message) + Len(padding) :
           whole[i] = IF i <= Len(message) THEN message[i] ELSE padding[i - Len(message)]
  BY ConcatProperties
<1> HIDE DEF whole
<1>2. /\ k \in 0..Len(whole) /\ k \in Nat /\ k <= Len(whole) /\ Len(whole) \in Nat
      /\ Len(whole) > 2
  BY <1>1
<1>3. \A n \in 1..k : whole[n] = message[n]
  BY <1>1
<1>4. ASSUME NEW n \in (k + 1)..Len(whole) PROVE whole[n] = 0
  <2>1. n - k \in 1..Len(padding) /\ ~(n <= k) /\ n \in 1..Len(message) + Len(padding)
    BY <1>1
  <2> QED
    BY <1>1, <2>1
<1>5. /\ IsRun(Pairs, Steps16, <<255, 255>>, message, Crc16Run(message))
      /\ IsRun(Pairs, Steps16, <<255, 255>>, whole, Crc16Run(whole))
  BY <1>1, Crc16IsRun
<1> HIDE DEF k
<1>6. Crc16Run(whole)[k] = Crc16Run(message)[k]
  BY <1>2, <1>3, <1>5, RunsAgree DEF k
<1>7. NoRest \in Pairs /\ Steps16[NoRest][0] = NoRest
  BY Steps16Properties, ByteFacts DEF NoRest, Pairs
<1>8. \A s, t \in Pairs : Steps16[s][0] = Steps16[t][0] => s = t
  BY Steps16Properties, ByteFacts
<1>9. Crc16Run(whole)[Len(whole)] = NoRest <=> Crc16Run(whole)[k] = NoRest
  BY <1>2, <1>4, <1>5, <1>7, <1>8, ZerosKeepZero
<1>10. get_CRC16_check_sum(whole) = NoRest <=> get_CRC16_check_sum(message) = NoRest
  BY <1>6, <1>9 DEF get_CRC16_check_sum, k
<1> QED
  BY <1>1, <1>2, <1>10, Verify16IsNoRest DEF whole
=============================================================================
