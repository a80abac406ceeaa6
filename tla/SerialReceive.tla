---------------------------- MODULE SerialReceive ----------------------------
(***************************************************************************)
(* receiveData: the thread that cuts the byte stream of the MCU into       *)
(* frames and hands each to the publisher of its id.  A read returns any   *)
(* number of bytes from one up to the size of the buffer; the buffer is    *)
(* zero beyond them.  Only the reads of the data segment are completed:    *)
(* a short read of the header is parsed as it is.  The bytes, the          *)
(* checksums and the lengths are the real ones; what a publisher does with *)
(* a message is left out.                                                  *)
(***************************************************************************)
EXTENDS Checksums, FiniteSets

CONSTANTS
  Debug,            \* debug_
  AcceptLegacy,     \* accept_legacy_two_axis_joint_state_
  Messages,         \* what the MCU sends: a sequence of [id, payload]
  Corruptions,      \* noise: <<position, byte>>, of which at most one happens
  MaxShortHeaders   \* bound: header reads that come back short

SOF_RECEIVE == 90
MaxPayload == 58   \* a longer data segment is refused before it is read

ID_DEBUG == 1
ID_PID_DEBUG == 5
ID_JOINT_STATE == 12
ID_GIMBAL_STATE == 14

\* Per id, the bytes between header and checksum in the packed struct of the id: four
\* of time stamp and the data.
PayloadLength == <<154, 28, 7, 6, 16, 32, 7, 16, 44, 8, 33, 16, 11, 43>>
LegacyJointLength == 12

Header(message) == append_CRC8_check_sum(<<SOF_RECEIVE, Len(message.payload), message.id>>)
Frame(message) == append_CRC16_check_sum(Header(message) \o message.payload)
FrameLength(message) == Len(message.payload) + 6

\* The MCU sends the structs of the protocol, the older joint state, and messages with
\* ids the node does not know, one after the other: Start[i] bytes are before frame i.
Start[i \in 1..(Len(Messages) + 1)] ==
  IF i = 1 THEN 0 ELSE Start[i - 1] + FrameLength(Messages[i - 1])

CarrierOf(p) == CHOOSE i \in DOMAIN Messages : Start[i] < p /\ p <= Start[i + 1]
Sent == [p \in 1..Start[Len(Messages) + 1] |->
           Frame(Messages[CarrierOf(p)])[p - Start[CarrierOf(p)]]]

\* The bytes as they may arrive.
Streams == {Sent} \cup {[Sent EXCEPT ![c[1]] = c[2]] : c \in Corruptions}

ASSUME ReceiveAssumption ==
  /\ Debug \in BOOLEAN /\ AcceptLegacy \in BOOLEAN /\ MaxShortHeaders \in Nat
  /\ Messages \in Seq([id : Bytes, payload : Seq(Bytes)])
  /\ \A i \in DOMAIN Messages :
       LET id == Messages[i].id
           length == Len(Messages[i].payload)
       IN  /\ length \in Bytes
           /\ id \in DOMAIN PayloadLength =>
                \/ length = PayloadLength[id]
                \/ id = ID_JOINT_STATE /\ length = LegacyJointLength
  /\ Corruptions \subseteq (DOMAIN Sent) \X Bytes

VARIABLES
  stream,            \* the bytes as they arrive
  pos,               \* how many of them have been read
  pc,
  header_frame,      \* with the sof byte, empty outside a frame
  data_buf, received_len_sum, remain_len,
  published,         \* the messages handed to a publisher
  short_headers,     \* history: header reads that came back short
  port_failed        \* history: a read has thrown

frame_vars == <<header_frame, data_buf, received_len_sum, remain_len>>
receive_vars == <<stream, pos, pc, frame_vars, published, short_headers, port_failed>>

ReceiveInit ==
  /\ stream \in Streams
  /\ pos = 0 /\ pc = "sof" /\ published = <<>>
  /\ header_frame = <<>> /\ data_buf = <<>> /\ received_len_sum = 0 /\ remain_len = 0
  /\ short_headers = 0 /\ port_failed = FALSE

Zeros(n) == [i \in 1..n |-> 0]

\* receive(): the next k bytes, into a buffer of n.
Receives(k, n) == pos + k <= Len(stream) /\ k <= n /\ pos' = pos + k
Received(k, n) == SubSeq(stream, pos + 1, pos + k) \o Zeros(n - k)

ReadSof ==
  /\ pc = "sof" /\ Receives(1, 1)
  /\ pc' = IF Received(1, 1)[1] = SOF_RECEIVE THEN "header" ELSE "sof"
  /\ UNCHANGED <<stream, frame_vars, published, short_headers, port_failed>>

\* Mutant: the header is believed without its checksum.
HeaderOk_NoChecksum(header) == header[2] <= MaxPayload

\* Mutant: any length is read.
HeaderOk_AnyLength(header) == verify_CRC8_check_sum(header)

HeaderOk(header) == verify_CRC8_check_sum(header) /\ header[2] <= MaxPayload

ReadHeader(k) ==
  /\ pc = "header" /\ Receives(k, 3)
  /\ k < 3 => short_headers < MaxShortHeaders
  /\ LET header == <<SOF_RECEIVE>> \o Received(k, 3)
     IN  IF HeaderOk(header) THEN pc' = "data" /\ header_frame' = header
                             ELSE pc' = "sof" /\ UNCHANGED header_frame
  /\ short_headers' = IF k < 3 THEN short_headers + 1 ELSE short_headers
  /\ UNCHANGED <<stream, data_buf, received_len_sum, remain_len, published, port_failed>>

SegmentLength == header_frame[2] + 2

ReadData(k) ==
  /\ pc = "data" /\ Receives(k, SegmentLength)
  /\ data_buf' = Received(k, SegmentLength)
  /\ received_len_sum' = k /\ remain_len' = SegmentLength - k
  /\ pc' = "remain"
  /\ UNCHANGED <<stream, header_frame, published, short_headers, port_failed>>

\* Mutant: the rest is put behind the buffer instead of inside it.
ReadRemain_Appends(k) ==
  /\ pc = "remain" /\ remain_len > 0 /\ Receives(k, remain_len)
  /\ data_buf' = data_buf \o Received(k, remain_len)
  /\ received_len_sum' = received_len_sum + k /\ remain_len' = remain_len - k
  /\ UNCHANGED <<stream, pc, header_frame, published, short_headers, port_failed>>

\* The rest is inserted where the data ends; the zeros behind it stay in the buffer.
ReadRemain(k) ==
  /\ pc = "remain" /\ remain_len > 0 /\ Receives(k, remain_len)
  /\ data_buf' = SubSeq(data_buf, 1, received_len_sum) \o Received(k, remain_len)
                   \o SubSeq(data_buf, received_len_sum + 1, Len(data_buf))
  /\ received_len_sum' = received_len_sum + k /\ remain_len' = remain_len - k
  /\ UNCHANGED <<stream, pc, header_frame, published, short_headers, port_failed>>

\* The ids and lengths the switch publishes.
Handled(id, length) ==
  /\ id \in DOMAIN PayloadLength \ {ID_PID_DEBUG}
  /\ id = ID_DEBUG => Debug
  /\ id = ID_GIMBAL_STATE => length = PayloadLength[id]
  /\ id = ID_JOINT_STATE =>
       length = PayloadLength[id] \/ (AcceptLegacy /\ length = LegacyJointLength)

\* fromVector: as many bytes as the struct has, missing ones zero.
Decode(packet) ==
  LET id == packet[3]
      size == IF id = ID_JOINT_STATE THEN packet[2] ELSE PayloadLength[id]
  IN  [id |-> id, payload |-> SubSeq(packet \o Zeros(size), 5, 4 + size)]

\* Mutant: the checksum of the whole frame is not looked at.
Publishes_NoChecksum(packet) == Handled(packet[3], packet[2])

Publishes(packet) == Handled(packet[3], packet[2]) /\ verify_CRC16_check_sum(packet)

LeaveFrame == pc' = "sof" /\ header_frame' = <<>> /\ data_buf' = <<>>
              /\ received_len_sum' = 0 /\ remain_len' = 0

Dispatch ==
  /\ pc = "remain" /\ remain_len = 0
  /\ LET packet == header_frame \o data_buf
     IN  published' = IF Publishes(packet) THEN Append(published, Decode(packet)) ELSE published
  /\ LeaveFrame
  /\ UNCHANGED <<stream, pos, short_headers, port_failed>>

\* The catch block: the frame is abandoned, and what arrives until the port has been
\* opened anew is lost.
ReadThrows ==
  /\ ~port_failed /\ port_failed' = TRUE
  /\ pos' \in pos..Len(stream)
  /\ LeaveFrame
  /\ UNCHANGED <<stream, published, short_headers>>

ReceiveNext ==
  \/ ReadSof
  \/ \E k \in 1..3 : ReadHeader(k)
  \/ \E k \in 1..(MaxPayload + 2) : ReadData(k) \/ ReadRemain(k)
  \/ Dispatch
  \/ ReadThrows

ReceiveSpec == ReceiveInit /\ [][ReceiveNext]_receive_vars
-----------------------------------------------------------------------------
\* The type invariant of the receiver.
ReceiveTypeOK ==
  /\ stream \in Seq(Bytes) /\ pos \in 0..Len(stream)
  /\ pc \in {"sof", "header", "data", "remain"}
  /\ header_frame \in Seq(Bytes) /\ Len(header_frame) \in {0, 4}
  /\ data_buf \in Seq(Bytes) /\ received_len_sum \in 0..(MaxPayload + 2)
  /\ remain_len \in 0..(MaxPayload + 2)
  /\ published \in Seq([id : Bytes, payload : Seq(Bytes)])
  /\ short_headers \in 0..MaxShortHeaders /\ port_failed \in BOOLEAN

\* What the streams must not contain for a promise below to be kept.  A window of a
\* stream looks like a frame, or like a header, only where the MCU has put one and when it
\* is read whole; s[p] is the start byte and k more bytes of the header are read.
HeaderAt(s, p, k) == <<SOF_RECEIVE>> \o (SubSeq(s, p + 1, p + k) \o Zeros(3 - k))

LooksLikeHeader(s, p, k) ==
  /\ s[p] = SOF_RECEIVE /\ p + k <= Len(s)
  /\ verify_CRC8_check_sum(HeaderAt(s, p, k)) /\ HeaderAt(s, p, k)[2] <= MaxPayload

LooksLikeFrame(s, p, k) ==
  LET header == HeaderAt(s, p, k)
      end == p + k + header[2] + 2
  IN  /\ LooksLikeHeader(s, p, k) /\ end <= Len(s)
      /\ verify_CRC16_check_sum(header \o SubSeq(s, p + k + 1, end))

InPlace(p, k) == k = 3 /\ \E i \in DOMAIN Messages : p = Start[i] + 1

NoFalseFrame ==
  \A s \in Streams, k \in 1..3 :
    \A p \in DOMAIN s : LooksLikeFrame(s, p, k) => InPlace(p, k)
NoFalseHeader ==
  \A s \in Streams, k \in 1..3 :
    \A p \in DOMAIN s : LooksLikeHeader(s, p, k) => InPlace(p, k)

\* A frame that is refused for its length has no further start byte.
RefusedAreQuiet ==
  \A i \in DOMAIN Messages : Len(Messages[i].payload) > MaxPayload =>
    \A p \in (Start[i] + 5)..Start[i + 1] : Sent[p] # SOF_RECEIVE

\* No frame has a start byte so close to its end that a header read would leave it.
StartBytesInside ==
  \A s \in Streams, i \in DOMAIN Messages :
    \A p \in (Start[i + 1] - 2)..Start[i + 1] : s[p] # SOF_RECEIVE

Publishable(i) ==
  /\ Len(Messages[i].payload) <= MaxPayload
  /\ Handled(Messages[i].id, Len(Messages[i].payload))
Consumed == {i \in DOMAIN Messages : Start[i + 1] <= pos}

\* The ways to say which message each published one was, in the order of sending.
Deliveries ==
  {index \in [DOMAIN published -> DOMAIN Messages] :
     /\ \A n \in DOMAIN published : published[n] = Messages[index[n]]
     /\ \A m, n \in DOMAIN published : m < n => index[m] < index[n]}

\* The messages that should have been published and were not.
Lost(index) == {i \in Consumed : Publishable(i)} \ {index[n] : n \in DOMAIN index}

\* Whatever is published was sent, and in the order in which it was sent, none of it
\* twice: short reads, noise and a reader that starts in the middle of a frame never
\* make up a message (receiveData, checks of header and frame).
PublishedWasSent == Deliveries # {}

\* However the data segments are split into reads, an undisturbed stream loses nothing:
\* reassembly leaves zeros behind the frame, and the checksum is still right with them
\* (receiveData, comment of lines 571-572).
SplitReadsLoseNothing ==
  pc = "sof" /\ stream = Sent /\ short_headers = 0 /\ ~port_failed =>
    \E index \in Deliveries : Lost(index) = {}

\* Without a failure of the port, each short header read and each corrupted byte costs
\* at most one frame: the reader is back in step by the next one.  This is said of streams
\* that hold no false header (NoFalseHeader) and no start byte in the last three bytes of
\* a frame (StartBytesInside); without the latter, the reader can take the first bytes of
\* the next frame for a header, and one disturbance costs two frames.
DisturbanceCostsOneFrame ==
  pc = "sof" /\ ~port_failed =>
    \E index \in Deliveries :
      Cardinality(Lost(index)) <= short_headers + (IF stream = Sent THEN 0 ELSE 1)
=============================================================================
