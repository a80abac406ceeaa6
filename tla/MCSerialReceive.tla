--------------------------- MODULE MCSerialReceive ---------------------------
(* A small instance of the receiver for TLC: a few messages of every kind of  *)
(* treatment, one with a start byte in its payload.                           *)
EXTENDS SerialReceive, ChecksumTables

\* An event, a joint state in the legacy format, a message of unknown id whose
\* length is refused, and a game status.
MCMessages == <<
  [id |-> 4, payload |-> <<7, 90, 0, 1, 3, 0>>],
  [id |-> 12, payload |-> <<1, 2, 3, 4, 0, 0, 0, 0, 0, 0, 9, 0>>],
  [id |-> 32, payload |-> [i \in 1..59 |-> 17]],
  [id |-> 7, payload |-> <<9, 0, 0, 0, 4, 200, 0>>]>>

\* The start byte, the length (longer and shorter), the id and a payload byte of the
\* event, a payload byte turned into a start byte, and the high byte of its checksum.
MCCorruptions == {<<1, 91>>, <<2, 30>>, <<2, 5>>, <<3, 7>>, <<5, 8>>, <<9, 90>>, <<12, 0>>}

\* The checksums see through the noise of this instance, and no start byte is misplaced.
ASSUME InstanceIsUnambiguous ==
  NoFalseFrame /\ NoFalseHeader /\ RefusedAreQuiet /\ StartBytesInside
=============================================================================
