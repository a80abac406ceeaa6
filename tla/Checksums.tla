----------------------------- MODULE Checksums ------------------------------
(***************************************************************************)
(* crc8_crc16.cpp, byte by byte.  The tables of the source are constants,  *)
(* assumed only to have the properties that make them checksum tables;     *)
(* ChecksumTables has the real ones.  A 16-bit checksum is the pair        *)
(* <<low byte, high byte>> in which it travels.                            *)
(***************************************************************************)
EXTENDS Integers, Sequences

CONSTANTS
  XorOf,        \* exclusive or of two bytes
  CRC8_TABLE,
  W_CRC_TABLE   \* of pairs <<low byte, high byte>>

Bytes == 0..255

ASSUME XorAssumption ==
  /\ XorOf \in [Bytes -> [Bytes -> Bytes]]
  /\ \A x \in Bytes : XorOf[x][0] = x
  /\ \A x, y \in Bytes : XorOf[x][y] = XorOf[y][x] /\ XorOf[XorOf[x][y]][y] = x

\* No two bytes share an entry of the first table, or a high byte of the second.
ASSUME TableAssumption ==
  /\ CRC8_TABLE \in [Bytes -> Bytes] /\ CRC8_TABLE[0] = 0
  /\ \A x, y \in Bytes : CRC8_TABLE[x] = CRC8_TABLE[y] => x = y
  /\ W_CRC_TABLE \in [Bytes -> Bytes \X Bytes] /\ W_CRC_TABLE[0] = <<0, 0>>
  /\ \A x, y \in Bytes : W_CRC_TABLE[x][2] = W_CRC_TABLE[y][2] => x = y

\* One turn of each loop: the checksum so far and the next byte.
Crc8Step(crc, byte) == CRC8_TABLE[XorOf[crc][byte]]
Crc16Step(crc, byte) ==
  LET entry == W_CRC_TABLE[XorOf[crc[1]][byte]]
  IN  <<XorOf[crc[2]][entry[1]], entry[2]>>

\* The checksum after every prefix of the message.
Crc8Run(message) ==
  LET crc[n \in 0..Len(message)] == IF n = 0 THEN 255 ELSE Crc8Step(crc[n - 1], message[n])
  IN  crc
Crc16Run(message) ==
  LET crc[n \in 0..Len(message)] ==
        IF n = 0 THEN <<255, 255>> ELSE Crc16Step(crc[n - 1], message[n])
  IN  crc

get_CRC8_check_sum(message) == Crc8Run(message)[Len(message)]
get_CRC16_check_sum(message) == Crc16Run(message)[Len(message)]

\* The message without its checksum is given and returned with it.
append_CRC8_check_sum(message) == Append(message, get_CRC8_check_sum(message))
append_CRC16_check_sum(message) == message \o get_CRC16_check_sum(message)

verify_CRC8_check_sum(message) ==
  /\ Len(message) > 2
  /\ append_CRC8_check_sum(SubSeq(message, 1, Len(message) - 1)) = message

verify_CRC16_check_sum(message) ==
  /\ Len(message) > 2
  /\ append_CRC16_check_sum(SubSeq(message, 1, Len(message) - 2)) = message
=============================================================================
