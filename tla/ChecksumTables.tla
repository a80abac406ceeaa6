-------------------------- MODULE ChecksumTables ----------------------------
(***************************************************************************)
(* The tables of crc8_crc16.cpp.  They are the remainders of the reflected *)
(* polynomials the source names, so they are computed here; they agree     *)
(* with the source entry by entry.                                         *)
(***************************************************************************)
EXTENDS Integers, Bitwise

ByteXor == [x \in 0..255 |-> [y \in 0..255 |-> x ^^ y]]

Remainder(polynomial, byte) ==
  LET shifted[n \in 0..8] ==
        IF n = 0 THEN byte
        ELSE LET last == shifted[n - 1]
             IN  IF last % 2 = 0 THEN last \div 2 ELSE (last \div 2) ^^ polynomial
  IN  shifted[8]

Crc8Table == [byte \in 0..255 |-> Remainder(140, byte)]
WCrcTable == [byte \in 0..255 |->
  <<Remainder(33800, byte) % 256, Remainder(33800, byte) \div 256>>]
=============================================================================
