CONSTANTS
  XorOf <- ByteXor
  CRC8_TABLE <- Crc8Table
  W_CRC_TABLE <- WCrcTable
  Debug = FALSE
  AcceptLegacy = TRUE
  Messages <- MCMessages
  Corruptions <- MCCorruptions
  MaxShortHeaders = 2
SPECIFICATION ReceiveSpec
INVARIANTS ReceiveTypeOK PublishedWasSent SplitReadsLoseNothing DisturbanceCostsOneFrame
CHECK_DEADLOCK FALSE
