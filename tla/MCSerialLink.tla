---------------------------- MODULE MCSerialLink ----------------------------
(* Small instances of the serial link for TLC.  The timeouts are off, so the  *)
(* ages stay at zero: the runs of MCFrameFields are about time.               *)
EXTENDS SerialLink

\* One fresh sample at a time: staleness is the gate's concern.
MCSampleAges == {0}

\* A timeout that is switched off.
MCOff == -1
=============================================================================
