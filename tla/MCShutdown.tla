---------------------------- MODULE MCShutdown -----------------------------
(* A small instance of the node's receive thread and its end for TLC.         *)
EXTENDS Shutdown

\* A robot of each colour and one that does not exist; a countdown among other progress.
MCRobotIds == {1, 50, 101}
MCProgresses == {COUNT_DOWN, GAME_OVER}
=============================================================================
