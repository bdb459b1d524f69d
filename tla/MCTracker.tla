----------------------------- MODULE MCTracker ------------------------------
(* Two servers to check and one to hear of; a unit of time is 15 seconds: the *)
(* default conn_timeout is two units, destroy waits for four.  A conn_timeout *)
(* of five units is longer than that wait.                                    *)
EXTENDS Tracker
=============================================================================
