------------------------------ MODULE MCDaemon ------------------------------
(***************************************************************************)
(* A small instance of Daemon for TLC.  A tick is some ten seconds, but    *)
(* the day is twenty of them; of the two intervals one is below the floor. *)
(***************************************************************************)
EXTENDS Daemon
MCHeaders == {-1, 3, 7, 11, 40, 61, 109}
=============================================================================
