---------------------------- MODULE MCKeepAlive -----------------------------
(* The constants of the code in ticks of 5 seconds are given in the .cfg files. *)
EXTENDS KeepAlive

\* The clock set back by more than the time to the pause, or set forward.
BackAndForth == {-13, 5}
=============================================================================
