---------------------------- MODULE MCTimerQueue ----------------------------
(* Instances of TimerQueue for TLC. *)
EXTENDS TimerQueue

CONSTANTS a, b
MCRepetitions == {-1, 0, 1}
=============================================================================
