-------------------------- MODULE MCLogCollector --------------------------
(* Instances of LogCollector for TLC. *)
EXTENDS LogCollector

CONSTANTS m, w
===========================================================================
