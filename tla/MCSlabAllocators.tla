-------------------------- MODULE MCSlabAllocators --------------------------
(* Instances of SlabAllocators for TLC. *)
EXTENDS SlabAllocators

CONSTANTS t1, t2
=============================================================================
