------------------------------ MODULE SlabPool ------------------------------
(***************************************************************************)
(* What a slab allocator promises: allocate() returns a slab that nobody   *)
(* uses, and the slab is in use until it is given back.                    *)
(***************************************************************************)
EXTENDS Naturals

CONSTANT Slabs

VARIABLE users   \* how many users were given a slab

Init == users = [s \in Slabs |-> 0]

Allocate(s) ==
    /\ users[s] = 0
    /\ users' = [users EXCEPT ![s] = 1]

Deallocate(s) ==
    /\ users[s] = 1
    /\ users' = [users EXCEPT ![s] = 0]

Next == \E s \in Slabs : Allocate(s) \/ Deallocate(s)

Spec == Init /\ [][Next]_users
=============================================================================
