--------------------- MODULE SemiLockFreeSlabAllocator ---------------------
(***************************************************************************)
(* SemiLockFreeSlabAllocator and its static twin, whose code is the same:  *)
(* a free list with a tagged head that several threads pop and push with   *)
(* compare_exchange_weak.  Slab <<c, i>> is the i-th of chunk c.           *)
(*                                                                         *)
(* A user overwrites the slab it was given, so its first word, which is    *)
(* the link of a free slab, is Garbage then; a thread that still believes  *)
(* the slab to be the head of the list may read it.                        *)
(***************************************************************************)
EXTENDS Naturals, FiniteSets

CONSTANTS Threads,
          SlabsPerChunk,  \* _NUMBER_OF_SLABS_PER_CHUNK, at least 2
          MaxChunks,      \* bound on the chunks
          MaxCalls        \* bound on the calls of allocate() and deallocate()

Slabs == (1 .. MaxChunks) \X (1 .. SlabsPerChunk)
Null == <<0, 0>>
Garbage == <<0, 1>>

VARIABLES
    users, chunks, calls,   \* users of a slab, chunks allocated, calls made
    head,     \* _linked_list_of_free_slabs: [node, tag]
    next,     \* the first word of every slab
    pc,       \* what a thread is doing
    old,      \* its old_head
    new,      \* its new_head.node_ptr
    tail,     \* the slab whose link it sets before it publishes new
    chosen    \* the slab it will return, or Null

vars == <<users, chunks, calls, head, next, pc, old, new, tail, chosen>>

Init ==
    /\ users = [s \in Slabs |-> 0]
    /\ chunks = 0
    /\ calls = 0
    /\ head = [node |-> Null, tag |-> 0]
    /\ next = [s \in Slabs |-> Garbage]
    /\ pc = [t \in Threads |-> "idle"]
    /\ old = [t \in Threads |-> [node |-> Null, tag |-> 0]]
    /\ new = [t \in Threads |-> Null]
    /\ tail = [t \in Threads |-> Null]
    /\ chosen = [t \in Threads |-> Null]

Goto(t, from, to) ==
    /\ pc[t] = from
    /\ pc' = [pc EXCEPT ![t] = to]

\* Mutant: the tag is not incremented.
SameTag(node, old_head) == [node |-> node, tag |-> old_head.tag]

\* new_head, as a successful compare_exchange_weak() stores it
Tagged(node, old_head) == [node |-> node, tag |-> old_head.tag + 1]

\* The thread is given the slab and writes to it.
Hand(s) ==
    /\ users' = [users EXCEPT ![s] = @ + 1]
    /\ next' = [next EXCEPT ![s] = Garbage]

\* allocate(): load the head,
LoadHead(t) ==
    /\ Goto(t, "idle", "allocate")
    /\ calls < MaxCalls
    /\ calls' = calls + 1
    /\ old' = [old EXCEPT ![t] = head]
    /\ UNCHANGED <<users, chunks, head, next, new, tail, chosen>>

\* read the link of the slab it names, whoever has the slab now,
ReadNext(t) ==
    /\ Goto(t, "allocate", "pop")
    /\ old[t].node \in Slabs
    /\ new' = [new EXCEPT ![t] = next[old[t].node]]
    /\ UNCHANGED <<users, chunks, calls, head, next, old, tail, chosen>>

\* and swing the head to it.
Pop(t) ==
    /\ Goto(t, "pop", "idle")
    /\ head = old[t]
    /\ head' = Tagged(new[t], old[t])
    /\ Hand(old[t].node)
    /\ UNCHANGED <<chunks, calls, old, new, tail, chosen>>

\* A failure, which may be spurious, loads the head again.
PopFails(t) ==
    /\ Goto(t, "pop", "allocate")
    /\ old' = [old EXCEPT ![t] = head]
    /\ UNCHANGED <<users, chunks, calls, head, next, new, tail, chosen>>

\* _allocate_one_chunk(), when the list was empty: all slabs of the chunk but
\* the last are linked, the first one being the tail; the last one is kept.
AllocateOneChunk(t) ==
    /\ Goto(t, "allocate", "link")
    /\ old[t].node = Null
    /\ chunks < MaxChunks
    /\ chunks' = chunks + 1
    /\ next' = [s \in Slabs |->
                  IF s[1] = chunks' /\ s[2] \in 2 .. SlabsPerChunk - 1
                  THEN <<s[1], s[2] - 1>> ELSE next[s]]
    /\ new' = [new EXCEPT ![t] = <<chunks', SlabsPerChunk - 1>>]
    /\ tail' = [tail EXCEPT ![t] = <<chunks', 1>>]
    /\ chosen' = [chosen EXCEPT ![t] = <<chunks', SlabsPerChunk>>]
    /\ old' = [old EXCEPT ![t] = head]
    /\ UNCHANGED <<users, calls, head>>

\* deallocate(): any thread may give back any slab in use.
BeginDeallocate(t, s) ==
    /\ Goto(t, "idle", "link")
    /\ calls < MaxCalls
    /\ calls' = calls + 1
    /\ users[s] > 0
    /\ users' = [users EXCEPT ![s] = @ - 1]
    /\ new' = [new EXCEPT ![t] = s]
    /\ tail' = [tail EXCEPT ![t] = s]
    /\ chosen' = [chosen EXCEPT ![t] = Null]
    /\ old' = [old EXCEPT ![t] = head]
    /\ UNCHANGED <<chunks, head, next>>

\* Both push in the same way: link the tail to the head that was loaded,
LinkTail(t) ==
    /\ Goto(t, "link", "push")
    /\ next' = [next EXCEPT ![tail[t]] = old[t].node]
    /\ UNCHANGED <<users, chunks, calls, head, old, new, tail, chosen>>

\* and publish; a new chunk's last slab is then returned by allocate().
Push(t) ==
    /\ Goto(t, "push", "idle")
    /\ head = old[t]
    /\ head' = Tagged(new[t], old[t])
    /\ IF chosen[t] = Null THEN UNCHANGED <<users, next>> ELSE Hand(chosen[t])
    /\ UNCHANGED <<chunks, calls, old, new, tail, chosen>>

PushFails(t) ==
    /\ Goto(t, "push", "link")
    /\ old' = [old EXCEPT ![t] = head]
    /\ UNCHANGED <<users, chunks, calls, head, next, new, tail, chosen>>

Allocate(t) ==
    LoadHead(t) \/ ReadNext(t) \/ Pop(t) \/ PopFails(t) \/ AllocateOneChunk(t)

Deallocate(t) ==
    \/ \E s \in Slabs : BeginDeallocate(t, s)
    \/ LinkTail(t)
    \/ Push(t)
    \/ PushFails(t)

Next == \E t \in Threads : Allocate(t) \/ Deallocate(t)

Spec == Init /\ [][Next]_vars

-----------------------------------------------------------------------------
(* Properties *)

\* The variables hold what the members they stand for can hold; a call changes
\* the head at most once.
TypeOK ==
    /\ head.node \in Slabs \cup {Null} /\ head.tag \in 0 .. calls
    /\ \A s \in Slabs : next[s] \in Slabs \cup {Null, Garbage}
    /\ \A t \in Threads :
         /\ pc[t] \in {"idle", "allocate", "pop", "link", "push"}
         /\ old[t].node \in Slabs \cup {Null}
         /\ new[t] \in Slabs \cup {Null, Garbage}
         /\ tail[t] \in Slabs \cup {Null}
         /\ chosen[t] \in Slabs \cup {Null}

\* Where the list leads in k steps from its head
Reached ==
    LET at[k \in 0 .. Cardinality(Slabs)] ==
          IF k = 0 THEN head.node
          ELSE IF at[k - 1] \in Slabs THEN next[at[k - 1]] ELSE at[k - 1]
    IN  at

FreeSlabs == {Reached[k] : k \in DOMAIN Reached} \cap Slabs

\* The slabs that a thread has on its hands: those it will publish, and the one
\* it will return.
OnHand(t) ==
    IF pc[t] \notin {"link", "push"} THEN {}
    ELSE IF chosen[t] = Null THEN {new[t]}
    ELSE {chosen[t][1]} \X (1 .. SlabsPerChunk)

\* However the compare_exchange_weak() of the threads interleave, the free list
\* ends and holds no garbage, and every slab of a chunk is in exactly one
\* place: free, on the hands of one thread, or in use.
SlabsAccountedFor ==
    /\ Reached[Cardinality(Slabs)] = Null
    /\ \A s \in Slabs :
         (IF s \in FreeSlabs THEN 1 ELSE 0)
           + Cardinality({t \in Threads : s \in OnHand(t)})
           + users[s] = (IF s[1] <= chunks THEN 1 ELSE 0)
=============================================================================
