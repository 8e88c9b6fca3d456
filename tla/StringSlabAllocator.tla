------------------------ MODULE StringSlabAllocator ------------------------
(***************************************************************************)
(* StaticSimpleThreadLocalStringSlabAllocator, the allocator of            *)
(* util::string: free lists by size class, all of one thread.  A class     *)
(* names an element of an array of NumberOfClasses lists and, as the count *)
(* of two shifts, the size and the number of the slabs of a chunk.         *)
(*                                                                         *)
(* A size_t that stands for a negative int is that int here: array         *)
(* elements are at the same distance from the array, and a shift uses the  *)
(* last five bits of its count (what x86-64 does where C++ leaves it       *)
(* open).  An element outside the array is memory of something else: the   *)
(* step may find and keep a list there, or end in "corrupted".             *)
(***************************************************************************)
EXTENDS Integers, Sequences

CONSTANTS ChunkSize,        \* 4096
          NumberOfClasses,  \* 12: 2^11 = 2048
          Sizes,            \* the sizes that are asked for
          MaxChunks,        \* bound on the chunks
          MaxCalls          \* bound on the calls of allocate() and deallocate()

SmallestSize == 32
LargestSize == 2048

VARIABLES
    chunks, calls,
    lists,      \* the free lists, by class: offsets <<chunk, offset>>
    live,       \* the strings' blocks, by the call that allocated them
    outcome     \* "ok" or "corrupted"

vars == <<chunks, calls, lists, live, outcome>>

NoBlock == [place |-> <<0, 0>>, size |-> 0]
Heap == <<-1, 0>>

\* How many bits a number has: the least power of 2 that is larger
BitLength(n) ==
    CHOOSE b \in 0 .. 64 : n < 2 ^ b /\ \A a \in 0 .. b - 1 : 2 ^ a <= n

\* __builtin_clzll()
CountLeadingZeros(n) == 64 - BitLength(n)

\* alignment::get_next_power_of_2()
GetNextPowerOf2(n) == 32 - CountLeadingZeros(n - 1)

ClassOf(n) == GetNextPowerOf2(IF n < SmallestSize THEN SmallestSize ELSE n)

Classes == {ClassOf(n) : n \in {m \in Sizes : m <= LargestSize}}
Shift(class) == 2 ^ (class % 32)

Init ==
    /\ chunks = 0
    /\ calls = 0
    /\ lists = [c \in Classes |-> <<>>]
    /\ live = [i \in 1 .. MaxCalls |-> NoBlock]
    /\ outcome = "ok"

Call ==
    /\ outcome = "ok"
    /\ calls < MaxCalls
    /\ calls' = calls + 1

Give(place, n) ==
    live' = [live EXCEPT ![calls'] = [place |-> place, size |-> n]]

\* allocate() of no byte throws: no block has size 0, and deallocate() need
\* not abort over one.
AllocateNothing(n) ==
    /\ Call
    /\ n = 0
    /\ UNCHANGED <<chunks, lists, live, outcome>>

\* allocate() of a long string is malloc().
AllocateLong(n) ==
    /\ Call
    /\ n > LargestSize
    /\ Give(Heap, n)
    /\ UNCHANGED <<chunks, lists, outcome>>

AllocateFromList(n) ==
    /\ Call
    /\ n \in 1 .. LargestSize
    /\ lists[ClassOf(n)] # <<>>
    /\ lists' = [lists EXCEPT ![ClassOf(n)] = Tail(@)]
    /\ Give(Head(lists[ClassOf(n)]), n)
    /\ UNCHANGED <<chunks, outcome>>

\* The slabs of a new chunk, the last one first
Carve(c, class) ==
    LET number == ChunkSize \div Shift(class)
    IN  [i \in 1 .. number |-> <<c, (number - i) * Shift(class)>>]

AllocateFromChunk(n) ==
    /\ Call
    /\ n \in 1 .. LargestSize
    /\ lists[ClassOf(n)] = <<>>
    /\ chunks < MaxChunks
    /\ chunks' = chunks + 1
    /\ LET slabs == Carve(chunks', ClassOf(n))
       IN  /\ lists' = [lists EXCEPT ![ClassOf(n)] = Tail(slabs)]
           /\ Give(Head(slabs), n)
    /\ UNCHANGED outcome

\* What is outside the array is not an empty list.
Corrupted(n) ==
    /\ Call
    /\ n \in 1 .. LargestSize
    /\ ClassOf(n) \notin 0 .. NumberOfClasses - 1
    /\ outcome' = "corrupted"
    /\ UNCHANGED <<chunks, lists, live>>

\* deallocate() with the size that was asked for
Deallocate(i) ==
    /\ Call
    /\ live[i] # NoBlock
    /\ live' = [live EXCEPT ![i] = NoBlock]
    /\ IF live[i].size > LargestSize
       THEN UNCHANGED lists
       ELSE lists' = [lists EXCEPT ![ClassOf(live[i].size)] =
                        <<live[i].place>> \o @]
    /\ UNCHANGED <<chunks, outcome>>

Next ==
    \/ \E n \in Sizes :
          \/ AllocateNothing(n)
          \/ AllocateLong(n)
          \/ AllocateFromList(n)
          \/ AllocateFromChunk(n)
          \/ Corrupted(n)
    \/ \E i \in 1 .. MaxCalls : Deallocate(i)

Spec == Init /\ [][Next]_vars

-----------------------------------------------------------------------------
(* Properties *)

\* The class of a small string is an element of the array of lists, and the
\* exponent of the smallest power of 2 that holds it, as the comments at
\* get_next_power_of_2() and at the array say.
ClassIsExponent ==
    \A i \in DOMAIN live :
       live[i].size \in 1 .. LargestSize =>
          LET class == ClassOf(live[i].size)
          IN  /\ class \in 0 .. NumberOfClasses - 1
              /\ live[i].size <= 2 ^ class

\* The bytes of a live string are inside its chunk and belong to no other live
\* string and to no free slab's link.
StringsDisjoint ==
    LET small == {i \in DOMAIN live : live[i].size \in 1 .. LargestSize}
        Disjoint(p, m, q, n) ==
           p[1] # q[1] \/ p[2] + m <= q[2] \/ q[2] + n <= p[2]
    IN  /\ \A i \in small :
             /\ live[i].place[1] \in 1 .. chunks
             /\ live[i].place[2] + live[i].size <= ChunkSize
             /\ \A j \in small \ {i} :
                  Disjoint(live[i].place, live[i].size,
                           live[j].place, live[j].size)
             /\ \A c \in Classes : \A k \in DOMAIN lists[c] :
                  Disjoint(live[i].place, live[i].size, lists[c][k], 8)
=============================================================================
