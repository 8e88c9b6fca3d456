--------------------------- MODULE SlabAllocators ---------------------------
(***************************************************************************)
(* The allocators side by side: a container or std::allocate_shared() is   *)
(* given one of them as a template argument.  Which one is chosen at the   *)
(* start; the variables of the others keep their initial values.           *)
(***************************************************************************)
EXTENDS Naturals

CONSTANTS Threads, Main, SlabsPerChunk, MaxChunks, MaxCalls,
          MaxLockFreeCalls, MaxStringCalls,  \* the bounds for two of them
          ChunkSize, NumberOfClasses, Sizes

ASSUME SlabAssumption ==
    /\ Main \in Threads
    /\ SlabsPerChunk \in Nat /\ SlabsPerChunk >= 2
    /\ {MaxChunks, MaxCalls, MaxLockFreeCalls, MaxStringCalls} \subseteq Nat
    /\ ChunkSize \in Nat /\ ChunkSize >= 2048
    /\ Sizes \subseteq Nat

VARIABLES
    allocator, users, chunks, calls,
    head, next, pc, old, new, tail, chosen,             \* semi-lock-free
    list, count, threshold, central, ended, lost,       \* thread-local, simple
    lists, live, outcome                                \* strings

semiLockFreeVars == <<head, next, pc, old, new, tail, chosen>>
threadLocalVars == <<list, count, threshold, central, ended, lost>>
stringVars == <<lists, live, outcome>>
vars == <<allocator, users, chunks, calls, semiLockFreeVars, threadLocalVars,
          stringVars>>

SemiLockFree == INSTANCE SemiLockFreeSlabAllocator WITH MaxCalls <- MaxLockFreeCalls
ThreadLocal == INSTANCE ThreadLocalSlabAllocator
String == INSTANCE StringSlabAllocator WITH MaxCalls <- MaxStringCalls
Pool == INSTANCE SlabPool WITH Slabs <- ThreadLocal!Slabs

Init ==
    /\ allocator \in {"semi_lock_free", "thread_local", "simple", "string"}
    /\ SemiLockFree!Init
    /\ ThreadLocal!Init
    /\ String!Init

SemiLockFreeStep ==
    /\ allocator = "semi_lock_free"
    /\ SemiLockFree!Next
    /\ UNCHANGED <<allocator, threadLocalVars, stringVars>>

ThreadLocalStep ==
    /\ allocator = "thread_local"
    /\ ThreadLocal!Next
    /\ UNCHANGED <<allocator, semiLockFreeVars, stringVars>>

SimpleStep ==
    /\ allocator = "simple"
    /\ ThreadLocal!SimpleNext
    /\ UNCHANGED <<allocator, semiLockFreeVars, stringVars>>

StringStep ==
    /\ allocator = "string"
    /\ String!Next
    /\ UNCHANGED <<allocator, users, semiLockFreeVars, threadLocalVars>>

Next == SemiLockFreeStep \/ ThreadLocalStep \/ SimpleStep \/ StringStep

Spec == Init /\ [][Next]_vars

-----------------------------------------------------------------------------
(* Properties *)

CallBound ==
    CASE allocator = "semi_lock_free" -> MaxLockFreeCalls
      [] allocator = "string" -> MaxStringCalls
      [] OTHER -> MaxCalls

\* The variables hold what the members they stand for can hold.
TypeOK ==
    /\ users \in [ThreadLocal!Slabs -> 0 .. 1]
    /\ chunks \in 0 .. MaxChunks /\ calls \in 0 .. CallBound
    /\ SemiLockFree!TypeOK
    /\ ThreadLocal!TypeOK
    /\ outcome \in {"ok", "corrupted"}

\* allocate() never returns a slab that is in use, whatever the threads that
\* pop and push the shared list, or pass chunks on through the central pool, do
\* in between: each allocator implements SlabPool.
ImplementsPool == Pool!Spec

\* Every slab of every chunk is in exactly one place, lists are free of garbage,
\* and the thread-local counts match their lists and stay below the threshold;
\* the bytes of live strings overlap neither each other nor a free slab.
SlabsAccountedFor ==
    CASE allocator = "semi_lock_free" -> SemiLockFree!SlabsAccountedFor
      [] allocator = "thread_local" -> /\ ThreadLocal!SlabsAccountedFor
                                       /\ ThreadLocal!ListsMatchCounts
      [] allocator = "simple" -> ThreadLocal!SlabsAccountedFor
      [] allocator = "string" -> outcome = "ok" => String!StringsDisjoint

\* get_next_power_of_2() "returns the exponent itself (i.e. $e$)", which is the
\* class of a small string and an element of the array of 12 lists.
StringClassIsExponent == allocator = "string" => String!ClassIsExponent
=============================================================================
