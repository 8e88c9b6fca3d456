---------------------- MODULE ThreadLocalSlabAllocator ----------------------
(***************************************************************************)
(* StaticThreadLocalSlabAllocator: every thread has a free list of its own *)
(* and hands whole chunks of free slabs to a central pool when its list    *)
(* grows too long, and takes them from there.  The list is private to its  *)
(* thread and the pool is locked, so that a call is one step.              *)
(*                                                                         *)
(* SimpleSlabAllocator and StaticSimpleSlabAllocator, which one thread     *)
(* uses, are the list alone, without a count and a pool.                   *)
(***************************************************************************)
EXTENDS Naturals, SequencesExt

CONSTANTS Threads, Main,
          SlabsPerChunk,  \* _NUMBER_OF_SLABS_PER_CHUNK
          MaxChunks,      \* bound on the chunks
          MaxCalls        \* bound on the calls of allocate() and deallocate()

Slabs == (1 .. MaxChunks) \X (1 .. SlabsPerChunk)

VARIABLES
    users, chunks, calls,   \* users of a slab, chunks allocated, calls made
    list,        \* _linked_list_of_free_slabs of every thread
    count,       \* _number_of_free_slabs
    threshold,   \* _cut_off_threshold
    central,     \* _free_chunks
    ended,       \* threads that have ended
    lost         \* free slabs that went with them

vars == <<users, chunks, calls, list, count, threshold, central, ended, lost>>

Init ==
    /\ users = [s \in Slabs |-> 0]
    /\ chunks = 0
    /\ calls = 0
    /\ list = [t \in Threads |-> <<>>]
    /\ count = [t \in Threads |-> 0]
    /\ threshold = [t \in Threads |-> SlabsPerChunk]
    /\ central = <<>>
    /\ ended = {}
    /\ lost = {}

Call(t) ==
    /\ t \notin ended
    /\ calls < MaxCalls
    /\ calls' = calls + 1
    /\ UNCHANGED <<ended, lost>>

\* The last slab of a new chunk becomes the head of the list.
NewChunk(c) == Reverse([i \in 1 .. SlabsPerChunk |-> <<c, i>>])

\* Return the first slab of the free list, which is free now.
TakeFrom(t, free) ==
    /\ list' = [list EXCEPT ![t] = Tail(free)]
    /\ users' = [users EXCEPT ![Head(free)] = @ + 1]

\* allocate() from the thread's own list,
AllocateLocally(t) ==
    /\ Call(t)
    /\ count[t] > 0
    /\ TakeFrom(t, list[t])
    /\ count' = [count EXCEPT ![t] = @ - 1]
    /\ UNCHANGED <<chunks, threshold, central>>

\* from a chunk of the central pool,
AllocateFromPool(t) ==
    /\ Call(t)
    /\ count[t] = 0
    /\ central # <<>>
    /\ TakeFrom(t, Last(central) \o list[t])
    /\ central' = Front(central)
    /\ count' = [count EXCEPT ![t] = @ + SlabsPerChunk - 1]
    /\ UNCHANGED <<chunks, threshold>>

\* Mutant: a new chunk is not counted.
AllocateUncounted(t) ==
    /\ Call(t)
    /\ count[t] = 0
    /\ central = <<>>
    /\ chunks < MaxChunks
    /\ chunks' = chunks + 1
    /\ TakeFrom(t, NewChunk(chunks') \o list[t])
    /\ threshold' = [threshold EXCEPT ![t] = @ + SlabsPerChunk]
    /\ count' = [count EXCEPT ![t] = @ - 1]
    /\ UNCHANGED central

\* or from a new chunk of its own, which raises the threshold.
AllocateFromChunk(t) ==
    /\ Call(t)
    /\ count[t] = 0
    /\ central = <<>>
    /\ chunks < MaxChunks
    /\ chunks' = chunks + 1
    /\ TakeFrom(t, NewChunk(chunks') \o list[t])
    /\ threshold' = [threshold EXCEPT ![t] = @ + SlabsPerChunk]
    /\ count' = [count EXCEPT ![t] = @ + SlabsPerChunk - 1]
    /\ UNCHANGED central

Free(t, s) == <<s>> \o list[t]

\* deallocate(), in whichever thread the last user is, when the list stays
\* below the threshold,
DeallocateLocally(t, s) ==
    /\ Call(t)
    /\ users[s] > 0
    /\ count[t] + 1 < threshold[t]
    /\ users' = [users EXCEPT ![s] = @ - 1]
    /\ list' = [list EXCEPT ![t] = Free(t, s)]
    /\ count' = [count EXCEPT ![t] = @ + 1]
    /\ UNCHANGED <<chunks, threshold, central>>

\* Mutant: the tail of what is cut off stays in the list.
CutOffTooMuch(t, s) ==
    /\ Call(t)
    /\ users[s] > 0
    /\ count[t] + 1 >= threshold[t]
    /\ users' = [users EXCEPT ![s] = @ - 1]
    /\ central' = Append(central, SubSeq(Free(t, s), 1, SlabsPerChunk))
    /\ list' = [list EXCEPT ![t] =
                  SubSeq(Free(t, s), SlabsPerChunk, Len(Free(t, s)))]
    /\ count' = [count EXCEPT ![t] = @ + 1 - SlabsPerChunk]
    /\ UNCHANGED <<chunks, threshold>>

\* and when it reaches it: a chunk is cut off for the pool.
DeallocateAndCutOff(t, s) ==
    /\ Call(t)
    /\ users[s] > 0
    /\ count[t] + 1 >= threshold[t]
    /\ users' = [users EXCEPT ![s] = @ - 1]
    /\ central' = Append(central, SubSeq(Free(t, s), 1, SlabsPerChunk))
    /\ list' = [list EXCEPT ![t] =
                  SubSeq(Free(t, s), SlabsPerChunk + 1, Len(Free(t, s)))]
    /\ count' = [count EXCEPT ![t] = @ + 1 - SlabsPerChunk]
    /\ UNCHANGED <<chunks, threshold>>

\* A thread other than the main thread ends: nothing can reach its list again.
\* ~ChunkManager frees its chunks; in TcpServer only the main thread allocates,
\* so a thread that ends has none.
ThreadEnds(t) ==
    /\ t # Main /\ t \notin ended
    /\ threshold[t] = SlabsPerChunk
    /\ ended' = ended \cup {t}
    /\ lost' = lost \cup ToSet(list[t])
    /\ list' = [list EXCEPT ![t] = <<>>]
    /\ count' = [count EXCEPT ![t] = 0]
    /\ UNCHANGED <<users, chunks, calls, threshold, central>>

Next ==
    \E t \in Threads :
       \/ AllocateLocally(t)
       \/ AllocateFromPool(t)
       \/ AllocateFromChunk(t)
       \/ \E s \in Slabs : DeallocateLocally(t, s)
       \/ \E s \in Slabs : DeallocateAndCutOff(t, s)
       \/ ThreadEnds(t)

Spec == Init /\ [][Next]_vars

-----------------------------------------------------------------------------
(* SimpleSlabAllocator *)

SimpleAllocate ==
    /\ Call(Main)
    /\ list[Main] # <<>>
    /\ TakeFrom(Main, list[Main])
    /\ UNCHANGED <<chunks, count, threshold, central>>

SimpleAllocateOneChunk ==
    /\ Call(Main)
    /\ list[Main] = <<>>
    /\ chunks < MaxChunks
    /\ chunks' = chunks + 1
    /\ TakeFrom(Main, NewChunk(chunks'))
    /\ UNCHANGED <<count, threshold, central>>

SimpleDeallocate(s) ==
    /\ Call(Main)
    /\ users[s] > 0
    /\ users' = [users EXCEPT ![s] = @ - 1]
    /\ list' = [list EXCEPT ![Main] = Free(Main, s)]
    /\ UNCHANGED <<chunks, count, threshold, central>>

SimpleNext ==
    \/ SimpleAllocate
    \/ SimpleAllocateOneChunk
    \/ \E s \in Slabs : SimpleDeallocate(s)

-----------------------------------------------------------------------------
(* Properties *)

\* The variables hold what the members they stand for can hold.
TypeOK ==
    /\ \A t \in Threads :
         /\ ToSet(list[t]) \subseteq Slabs
         /\ count[t] \in 0 .. MaxChunks * SlabsPerChunk
         /\ threshold[t] \in 1 .. (MaxChunks + 1) * SlabsPerChunk
    /\ \A i \in DOMAIN central : ToSet(central[i]) \subseteq Slabs
    /\ ended \subseteq Threads \ {Main}
    /\ lost \subseteq Slabs

\* Where a slab is in the lists of the threads and in the pool
InLists(s) ==
    UNION {{t} \X {i \in DOMAIN list[t] : list[t][i] = s} : t \in Threads}
InPool(s) ==
    UNION {{k} \X {i \in DOMAIN central[k] : central[k][i] = s} :
             k \in DOMAIN central}

\* However slabs travel between threads and the pool, every slab of a chunk is
\* in exactly one place: in use, in one list, in one chunk of the pool, or lost
\* with a thread that has ended.
SlabsAccountedFor ==
    \A s \in Slabs :
       users[s] + Cardinality(InLists(s)) + Cardinality(InPool(s))
         + (IF s \in lost THEN 1 ELSE 0) = (IF s[1] <= chunks THEN 1 ELSE 0)

\* A thread's count is the length of its list, no thread keeps as many free
\* slabs as its threshold, and the pool holds full chunks, as allocate() takes
\* for granted when it adds one to an empty list.
ListsMatchCounts ==
    /\ \A t \in Threads : count[t] = Len(list[t]) /\ count[t] < threshold[t]
    /\ \A i \in DOMAIN central : Len(central[i]) = SlabsPerChunk
=============================================================================
