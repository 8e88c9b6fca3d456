------------------------ MODULE SlabAllocatorsProofs ------------------------
(***************************************************************************)
(* Proofs about SlabAllocators, for any number of threads, chunks, slabs   *)
(* and calls: no allocator ever hands out a slab that is in use, so each   *)
(* of them implements SlabPool; every slab is in exactly one place; every  *)
(* variable has its type.                                                  *)
(*                                                                         *)
(* For the semi-lock-free list the argument is about the set of free       *)
(* slabs: what is neither in use nor on the hands of a thread.  From the   *)
(* head only free slabs can be reached, and each from one place (ListInv). *)
(* A thread may hold an outdated head, but then its tag is outdated too    *)
(* and its exchange fails (TagInv).  That all of them are reached, and     *)
(* that the list ends, is OrderInv: some sequence of the free slabs        *)
(* follows the links.  For the lists that belong to a thread it is that no *)
(* slab is in two places (PlacesInv) and none is in no place (CoverInv).   *)
(* For strings it is that every chunk is cut for one class, and that free  *)
(* slabs and strings are different slots of such chunks (StringInv).       *)
(***************************************************************************)
EXTENDS SlabAllocators, Integers, Sequences, FiniteSetTheorems,
        NaturalsInduction, WellFoundedInduction, TLAPS

Slabs == (1 .. MaxChunks) \X (1 .. SlabsPerChunk)
Null == <<0, 0>>
Links == Slabs \cup {Null}
Words == Slabs \cup {Null, <<0, 1>>}
Heads == [node : Links, tag : Nat]

-----------------------------------------------------------------------------
(* The semi-lock-free list *)

\* The slabs that a thread has on its hands, as in SemiLockFreeSlabAllocator.
OnHand(t) == SemiLockFree!OnHand(t)
Pushing(t) == pc[t] \in {"link", "push"}

\* What is left when used slabs and those on hands are taken away.
FreeSet ==
    {s \in Slabs : /\ s[1] <= chunks
                   /\ users[s] = 0
                   /\ \A t \in Threads : s \notin OnHand(t)}

\* The types of the variables of the list.
HeadTypes ==
    /\ head \in Heads
    /\ next \in [Slabs -> Words]
    /\ pc \in [Threads -> {"idle", "allocate", "pop", "link", "push"}]
    /\ old \in [Threads -> Heads]
    /\ new \in [Threads -> Words]
    /\ tail \in [Threads -> Links]
    /\ chosen \in [Threads -> Links]

\* What thread t is about to push is a chain from new to tail: one slab, or
\* those of chunk c without the last one, which the thread keeps.
OneSlab(t) == chosen[t] = Null /\ new[t] \in Slabs /\ tail[t] = new[t]
OneChunk(t, c) ==
    /\ c <= chunks
    /\ chosen[t] = <<c, SlabsPerChunk>>
    /\ new[t] = <<c, SlabsPerChunk - 1>>
    /\ tail[t] = <<c, 1>>
    /\ \A i \in 2 .. SlabsPerChunk - 1 : next[<<c, i>>] = <<c, i - 1>>
Chain(t) ==
    /\ OneSlab(t) \/ \E c \in 1 .. MaxChunks : OneChunk(t, c)
    /\ pc[t] = "push" => next[tail[t]] = old[t].node
ChainInv == \A t \in Threads : Pushing(t) => Chain(t)

\* Slabs on hands are in nobody else's hands and not in use.
HandInv ==
    \A t \in Threads : \A s \in OnHand(t) :
        /\ s[1] <= chunks
        /\ users[s] = 0
        /\ \A u \in Threads : s \in OnHand(u) => u = t

\* From the head only free slabs can be reached, each from one place.
ListInv ==
    /\ head.node \in FreeSet \cup {Null}
    /\ \A s \in FreeSet :
          /\ next[s] \in FreeSet \cup {Null}
          /\ next[s] # Null => next[s] # head.node
          /\ \A r \in FreeSet : next[r] = next[s] /\ next[s] # Null => r = s

\* An old head with the current tag is the current head, and the link that
\* was read from it is still its link.
TagInv ==
    \A t \in Threads :
        /\ old[t].tag <= head.tag
        /\ pc[t] = "pop" => /\ old[t].node \in Slabs
                            /\ old[t] = head => new[t] = next[head.node]

SemiLockFreeInv == HeadTypes /\ ChainInv /\ HandInv /\ ListInv /\ TagInv

\* What a step does to the list: nothing, take its first slab away, or put what
\* thread t has on its hands, but the slab it keeps, in front of it.
ListKept ==
    head' = head /\ FreeSet' = FreeSet /\ \A s \in FreeSet : next'[s] = next[s]
ListPopped ==
    /\ head.node \in FreeSet /\ FreeSet' = FreeSet \ {head.node}
    /\ head'.node = next[head.node]
    /\ \A s \in FreeSet' : next'[s] = next[s]
ListPushed(t) ==
    /\ Pushing(t)
    /\ FreeSet' = FreeSet \cup (OnHand(t) \ {chosen[t]})
    /\ FreeSet \cap (OnHand(t) \ {chosen[t]}) = {}
    /\ head'.node = new[t] /\ next[tail[t]] = head.node
    /\ \A s \in FreeSet' : next'[s] = next[s]

-----------------------------------------------------------------------------
(* The thread-local and the simple lists *)

Elems(s) == {s[i] : i \in 1 .. Len(s)}
NoRepeat(s) == \A i, j \in 1 .. Len(s) : s[i] = s[j] => i = j

\* No slab is in a list or in the pool twice, or there and in use.
PlacesInv ==
    /\ list \in [Threads -> Seq(Slabs)]
    /\ central \in Seq(Seq(Slabs))
    /\ \A t \in Threads : NoRepeat(list[t])
    /\ \A t, u \in Threads : t # u => Elems(list[t]) \cap Elems(list[u]) = {}
    /\ \A k \in 1 .. Len(central) : NoRepeat(central[k])
    /\ \A k, m \in 1 .. Len(central) :
          k # m => Elems(central[k]) \cap Elems(central[m]) = {}
    /\ \A t \in Threads, k \in 1 .. Len(central) :
          Elems(list[t]) \cap Elems(central[k]) = {}
    /\ \A t \in Threads : \A s \in Elems(list[t]) :
          s[1] <= chunks /\ users[s] = 0
    /\ \A k \in 1 .. Len(central) : \A s \in Elems(central[k]) :
          s[1] <= chunks /\ users[s] = 0

\* The counts are the lengths of the lists and below the thresholds; the pool
\* holds whole chunks.
CountsInv ==
    /\ count \in [Threads -> Nat]
    /\ \A t \in Threads : count[t] = Len(list[t])
    /\ threshold \in [Threads -> Nat]
    /\ \A t \in Threads : /\ threshold[t] >= SlabsPerChunk
                          /\ count[t] < threshold[t]
    /\ \A k \in 1 .. Len(central) : Len(central[k]) = SlabsPerChunk

-----------------------------------------------------------------------------
\* Slabs in use belong to a chunk.
UsersInv ==
    /\ users \in [Slabs -> 0 .. 1]
    /\ chunks \in 0 .. MaxChunks
    /\ \A s \in Slabs : users[s] > 0 => s[1] <= chunks

\* A step of SlabPool, or none.
PoolStep ==
    \/ users' = users
    \/ \E s \in Slabs : users[s] = 0 /\ users' = [users EXCEPT ![s] = 1]
    \/ \E s \in Slabs : users[s] = 1 /\ users' = [users EXCEPT ![s] = 0]

SlabInv ==
    /\ allocator \in {"semi_lock_free", "thread_local", "simple", "string"}
    /\ users \in [Slabs -> 0 .. 1]
    /\ allocator # "string" => UsersInv
    /\ allocator = "semi_lock_free" => SemiLockFreeInv
    /\ allocator \in {"thread_local", "simple"} => PlacesInv
    /\ allocator = "thread_local" => CountsInv
-----------------------------------------------------------------------------
(* Names and types *)

\* The slabs are the same for all allocators; Null and garbage are no slabs.
LEMMA SlabNames ==
    /\ SemiLockFree!Slabs = Slabs
    /\ ThreadLocal!Slabs = Slabs
    /\ SemiLockFree!Null = Null
    /\ SemiLockFree!Garbage = <<0, 1>>
    /\ Null \notin Slabs
    /\ <<0, 1>> \notin Links
    /\ Slabs \subseteq Links /\ Links \subseteq Words
<1>1. /\ SemiLockFree!Slabs = Slabs
      /\ ThreadLocal!Slabs = Slabs
      /\ SemiLockFree!Null = Null
      /\ SemiLockFree!Garbage = <<0, 1>>
  BY DEF SemiLockFree!Slabs, ThreadLocal!Slabs, SemiLockFree!Null,
         SemiLockFree!Garbage, Slabs, Null
<1>2. Null \notin Slabs /\ <<0, 1>> \notin Slabs /\ <<0, 1>> # Null
  BY DEF Slabs, Null
<1> QED
  BY <1>1, <1>2 DEF Links, Words

\* The chunk of a slab is a number.
LEMMA SlabParts ==
    ASSUME NEW s \in Slabs
    PROVE  s[1] \in Nat /\ s[2] \in 1 .. SlabsPerChunk /\ s = <<s[1], s[2]>>
BY SlabAssumption DEF Slabs, SlabAssumption

\* What a thread has on its hands.
LEMMA HandFacts ==
    ASSUME NEW t \in Threads
    PROVE  /\ ~ Pushing(t) => OnHand(t) = {}
           /\ Pushing(t) /\ chosen[t] = Null => OnHand(t) = {new[t]}
           /\ Pushing(t) /\ chosen[t] # Null =>
                 OnHand(t) = {chosen[t][1]} \X (1 .. SlabsPerChunk)
BY SlabNames DEF OnHand, SemiLockFree!OnHand, Pushing

\* ... which only its own steps change.
LEMMA OthersHands ==
    ASSUME HeadTypes, HeadTypes', NEW u \in Threads,
           pc'[u] = pc[u], new'[u] = new[u], chosen'[u] = chosen[u]
    PROVE  OnHand(u)' = OnHand(u) /\ Pushing(u)' = Pushing(u)
BY DEF OnHand, SemiLockFree!OnHand, Pushing

\* A chain to be pushed: its parts are slabs on the thread's hands.
LEMMA ChainFacts ==
    ASSUME UsersInv, ChainInv, NEW t \in Threads, Pushing(t)
    PROVE  /\ OnHand(t) \subseteq Slabs
           /\ new[t] \in OnHand(t) /\ tail[t] \in OnHand(t)
           /\ chosen[t] # Null =>
                 /\ chosen[t] \in OnHand(t)
                 /\ chosen[t] # new[t] /\ chosen[t] # tail[t]
<1>1. CASE OneSlab(t)
  <2>1. OnHand(t) = {new[t]}
    BY <1>1, HandFacts DEF OneSlab
  <2> QED
    BY <1>1, <2>1 DEF OneSlab
<1>2. ASSUME NEW c \in 1 .. MaxChunks, OneChunk(t, c)
      PROVE  /\ OnHand(t) \subseteq Slabs
             /\ new[t] \in OnHand(t) /\ tail[t] \in OnHand(t)
             /\ chosen[t] # Null =>
                   /\ chosen[t] \in OnHand(t)
                   /\ chosen[t] # new[t] /\ chosen[t] # tail[t]
  <2>0. SlabsPerChunk \in Nat /\ SlabsPerChunk >= 2
    BY SlabAssumption DEF SlabAssumption
  <2>1. /\ chosen[t] = <<c, SlabsPerChunk>>
        /\ new[t] = <<c, SlabsPerChunk - 1>>
        /\ tail[t] = <<c, 1>>
        /\ chosen[t] # Null
    BY <1>2, <2>0 DEF OneChunk, Null
  <2>2. OnHand(t) = {c} \X (1 .. SlabsPerChunk)
    <3>1. chosen[t][1] = c
      BY <2>1
    <3> QED
      BY <2>1, <3>1, HandFacts
  <2>3. {SlabsPerChunk, SlabsPerChunk - 1, 1} \subseteq 1 .. SlabsPerChunk
    BY <2>0
  <2>4. OnHand(t) \subseteq Slabs
    BY <2>2 DEF Slabs
  <2>5. chosen[t] # new[t] /\ chosen[t] # tail[t]
    BY <2>0, <2>1
  <2> QED
    BY <2>1, <2>2, <2>3, <2>4, <2>5
<1> QED
  BY <1>1, <1>2 DEF ChainInv, Chain

\* A thread whose chain nobody touches keeps it.
LEMMA ChainKept ==
    ASSUME UsersInv, UsersInv', ChainInv, NEW t \in Threads, Pushing(t),
           pc'[t] = pc[t], new'[t] = new[t], chosen'[t] = chosen[t],
           tail'[t] = tail[t], old'[t] = old[t], chunks <= chunks',
           \A s \in OnHand(t) : next'[s] = next[s]
    PROVE  Chain(t)'
<1>0. /\ tail[t] \in OnHand(t)
      /\ Chain(t)
  BY ChainFacts DEF ChainInv
<1>1. (pc[t] = "push" => next[tail[t]] = old[t].node)'
  BY <1>0 DEF Chain
<1>2. CASE OneSlab(t)
  BY <1>1, <1>2 DEF OneSlab, Chain
<1>3. ASSUME NEW c \in 1 .. MaxChunks, OneChunk(t, c) PROVE Chain(t)'
  <2>0. /\ SlabsPerChunk \in Nat /\ SlabsPerChunk >= 2
        /\ chunks \in Nat /\ chunks' \in Nat
    BY SlabAssumption DEF SlabAssumption, UsersInv
  <2>1. chosen[t][1] = c /\ chosen[t] # Null
    BY <1>3, <2>0 DEF OneChunk, Null
  <2>2. OnHand(t) = {c} \X (1 .. SlabsPerChunk)
    BY <2>1, HandFacts
  <2>3. \A i \in 2 .. SlabsPerChunk - 1 : <<c, i>> \in OnHand(t)
    BY <2>0, <2>2
  <2>4. \A i \in 2 .. SlabsPerChunk - 1 : next'[<<c, i>>] = <<c, i - 1>>
    BY <1>3, <2>3 DEF OneChunk
  <2>5. c <= chunks'
    BY <1>3, <2>0 DEF OneChunk
  <2>6. OneChunk(t, c)'
    BY <1>3, <2>4, <2>5 DEF OneChunk
  <2> QED
    BY <1>1, <2>6 DEF Chain
<1> QED
  BY <1>0, <1>2, <1>3 DEF Chain

\* When all hands and users stay the same, so do the free slabs.
LEMMA SameHands ==
    ASSUME HandInv, users' = users, chunks' = chunks,
           \A u \in Threads : OnHand(u)' = OnHand(u)
    PROVE  HandInv' /\ FreeSet' = FreeSet
BY DEF HandInv, FreeSet

\* When head and free slabs stay the same, so does the list.
LEMMA SameList ==
    ASSUME ListInv, head' = head,
           FreeSet' = FreeSet,
           \A s \in FreeSet : next'[s] = next[s]
    PROVE  ListInv'
BY DEF ListInv

\* A step that only loads the head or reads a link.
LEMMA Loads ==
    ASSUME UsersInv, SemiLockFreeInv, NEW t \in Threads,
           \/ SemiLockFree!LoadHead(t) \/ SemiLockFree!ReadNext(t)
           \/ SemiLockFree!PopFails(t) \/ SemiLockFree!PushFails(t)
    PROVE  UsersInv' /\ SemiLockFreeInv' /\ users' = users /\ ListKept
<1>0. /\ users' = users /\ chunks' = chunks /\ head' = head /\ next' = next
      /\ tail' = tail /\ chosen' = chosen
  BY DEF SemiLockFree!LoadHead, SemiLockFree!ReadNext, SemiLockFree!PopFails,
         SemiLockFree!PushFails
<1>1. /\ head \in Heads /\ next \in [Slabs -> Words]
      /\ pc \in [Threads -> {"idle", "allocate", "pop", "link", "push"}]
      /\ old \in [Threads -> Heads]
      /\ new \in [Threads -> Words]
  BY DEF SemiLockFreeInv, HeadTypes
<1>2. \/ /\ pc[t] \in {"idle", "pop"}
         /\ pc' = [pc EXCEPT ![t] = "allocate"]
         /\ old' = [old EXCEPT ![t] = head] /\ new' = new
      \/ /\ pc[t] = "allocate"
         /\ pc' = [pc EXCEPT ![t] = "pop"]
         /\ old[t].node \in Slabs
         /\ old' = old /\ new' = [new EXCEPT ![t] = next[old[t].node]]
      \/ /\ pc[t] = "push"
         /\ pc' = [pc EXCEPT ![t] = "link"]
         /\ old' = [old EXCEPT ![t] = head] /\ new' = new
  BY SlabNames DEF SemiLockFree!LoadHead, SemiLockFree!ReadNext,
         SemiLockFree!PopFails, SemiLockFree!PushFails, SemiLockFree!Goto
<1>3. HeadTypes'
  BY <1>0, <1>1, <1>2 DEF SemiLockFreeInv, HeadTypes
<1>4. \A u \in Threads : u # t => /\ pc'[u] = pc[u] /\ new'[u] = new[u]
                                  /\ old'[u] = old[u]
  BY <1>1, <1>2
<1>5. UsersInv'
  BY <1>0 DEF UsersInv
<1>6. OnHand(t)' = OnHand(t)
  <2>1. CASE pc[t] = "push"
    <3>1. pc'[t] = "link" /\ new'[t] = new[t] /\ chosen'[t] = chosen[t]
      BY <1>0, <1>1, <1>2, <2>1
    <3> QED
      BY <2>1, <3>1 DEF OnHand, SemiLockFree!OnHand
  <2>2. CASE pc[t] # "push"
    <3>1. pc[t] \notin {"link", "push"} /\ pc'[t] \notin {"link", "push"}
      BY <1>1, <1>2, <2>2
    <3> QED
      BY <3>1 DEF OnHand, SemiLockFree!OnHand
  <2> QED
    BY <2>1, <2>2
<1>7. \A u \in Threads : OnHand(u)' = OnHand(u)
  BY <1>0, <1>3, <1>4, <1>6, OthersHands DEF SemiLockFreeInv
<1>8. HandInv' /\ FreeSet' = FreeSet
  BY <1>0, <1>7, SameHands DEF SemiLockFreeInv
<1>9. ListInv'
  BY <1>0, <1>8, SameList DEF SemiLockFreeInv
<1>10. ASSUME NEW u \in Threads, Pushing(u)' PROVE Chain(u)'
  <2>1. CASE u # t
    <3>1. Pushing(u)
      BY <1>4, <1>10, <2>1 DEF Pushing
    <3>2. chunks <= chunks'
      BY <1>0 DEF UsersInv
    <3> QED
      BY <1>0, <1>4, <1>5, <2>1, <3>1, <3>2, ChainKept DEF SemiLockFreeInv
  <2>2. CASE u = t
    <3>1. /\ pc[t] = "push" /\ pc'[t] = "link"
          /\ new'[t] = new[t]
      BY <1>1, <1>2, <1>10, <2>2 DEF Pushing
    <3>2. Chain(t)
      BY <3>1 DEF SemiLockFreeInv, ChainInv, Pushing
    <3> QED
      BY <1>0, <2>2, <3>1, <3>2 DEF Chain, OneSlab, OneChunk
  <2> QED
    BY <2>1, <2>2
<1>11. TagInv'
  <2>1. \A u \in Threads : old'[u].tag <= head.tag
    <3>1. \A u \in Threads : old'[u] = old[u] \/ old'[u] = head
      BY <1>1, <1>2
    <3>2. head.tag \in Nat
      BY <1>1 DEF Heads
    <3> QED
      BY <3>1, <3>2 DEF SemiLockFreeInv, TagInv
  <2>2. ASSUME NEW u \in Threads, pc'[u] = "pop"
        PROVE  /\ old'[u].node \in Slabs
               /\ old'[u] = head => new'[u] = next[head.node]
    <3>1. CASE u # t
      BY <1>4, <2>2, <3>1 DEF SemiLockFreeInv, TagInv
    <3>2. CASE u = t
      <4>1. /\ old[t].node \in Slabs
            /\ old' = old /\ new'[t] = next[old[t].node]
        BY <1>1, <1>2, <2>2, <3>2
      <4> QED
        BY <3>2, <4>1
    <3> QED
      BY <3>1, <3>2
  <2> QED
    BY <1>0, <2>1, <2>2 DEF TagInv
<1> QED
  BY <1>0, <1>3, <1>5, <1>8, <1>9, <1>10, <1>11
     DEF SemiLockFreeInv, ChainInv, ListKept

\* Linking the tail of a chain changes no free slab.
LEMMA LinksTail ==
    ASSUME UsersInv, SemiLockFreeInv, NEW t \in Threads,
           SemiLockFree!LinkTail(t)
    PROVE  UsersInv' /\ SemiLockFreeInv' /\ users' = users /\ ListKept
<1>0. /\ users' = users /\ chunks' = chunks /\ head' = head /\ old' = old
      /\ new' = new /\ tail' = tail /\ chosen' = chosen
      /\ pc[t] = "link" /\ pc' = [pc EXCEPT ![t] = "push"]
      /\ next' = [next EXCEPT ![tail[t]] = old[t].node]
  BY DEF SemiLockFree!LinkTail, SemiLockFree!Goto
<1>1. /\ next \in [Slabs -> Words]
      /\ pc \in [Threads -> {"idle", "allocate", "pop", "link", "push"}]
      /\ old \in [Threads -> Heads]
  BY DEF SemiLockFreeInv, HeadTypes
<1>2. old[t].node \in Words
  BY <1>1, SlabNames DEF Heads
<1>3. HeadTypes'
  BY <1>0, <1>1, <1>2 DEF SemiLockFreeInv, HeadTypes
<1>4. UsersInv' /\ chunks <= chunks'
  BY <1>0 DEF UsersInv
<1>5. Pushing(t) /\ Pushing(t)' /\ Chain(t) /\ pc'[t] = "push"
  BY <1>0, <1>1 DEF Pushing, SemiLockFreeInv, ChainInv
<1>6. \A u \in Threads : u # t => pc'[u] = pc[u]
  BY <1>0, <1>1
<1>7. \A u \in Threads : OnHand(u)' = OnHand(u)
  <2>1. OnHand(t)' = OnHand(t)
    BY <1>0, <1>5 DEF Pushing, OnHand, SemiLockFree!OnHand
  <2> QED
    BY <1>0, <1>3, <1>6, <2>1, OthersHands DEF SemiLockFreeInv
<1>8. tail[t] \in OnHand(t) /\ tail[t] \in Slabs
  BY <1>5, ChainFacts DEF SemiLockFreeInv
<1>9. HandInv' /\ FreeSet' = FreeSet
  BY <1>0, <1>7, SameHands DEF SemiLockFreeInv
<1>10. \A s \in Slabs : s # tail[t] => next'[s] = next[s]
  BY <1>0, <1>1
<1>11. \A s \in FreeSet : next'[s] = next[s]
  BY <1>8, <1>10 DEF FreeSet
<1>12. ListInv'
  BY <1>0, <1>9, <1>11, SameList DEF SemiLockFreeInv
<1>13. ASSUME NEW u \in Threads, Pushing(u)', u # t PROVE Chain(u)'
  <2>1. Pushing(u)
    BY <1>6, <1>13 DEF Pushing
  <2>2. OnHand(u) \subseteq Slabs
    BY <2>1, ChainFacts DEF SemiLockFreeInv
  <2>3. \A s \in OnHand(u) : s # tail[t]
    BY <1>8, <1>13 DEF SemiLockFreeInv, HandInv
  <2>4. \A s \in OnHand(u) : next'[s] = next[s]
    BY <1>10, <2>2, <2>3
  <2> QED
    BY <1>0, <1>4, <1>6, <1>13, <2>1, <2>4, ChainKept DEF SemiLockFreeInv
<1>14. Chain(t)'
  <2>1. next'[tail[t]] = old[t].node
    BY <1>0, <1>1, <1>8
  <2>2. CASE OneSlab(t)
    BY <1>0, <2>1, <2>2 DEF Chain, OneSlab
  <2>3. ASSUME NEW c \in 1 .. MaxChunks, OneChunk(t, c) PROVE Chain(t)'
    <3>0. SlabsPerChunk \in Nat /\ c \in 1 .. MaxChunks
      BY SlabAssumption DEF SlabAssumption
    <3>1. \A i \in 2 .. SlabsPerChunk - 1 :
              <<c, i>> \in Slabs /\ <<c, i>> # tail[t]
      BY <2>3, <3>0 DEF OneChunk, Slabs
    <3>2. \A i \in 2 .. SlabsPerChunk - 1 : next'[<<c, i>>] = <<c, i - 1>>
      BY <1>10, <2>3, <3>1 DEF OneChunk
    <3>3. OneChunk(t, c)'
      BY <1>0, <2>3, <3>2 DEF OneChunk
    <3> QED
      BY <1>0, <2>1, <3>3 DEF Chain
  <2> QED
    BY <1>5, <2>2, <2>3 DEF Chain
<1>15. TagInv'
  <2>1. ASSUME NEW u \in Threads, pc'[u] = "pop"
        PROVE  /\ old[u].node \in Slabs
               /\ old[u] = head => new[u] = next'[head.node]
    <3>1. u # t /\ pc[u] = "pop"
      BY <1>5, <1>6, <2>1
    <3>2. old[u].node \in Slabs /\ (old[u] = head => new[u] = next[head.node])
      BY <3>1 DEF SemiLockFreeInv, TagInv
    <3>3. head.node \in Slabs => next'[head.node] = next[head.node]
      BY <1>11, SlabNames DEF SemiLockFreeInv, ListInv
    <3> QED
      BY <3>2, <3>3
  <2> QED
    BY <1>0, <2>1 DEF SemiLockFreeInv, TagInv
<1> QED
  BY <1>0, <1>3, <1>4, <1>9, <1>11, <1>12, <1>13, <1>14, <1>15
     DEF SemiLockFreeInv, ChainInv, ListKept

\* A slab that is given back goes from its user to the hands of a thread.
LEMMA GivesBack ==
    ASSUME UsersInv, SemiLockFreeInv, NEW t \in Threads, NEW s \in Slabs,
           SemiLockFree!BeginDeallocate(t, s)
    PROVE  /\ UsersInv' /\ SemiLockFreeInv' /\ ListKept
           /\ users[s] = 1 /\ users' = [users EXCEPT ![s] = 0]
<1>0. /\ chunks' = chunks /\ head' = head /\ next' = next
      /\ pc[t] = "idle" /\ pc' = [pc EXCEPT ![t] = "link"]
      /\ users[s] > 0 /\ users' = [users EXCEPT ![s] = @ - 1]
      /\ new' = [new EXCEPT ![t] = s] /\ tail' = [tail EXCEPT ![t] = s]
      /\ chosen' = [chosen EXCEPT ![t] = Null]
      /\ old' = [old EXCEPT ![t] = head]
  BY SlabNames DEF SemiLockFree!BeginDeallocate, SemiLockFree!Goto
<1>1. /\ users \in [Slabs -> 0 .. 1]
      /\ pc \in [Threads -> {"idle", "allocate", "pop", "link", "push"}]
      /\ head \in Heads
      /\ old \in [Threads -> Heads]
      /\ new \in [Threads -> Words] /\ tail \in [Threads -> Links]
      /\ chosen \in [Threads -> Links]
  BY DEF UsersInv, SemiLockFreeInv, HeadTypes
<1>2. users[s] = 1 /\ users' = [users EXCEPT ![s] = 0]
  <2>1. users[s] = 1
    BY <1>0, <1>1
  <2> QED
    BY <1>0, <2>1
<1>3. HeadTypes'
  <2>1. s \in Words /\ s \in Links /\ Null \in Links
    BY SlabNames DEF Links
  <2> QED
    BY <1>0, <1>1, <2>1 DEF SemiLockFreeInv, HeadTypes
<1>4. /\ users' \in [Slabs -> 0 .. 1]
      /\ users'[s] = 0
      /\ \A r \in Slabs : r # s => users'[r] = users[r]
  BY <1>1, <1>2
<1>5. UsersInv' /\ chunks <= chunks'
  BY <1>0, <1>4 DEF UsersInv
<1>6. \A u \in Threads : u # t =>
          /\ pc'[u] = pc[u] /\ new'[u] = new[u] /\ chosen'[u] = chosen[u]
          /\ tail'[u] = tail[u] /\ old'[u] = old[u]
  BY <1>0, <1>1
<1>7. /\ pc'[t] = "link" /\ new'[t] = s /\ tail'[t] = s
      /\ chosen'[t] = Null /\ old'[t] = head
  BY <1>0, <1>1
<1>8. OnHand(t)' = {s}
  BY <1>7, SlabNames DEF OnHand, SemiLockFree!OnHand
<1>9. \A u \in Threads : u # t => OnHand(u)' = OnHand(u)
  BY <1>3, <1>6, OthersHands DEF SemiLockFreeInv
<1>10. OnHand(t) = {}
  BY <1>0, HandFacts DEF Pushing
<1>11. \A u \in Threads : s \notin OnHand(u)
  BY <1>2 DEF SemiLockFreeInv, HandInv
<1>12. \A u \in Threads : \A r \in OnHand(u) : r \in Slabs
  <2>1. \A u \in Threads : Pushing(u) => OnHand(u) \subseteq Slabs
    BY ChainFacts DEF SemiLockFreeInv
  <2> QED
    BY <2>1, HandFacts
<1>13. HandInv'
  <2>1. s[1] <= chunks
    BY <1>2 DEF UsersInv
  <2>2. ASSUME NEW u \in Threads, u # t, NEW r \in OnHand(u)
        PROVE  /\ r # s /\ r[1] <= chunks /\ users'[r] = 0
               /\ \A w \in Threads : r \in OnHand(w)' => w = u
    <3>1. r # s /\ r \in Slabs
      BY <1>11, <1>12, <2>2
    <3>2. r[1] <= chunks /\ users[r] = 0
      BY <2>2 DEF SemiLockFreeInv, HandInv
    <3>3. \A w \in Threads : r \in OnHand(w)' => w = u
      BY <1>8, <1>9, <2>2, <3>1 DEF SemiLockFreeInv, HandInv
    <3> QED
      BY <1>4, <3>1, <3>2, <3>3
  <2>3. \A w \in Threads : s \in OnHand(w)' => w = t
    BY <1>9, <1>11
  <2> QED
    BY <1>0, <1>4, <1>8, <1>9, <2>1, <2>2, <2>3 DEF HandInv
<1>14. FreeSet' = FreeSet
  <2>1. s \notin FreeSet /\ s \notin FreeSet'
    BY <1>2, <1>8 DEF FreeSet
  <2>2. ASSUME NEW r \in Slabs, r # s PROVE r \in FreeSet' <=> r \in FreeSet
    <3>1. \A u \in Threads : r \in OnHand(u)' <=> r \in OnHand(u)
      BY <1>8, <1>9, <1>10, <2>2
    <3> QED
      BY <1>0, <1>4, <2>2, <3>1 DEF FreeSet
  <2>3. FreeSet \subseteq Slabs /\ FreeSet' \subseteq Slabs
    BY DEF FreeSet
  <2> QED
    BY <2>1, <2>2, <2>3
<1>15. ListInv'
  BY <1>0, <1>14, SameList DEF SemiLockFreeInv
<1>16. ASSUME NEW u \in Threads, Pushing(u)' PROVE Chain(u)'
  <2>1. CASE u = t
    BY <1>7, <2>1 DEF Chain, OneSlab
  <2>2. CASE u # t
    <3>1. Pushing(u)
      BY <1>6, <1>16, <2>2 DEF Pushing
    <3> QED
      BY <1>0, <1>5, <1>6, <2>2, <3>1, ChainKept DEF SemiLockFreeInv
  <2> QED
    BY <2>1, <2>2
<1>17. TagInv'
  <2>1. head.tag \in Nat
    BY <1>1 DEF Heads
  <2>2. \A u \in Threads : old'[u].tag <= head.tag
    BY <1>6, <1>7, <2>1 DEF SemiLockFreeInv, TagInv
  <2>3. \A u \in Threads : pc'[u] = "pop" => u # t
    BY <1>7
  <2> QED
    BY <1>0, <1>6, <2>2, <2>3 DEF SemiLockFreeInv, TagInv
<1> QED
  BY <1>0, <1>2, <1>3, <1>5, <1>13, <1>14, <1>15, <1>16, <1>17
     DEF SemiLockFreeInv, ChainInv, ListKept

\* The slabs of a new chunk come into the hands of the thread that made it.
LEMMA MakesChunk ==
    ASSUME UsersInv, SemiLockFreeInv, NEW t \in Threads,
           SemiLockFree!AllocateOneChunk(t)
    PROVE  UsersInv' /\ SemiLockFreeInv' /\ users' = users /\ ListKept
<1>p. PICK c : c = chunks + 1
  OBVIOUS
<1>c. /\ SlabsPerChunk \in Nat /\ SlabsPerChunk >= 2 /\ MaxChunks \in Nat
      /\ chunks \in Nat /\ c \in 1 .. MaxChunks /\ chunks < c
  BY <1>p, SlabAssumption
     DEF SlabAssumption, UsersInv, SemiLockFree!AllocateOneChunk
<1>0. /\ chunks' = c /\ head' = head /\ users' = users
      /\ pc[t] = "allocate" /\ pc' = [pc EXCEPT ![t] = "link"]
      /\ next' = [s \in Slabs |->
                    IF s[1] = c /\ s[2] \in 2 .. SlabsPerChunk - 1
                    THEN <<s[1], s[2] - 1>> ELSE next[s]]
      /\ new' = [new EXCEPT ![t] = <<c, SlabsPerChunk - 1>>]
      /\ tail' = [tail EXCEPT ![t] = <<c, 1>>]
      /\ chosen' = [chosen EXCEPT ![t] = <<c, SlabsPerChunk>>]
      /\ old' = [old EXCEPT ![t] = head]
  BY <1>p, SlabNames DEF SemiLockFree!AllocateOneChunk, SemiLockFree!Goto
<1>1. /\ users \in [Slabs -> 0 .. 1] /\ next \in [Slabs -> Words]
      /\ pc \in [Threads -> {"idle", "allocate", "pop", "link", "push"}]
      /\ head \in Heads
      /\ old \in [Threads -> Heads]
      /\ new \in [Threads -> Words] /\ tail \in [Threads -> Links]
      /\ chosen \in [Threads -> Links]
  BY DEF UsersInv, SemiLockFreeInv, HeadTypes
<1>2. \A i \in 1 .. SlabsPerChunk : <<c, i>> \in Slabs
  BY <1>c DEF Slabs
<1>3. {1, SlabsPerChunk - 1, SlabsPerChunk} \subseteq 1 .. SlabsPerChunk
  BY <1>c
<1>4. next' \in [Slabs -> Words]
  <2>1. ASSUME NEW s \in Slabs, s[1] = c, s[2] \in 2 .. SlabsPerChunk - 1
        PROVE  <<s[1], s[2] - 1>> \in Words
    <3>1. s[2] - 1 \in 1 .. SlabsPerChunk
      BY <1>c, <2>1
    <3> QED
      BY <1>2, <2>1, <3>1 DEF Words
  <2> QED
    BY <1>0, <1>1, <2>1
<1>5. HeadTypes'
  <2>1. /\ <<c, SlabsPerChunk - 1>> \in Words /\ <<c, 1>> \in Links
        /\ <<c, SlabsPerChunk>> \in Links
    BY <1>2, <1>3 DEF Words, Links
  <2> QED
    BY <1>0, <1>1, <1>4, <2>1 DEF HeadTypes
<1>6. \A s \in Slabs : s[1] \in Nat
  BY SlabParts
<1>7. UsersInv' /\ chunks <= chunks'
  <2>1. \A s \in Slabs : s[1] <= chunks => s[1] <= c
    BY <1>c, <1>6
  <2>2. chunks' \in 0 .. MaxChunks /\ chunks <= chunks'
    BY <1>0, <1>c
  <2> QED
    BY <1>0, <2>1, <2>2 DEF UsersInv
<1>8. \A u \in Threads : u # t =>
          /\ pc'[u] = pc[u] /\ new'[u] = new[u] /\ chosen'[u] = chosen[u]
          /\ tail'[u] = tail[u] /\ old'[u] = old[u]
  BY <1>0, <1>1
<1>9. /\ pc'[t] = "link" /\ new'[t] = <<c, SlabsPerChunk - 1>>
      /\ tail'[t] = <<c, 1>> /\ chosen'[t] = <<c, SlabsPerChunk>>
      /\ old'[t] = head
  BY <1>0, <1>1
<1>10. OnHand(t)' = {c} \X (1 .. SlabsPerChunk)
  <2>1. chosen'[t] # Null /\ chosen'[t][1] = c
    BY <1>9, <1>c DEF Null
  <2> QED
    BY <1>9, <2>1, SlabNames DEF OnHand, SemiLockFree!OnHand
<1>11. \A u \in Threads : u # t => OnHand(u)' = OnHand(u)
  BY <1>5, <1>8, OthersHands DEF SemiLockFreeInv
<1>12. OnHand(t) = {}
  BY <1>0, HandFacts DEF Pushing
<1>13. \A u \in Threads : \A r \in OnHand(u) :
           r \in Slabs /\ r[1] <= chunks /\ users[r] = 0
  <2>1. \A u \in Threads : Pushing(u) => OnHand(u) \subseteq Slabs
    BY ChainFacts DEF SemiLockFreeInv
  <2> QED
    BY <2>1, HandFacts DEF SemiLockFreeInv, HandInv
<1>14. \A r \in Slabs : r \in OnHand(t)' <=> r[1] = c
  BY <1>10, SlabParts
<1>15. \A r \in Slabs : r[1] <= chunks => r[1] <= c /\ r[1] # c
  BY <1>c, <1>6
<1>16. HandInv'
  <2>1. ASSUME NEW r \in OnHand(t)'
        PROVE  /\ r[1] <= c /\ users[r] = 0
               /\ \A w \in Threads : r \in OnHand(w)' => w = t
    <3>1. r \in Slabs
      BY <1>2, <1>10
    <3>2. r[1] = c
      BY <1>14, <3>1
    <3>3. ~ (r[1] <= chunks) /\ r[1] <= c
      BY <1>c, <3>2
    <3>4. users[r] = 0
      BY <1>1, <3>1, <3>3 DEF UsersInv
    <3>5. \A w \in Threads : r \in OnHand(w)' => w = t
      BY <1>11, <1>13, <3>3
    <3> QED
      BY <3>3, <3>4, <3>5
  <2>2. ASSUME NEW u \in Threads, u # t, NEW r \in OnHand(u)
        PROVE  /\ r[1] <= c /\ users[r] = 0
               /\ \A w \in Threads : r \in OnHand(w)' => w = u
    <3>1. r \in Slabs /\ r[1] <= chunks /\ users[r] = 0
      BY <1>13, <2>2
    <3>2. r[1] <= c /\ r \notin OnHand(t)'
      BY <1>14, <1>15, <3>1
    <3>3. \A w \in Threads : r \in OnHand(w)' => w = u
      BY <1>11, <2>2, <3>2 DEF SemiLockFreeInv, HandInv
    <3> QED
      BY <3>1, <3>2, <3>3
  <2> QED
    BY <1>0, <1>11, <2>1, <2>2 DEF HandInv
<1>17. FreeSet' = FreeSet
  <2> SUFFICES ASSUME NEW r \in Slabs PROVE r \in FreeSet' <=> r \in FreeSet
    BY DEF FreeSet
  <2>1. CASE r[1] = c
    <3>1. ~ (r[1] <= chunks)
      BY <1>c, <2>1
    <3>2. r \in OnHand(t)'
      BY <1>14, <2>1
    <3> QED
      BY <3>1, <3>2 DEF FreeSet
  <2>2. CASE r[1] # c
    <3>1. r[1] <= c <=> r[1] <= chunks
      <4>1. r[1] \in Nat
        BY <1>6
      <4> QED
        BY <1>c, <1>p, <2>2, <4>1
    <3>2. \A u \in Threads : r \in OnHand(u)' <=> r \in OnHand(u)
      BY <1>11, <1>12, <1>14, <2>2
    <3> QED
      BY <1>0, <3>1, <3>2 DEF FreeSet
  <2> QED
    BY <2>1, <2>2
<1>18. \A r \in Slabs : r[1] <= chunks => next'[r] = next[r]
  BY <1>0, <1>15
<1>19. \A r \in FreeSet : next'[r] = next[r]
  BY <1>18 DEF FreeSet
<1>20. ListInv'
  BY <1>0, <1>17, <1>19, SameList DEF SemiLockFreeInv
<1>21. ASSUME NEW u \in Threads, Pushing(u)' PROVE Chain(u)'
  <2>1. CASE u = t
    <3>1. \A i \in 2 .. SlabsPerChunk - 1 : next'[<<c, i>>] = <<c, i - 1>>
      <4> SUFFICES ASSUME NEW i \in 2 .. SlabsPerChunk - 1
                   PROVE  next'[<<c, i>>] = <<c, i - 1>>
        OBVIOUS
      <4>1. i \in 1 .. SlabsPerChunk
        BY <1>c
      <4>2. <<c, i>> \in Slabs
        BY <1>2, <4>1
      <4> QED
        BY <1>0, <4>2
    <3>2. c <= chunks'
      BY <1>0, <1>c
    <3>3. OneChunk(t, c)'
      BY <1>9, <3>1, <3>2 DEF OneChunk
    <3> QED
      BY <1>9, <1>c, <2>1, <3>3 DEF Chain
  <2>2. CASE u # t
    <3>1. Pushing(u)
      BY <1>8, <1>21, <2>2 DEF Pushing
    <3>2. \A r \in OnHand(u) : next'[r] = next[r]
      BY <1>13, <1>18
    <3> QED
      BY <1>7, <1>8, <2>2, <3>1, <3>2, ChainKept DEF SemiLockFreeInv
  <2> QED
    BY <2>1, <2>2
<1>22. TagInv'
  <2>1. head.tag \in Nat
    BY <1>1 DEF Heads
  <2>2. \A u \in Threads : old'[u].tag <= head.tag
    BY <1>8, <1>9, <2>1 DEF SemiLockFreeInv, TagInv
  <2>3. \A u \in Threads : pc'[u] = "pop" => u # t
    BY <1>9
  <2>4. head.node \in Slabs => next'[head.node] = next[head.node]
    BY <1>19, SlabNames DEF SemiLockFreeInv, ListInv
  <2>5. \A u \in Threads : pc'[u] = "pop" =>
            /\ old[u].node \in Slabs
            /\ old[u] = head => new[u] = next'[head.node]
    BY <1>8, <2>3, <2>4 DEF SemiLockFreeInv, TagInv
  <2> QED
    BY <1>0, <1>8, <2>2, <2>3, <2>5 DEF TagInv
<1> QED
  BY <1>0, <1>5, <1>7, <1>16, <1>17, <1>19, <1>20, <1>21, <1>22
     DEF SemiLockFreeInv, ChainInv, ListKept

\* A successful pop hands out a free slab, and the link that was read is the
\* rest of the list, because the tag shows that nothing has happened since.
LEMMA Pops ==
    ASSUME UsersInv, SemiLockFreeInv, NEW t \in Threads, SemiLockFree!Pop(t)
    PROVE  /\ UsersInv' /\ SemiLockFreeInv' /\ ListPopped
           /\ \E s \in Slabs : users[s] = 0 /\ users' = [users EXCEPT ![s] = 1]
<1>p. PICK h : h = head.node
  OBVIOUS
<1>0. /\ chunks' = chunks /\ old' = old /\ new' = new /\ tail' = tail
      /\ chosen' = chosen
      /\ pc[t] = "pop" /\ pc' = [pc EXCEPT ![t] = "idle"]
      /\ old[t] = head
      /\ head' = [node |-> new[t], tag |-> head.tag + 1]
      /\ users' = [users EXCEPT ![h] = @ + 1]
      /\ next' = [next EXCEPT ![h] = <<0, 1>>]
  BY <1>p, SlabNames DEF SemiLockFree!Pop, SemiLockFree!Goto, SemiLockFree!Hand,
                   SemiLockFree!Tagged
<1>1. /\ users \in [Slabs -> 0 .. 1] /\ next \in [Slabs -> Words]
      /\ pc \in [Threads -> {"idle", "allocate", "pop", "link", "push"}]
      /\ head \in Heads /\ head.tag \in Nat
      /\ \A u \in Threads : old[u].tag \in Nat
  BY DEF UsersInv, SemiLockFreeInv, HeadTypes, Heads
<1>2. h \in Slabs /\ new[t] = next[h]
  BY <1>0, <1>p DEF SemiLockFreeInv, TagInv
<1>3. h \in FreeSet /\ users[h] = 0 /\ h[1] <= chunks
  BY <1>2, <1>p, SlabNames DEF SemiLockFreeInv, ListInv, FreeSet
<1>4. /\ next[h] \in FreeSet \cup {Null}
      /\ next[h] \in Links
      /\ next[h] # h
  BY <1>2, <1>3, <1>p, SlabNames DEF SemiLockFreeInv, ListInv, Links, FreeSet
<1>5. users' = [users EXCEPT ![h] = 1]
  BY <1>0, <1>3
<1>6. users' \in [Slabs -> 0 .. 1] /\ users'[h] = 1
      /\ \A s \in Slabs : s # h => users'[s] = users[s]
  BY <1>1, <1>2, <1>5
<1>7. UsersInv' /\ chunks <= chunks'
  BY <1>0, <1>3, <1>6 DEF UsersInv
<1>8. head'.node = next[h] /\ head'.tag = head.tag + 1 /\ head' \in Heads
  BY <1>0, <1>1, <1>2, <1>4 DEF Heads
<1>9. /\ next' \in [Slabs -> Words]
      /\ \A s \in Slabs : s # h => next'[s] = next[s]
  BY <1>0, <1>1, <1>2 DEF Words
<1>10. HeadTypes'
  BY <1>0, <1>1, <1>8, <1>9 DEF SemiLockFreeInv, HeadTypes
<1>11. pc'[t] = "idle" /\ \A u \in Threads : u # t => pc'[u] = pc[u]
  BY <1>0, <1>1
<1>12. \A u \in Threads : OnHand(u)' = OnHand(u)
  <2>1. OnHand(t)' = {} /\ OnHand(t) = {}
    BY <1>0, <1>11 DEF OnHand, SemiLockFree!OnHand
  <2> QED
    BY <1>0, <1>10, <1>11, <2>1, OthersHands DEF SemiLockFreeInv
<1>13. \A u \in Threads : h \notin OnHand(u)
  BY <1>3 DEF FreeSet
<1>14. \A u \in Threads : \A r \in OnHand(u) : r \in Slabs /\ r # h
  <2>1. \A u \in Threads : Pushing(u) => OnHand(u) \subseteq Slabs
    BY ChainFacts DEF SemiLockFreeInv
  <2> QED
    BY <1>13, <2>1, HandFacts
<1>15. HandInv'
  BY <1>0, <1>6, <1>12, <1>14 DEF SemiLockFreeInv, HandInv
<1>16. FreeSet' = FreeSet \ {h}
  BY <1>0, <1>6, <1>12 DEF FreeSet
<1>17. ListInv'
  <2>1. next[h] \in FreeSet' \cup {Null}
    BY <1>4, <1>16
  <2>2. ASSUME NEW s \in FreeSet'
        PROVE  /\ next'[s] \in FreeSet' \cup {Null}
               /\ next'[s] # Null => next'[s] # next[h]
               /\ \A r \in FreeSet' :
                     next'[r] = next'[s] /\ next'[s] # Null => r = s
    <3>1. s \in FreeSet /\ s # h
      BY <1>16, <2>2
    <3>2. \A r \in FreeSet' : r \in FreeSet /\ next'[r] = next[r]
      BY <1>9, <1>16 DEF FreeSet
    <3>3. /\ next[s] \in FreeSet \cup {Null}
          /\ next[s] # Null => next[s] # h
          /\ \A r \in FreeSet : next[r] = next[s] /\ next[s] # Null => r = s
      BY <1>p, <3>1 DEF SemiLockFreeInv, ListInv
    <3>4. next[s] # Null => next[s] # next[h]
      BY <1>3, <3>1, <3>3
    <3>5. next[s] \in FreeSet' \cup {Null}
      BY <1>16, <3>3
    <3> QED
      BY <2>2, <3>2, <3>3, <3>4, <3>5
  <2> QED
    BY <1>8, <2>1, <2>2 DEF ListInv
<1>18. ASSUME NEW u \in Threads, Pushing(u)' PROVE Chain(u)'
  <2>1. u # t /\ Pushing(u)
    BY <1>11, <1>18 DEF Pushing
  <2>2. \A r \in OnHand(u) : next'[r] = next[r]
    BY <1>9, <1>14
  <2> QED
    BY <1>0, <1>7, <1>11, <2>1, <2>2, ChainKept DEF SemiLockFreeInv
<1>19. TagInv'
  <2>1. ASSUME NEW u \in Threads
        PROVE  old[u].tag <= head'.tag /\ old[u] # head'
    <3>1. old[u].tag <= head.tag
      BY DEF SemiLockFreeInv, TagInv
    <3>2. old[u].tag <= head.tag + 1 /\ old[u].tag # head.tag + 1
      BY <1>1, <3>1
    <3> QED
      BY <1>8, <3>2
  <2>2. \A u \in Threads : pc'[u] = "pop" => old[u].node \in Slabs
    BY <1>11 DEF SemiLockFreeInv, TagInv
  <2> QED
    BY <1>0, <2>1, <2>2 DEF TagInv
<1>20. ListPopped
  <2>1. \A s \in FreeSet' : next'[s] = next[s]
    BY <1>9, <1>16 DEF FreeSet
  <2> QED
    BY <1>3, <1>8, <1>16, <1>p, <2>1 DEF ListPopped
<1> QED
  BY <1>2, <1>3, <1>5, <1>7, <1>10, <1>15, <1>17, <1>18, <1>19, <1>20
     DEF SemiLockFreeInv, ChainInv

\* What a thread pushes is a chain of slabs, linked from new to tail.
LEMMA PushedChain ==
    ASSUME UsersInv, SemiLockFreeInv, NEW t \in Threads, Pushing(t), NEW p,
           p = OnHand(t) \ {chosen[t]}
    PROVE  /\ p \subseteq Slabs /\ new[t] \in p /\ tail[t] \in p
           /\ \A s \in p : s # tail[t] => next[s] \in p /\ next[s] # new[t]
           /\ \A r, s \in p :
                 r # tail[t] /\ s # tail[t] /\ next[r] = next[s] => r = s
<1>0. /\ OnHand(t) \subseteq Slabs
      /\ new[t] \in OnHand(t) /\ tail[t] \in OnHand(t)
      /\ Chain(t)
  BY ChainFacts DEF SemiLockFreeInv, ChainInv
<1>1. CASE OneSlab(t)
  <2>1. OnHand(t) = {new[t]} /\ chosen[t] = Null /\ tail[t] = new[t]
    BY <1>1, HandFacts DEF OneSlab
  <2>2. p = {new[t]}
    BY <1>0, <2>1, SlabNames
  <2> QED
    BY <1>0, <2>1, <2>2
<1>2. ASSUME NEW c \in 1 .. MaxChunks, OneChunk(t, c)
      PROVE  /\ new[t] \in p /\ tail[t] \in p
             /\ \A s \in p : s # tail[t] => next[s] \in p /\ next[s] # new[t]
             /\ \A r, s \in p :
                 r # tail[t] /\ s # tail[t] /\ next[r] = next[s] => r = s
  <2>0. SlabsPerChunk \in Nat /\ SlabsPerChunk >= 2
    BY SlabAssumption DEF SlabAssumption
  <2>1. /\ chosen[t] = <<c, SlabsPerChunk>>
        /\ new[t] = <<c, SlabsPerChunk - 1>>
        /\ tail[t] = <<c, 1>>
        /\ \A i \in 2 .. SlabsPerChunk - 1 : next[<<c, i>>] = <<c, i - 1>>
    BY <1>2 DEF OneChunk
  <2>2. chosen[t] # Null /\ chosen[t][1] = c
    BY <2>1, <2>0 DEF Null
  <2>3. OnHand(t) = {c} \X (1 .. SlabsPerChunk)
    BY <2>2, HandFacts
  <2>4. p = {<<c, i>> : i \in 1 .. SlabsPerChunk - 1}
    <3>1. ASSUME NEW s
          PROVE  s \in p <=> s \in {<<c, i>> : i \in 1 .. SlabsPerChunk - 1}
      <4>1. s \in p <=> /\ s \in {c} \X (1 .. SlabsPerChunk)
                        /\ s # <<c, SlabsPerChunk>>
        BY <2>1, <2>3
      <4>2. s \in {c} \X (1 .. SlabsPerChunk) <=>
                \E i \in 1 .. SlabsPerChunk : s = <<c, i>>
        OBVIOUS
      <4>3. \A i : <<c, i>> = <<c, SlabsPerChunk>> <=> i = SlabsPerChunk
        OBVIOUS
      <4>4. \A i : i \in 1 .. SlabsPerChunk /\ i # SlabsPerChunk <=>
                       i \in 1 .. SlabsPerChunk - 1
        BY <2>0
      <4> QED
        BY <4>1, <4>2, <4>3, <4>4, Zenon
    <3> QED
      BY <3>1
  <2>5. new[t] \in p /\ tail[t] \in p
    <3>1. SlabsPerChunk - 1 \in 1 .. SlabsPerChunk - 1
          /\ 1 \in 1 .. SlabsPerChunk - 1
      BY <2>0
    <3> QED
      BY <2>1, <2>4, <3>1
  <2>6. ASSUME NEW s \in p, s # tail[t]
        PROVE  \E i \in 2 .. SlabsPerChunk - 1 :
                  s = <<c, i>> /\ next[s] = <<c, i - 1>>
    <3>1. PICK i \in 1 .. SlabsPerChunk - 1 : s = <<c, i>>
      BY <2>4, <2>6
    <3>2. i # 1
      BY <2>1, <2>6, <3>1
    <3>3. i \in 2 .. SlabsPerChunk - 1
      BY <2>0, <3>2
    <3> QED
      BY <2>1, <3>1, <3>3
  <2>7. ASSUME NEW s \in p, s # tail[t]
        PROVE  next[s] \in p /\ next[s] # new[t]
    <3>1. PICK i \in 2 .. SlabsPerChunk - 1 :
                 s = <<c, i>> /\ next[s] = <<c, i - 1>>
      BY <2>6, <2>7
    <3>2. i - 1 \in 1 .. SlabsPerChunk - 1 /\ i - 1 # SlabsPerChunk - 1
      BY <2>0
    <3> QED
      BY <2>1, <2>4, <3>1, <3>2
  <2>8. ASSUME NEW r \in p, NEW s \in p, r # tail[t], s # tail[t],
               next[r] = next[s]
        PROVE  r = s
    <3>1. PICK i \in 2 .. SlabsPerChunk - 1 :
                 r = <<c, i>> /\ next[r] = <<c, i - 1>>
      BY <2>6, <2>8
    <3>2. PICK j \in 2 .. SlabsPerChunk - 1 :
                 s = <<c, j>> /\ next[s] = <<c, j - 1>>
      BY <2>6, <2>8
    <3>3. i - 1 = j - 1
      BY <2>8, <3>1, <3>2
    <3>4. i = j
      BY <2>0, <3>3
    <3> QED
      BY <3>1, <3>2, <3>4
  <2> QED
    BY <2>5, <2>7, <2>8
<1>3. p \subseteq Slabs
  BY <1>0
<1> QED
  BY <1>0, <1>1, <1>2, <1>3 DEF Chain

\* A successful push makes the slabs of the chain free, and hands out the last
\* slab of a new chunk.
LEMMA Pushes ==
    ASSUME UsersInv, SemiLockFreeInv, NEW t \in Threads, SemiLockFree!Push(t)
    PROVE  /\ UsersInv' /\ SemiLockFreeInv' /\ ListPushed(t)
           /\ \/ users' = users
              \/ \E s \in Slabs : /\ users[s] = 0
                                  /\ users' = [users EXCEPT ![s] = 1]
<1>p. PICK p : p = OnHand(t) \ {chosen[t]}
  OBVIOUS
<1>a. PICK h, n, z, k : h = head.node /\ n = new[t] /\ z = tail[t]
                                       /\ k = chosen[t]
  OBVIOUS
<1>0. /\ chunks' = chunks /\ old' = old /\ new' = new /\ tail' = tail
      /\ chosen' = chosen
      /\ pc[t] = "push" /\ pc' = [pc EXCEPT ![t] = "idle"]
      /\ old[t] = head
      /\ head' = [node |-> n, tag |-> head.tag + 1]
      /\ IF k = Null THEN users' = users /\ next' = next
         ELSE /\ users' = [users EXCEPT ![k] = @ + 1]
              /\ next' = [next EXCEPT ![k] = <<0, 1>>]
  BY <1>a, SlabNames DEF SemiLockFree!Push, SemiLockFree!Goto,
                         SemiLockFree!Hand, SemiLockFree!Tagged
<1>1. /\ users \in [Slabs -> 0 .. 1] /\ next \in [Slabs -> Words]
      /\ pc \in [Threads -> {"idle", "allocate", "pop", "link", "push"}]
      /\ head \in Heads /\ head.tag \in Nat
      /\ \A u \in Threads : old[u].tag \in Nat
      /\ h \in FreeSet \cup {Null}
      /\ FreeSet \subseteq Slabs
  BY <1>a DEF UsersInv, SemiLockFreeInv, HeadTypes, Heads, ListInv, FreeSet
<1>2. Pushing(t)
  BY <1>0 DEF Pushing
<1>3. /\ OnHand(t) \subseteq Slabs
      /\ k # Null => k \in OnHand(t)
      /\ k \notin p
  BY <1>2, <1>a, <1>p, ChainFacts DEF SemiLockFreeInv
<1>4. /\ p \subseteq Slabs /\ n \in p /\ z \in p
      /\ \A s \in p : s # z => next[s] \in p /\ next[s] # n
      /\ \A r, s \in p : r # z /\ s # z /\ next[r] = next[s] => r = s
  <2>1. /\ p \subseteq Slabs /\ new[t] \in p /\ tail[t] \in p
        /\ \A s \in p : s # tail[t] => next[s] \in p /\ next[s] # new[t]
        /\ \A r, s \in p :
              r # tail[t] /\ s # tail[t] /\ next[r] = next[s] => r = s
    BY <1>2, <1>p, PushedChain
  <2> QED
    BY <1>a, <2>1
<1>5. next[z] = h
  BY <1>0, <1>2, <1>a DEF SemiLockFreeInv, ChainInv, Chain
<1>6. \A s \in OnHand(t) : /\ s[1] <= chunks /\ users[s] = 0
                           /\ s \notin FreeSet
                           /\ \A u \in Threads : s \in OnHand(u) => u = t
  BY DEF SemiLockFreeInv, HandInv, FreeSet
<1>7. /\ users' \in [Slabs -> 0 .. 1] /\ next' \in [Slabs -> Words]
      /\ \A s \in Slabs : s # k => users'[s] = users[s] /\ next'[s] = next[s]
      /\ k # Null => users'[k] = 1
  <2>1. CASE k = Null
    BY <1>0, <1>1, <2>1
  <2>2. CASE k # Null
    <3>1. k \in Slabs /\ users[k] = 0
      BY <1>3, <1>6, <2>2
    <3>2. users' = [users EXCEPT ![k] = 1]
      BY <1>0, <2>2, <3>1
    <3>3. <<0, 1>> \in Words
      BY DEF Words
    <3> QED
      BY <1>0, <1>1, <2>2, <3>1, <3>2, <3>3
  <2> QED
    BY <2>1, <2>2
<1>8. \/ users' = users
      \/ \E s \in Slabs : users[s] = 0 /\ users' = [users EXCEPT ![s] = 1]
  <2>1. CASE k # Null
    <3>1. k \in Slabs /\ users[k] = 0
      BY <1>3, <1>6, <2>1
    <3>2. users' = [users EXCEPT ![k] = 1]
      BY <1>0, <2>1, <3>1
    <3> QED
      BY <3>1, <3>2
  <2> QED
    BY <1>0, <2>1
<1>9. UsersInv'
  <2>1. k # Null => k[1] <= chunks
    BY <1>3, <1>6
  <2>2. ASSUME NEW s \in Slabs, users'[s] > 0 PROVE s[1] <= chunks
    <3>1. CASE s = k
      <4>1. k # Null
        BY <3>1, SlabNames
      <4> QED
        BY <2>1, <3>1, <4>1
    <3>2. CASE s # k
      BY <1>7, <2>2, <3>2 DEF UsersInv
    <3> QED
      BY <3>1, <3>2
  <2> QED
    BY <1>0, <1>7, <2>2 DEF UsersInv
<1>10. head'.node = n /\ head'.tag = head.tag + 1 /\ head' \in Heads
  BY <1>0, <1>1, <1>4 DEF Heads, Links
<1>11. HeadTypes'
  BY <1>0, <1>1, <1>7, <1>10 DEF SemiLockFreeInv, HeadTypes
<1>12. pc'[t] = "idle" /\ \A u \in Threads : u # t => pc'[u] = pc[u]
  BY <1>0, <1>1
<1>13. OnHand(t)' = {}
  BY <1>12 DEF OnHand, SemiLockFree!OnHand
<1>14. \A u \in Threads : u # t => OnHand(u)' = OnHand(u)
  BY <1>0, <1>11, <1>12, OthersHands DEF SemiLockFreeInv
<1>15. \A u \in Threads : u # t =>
           \A r \in OnHand(u) : r \in Slabs /\ r # k /\ r \notin OnHand(t)
  <2>1. \A u \in Threads : Pushing(u) => OnHand(u) \subseteq Slabs
    BY ChainFacts DEF SemiLockFreeInv
  <2>2. \A u \in Threads : OnHand(u) \subseteq Slabs
    BY <2>1, HandFacts
  <2>3. \A u \in Threads : u # t => \A r \in OnHand(u) : r \notin OnHand(t)
    BY <1>6
  <2> QED
    BY <1>3, <2>2, <2>3, SlabNames
<1>16. HandInv'
  BY <1>0, <1>7, <1>13, <1>14, <1>15 DEF SemiLockFreeInv, HandInv
<1>17. FreeSet' = FreeSet \cup p
  <2>1. ASSUME NEW s \in Slabs
        PROVE  s \in FreeSet' <=> s \in FreeSet \/ s \in p
    <3>1. CASE s = k
      <4>1. k # Null
        BY <3>1, SlabNames
      <4>2. users'[s] = 1 /\ s \notin FreeSet /\ s \notin p
        BY <1>3, <1>6, <1>7, <3>1, <4>1
      <4> QED
        BY <4>2 DEF FreeSet
    <3>2. CASE s # k /\ s \in OnHand(t)
      <4>1. s \in p /\ users'[s] = 0 /\ s[1] <= chunks
        BY <1>6, <1>7, <1>a, <1>p, <3>2
      <4>2. \A u \in Threads : s \notin OnHand(u)'
        BY <1>13, <1>14, <1>15, <3>2
      <4> QED
        BY <1>0, <4>1, <4>2 DEF FreeSet
    <3>3. CASE s # k /\ s \notin OnHand(t)
      <4>1. s \notin p /\ users'[s] = users[s]
        BY <1>7, <1>p, <3>3
      <4>2. \A u \in Threads : s \in OnHand(u)' <=> s \in OnHand(u)
        BY <1>13, <1>14, <3>3
      <4> QED
        BY <1>0, <4>1, <4>2 DEF FreeSet
    <3> QED
      BY <3>1, <3>2, <3>3
  <2>2. FreeSet' \subseteq Slabs
    BY DEF FreeSet
  <2> QED
    BY <1>1, <1>4, <2>1, <2>2
<1>18. \A s \in FreeSet' : next'[s] = next[s]
  <2>1. \A s \in FreeSet' : s \in Slabs /\ s # k
    <3>1. k \notin FreeSet
      BY <1>1, <1>3, <1>6, SlabNames
    <3> QED
      BY <1>1, <1>3, <1>4, <1>17, <3>1
  <2> QED
    BY <1>7, <2>1
<1>19. p \cap FreeSet = {} /\ Null \notin p /\ Null \notin FreeSet
  BY <1>1, <1>4, <1>6, <1>p, SlabNames
<1>20. ListInv'
  <2>1. ASSUME NEW s \in FreeSet
        PROVE  /\ next[s] \in FreeSet \cup {Null}
               /\ next[s] # Null => next[s] # h
               /\ \A r \in FreeSet :
                     next[r] = next[s] /\ next[s] # Null => r = s
    BY <1>a DEF SemiLockFreeInv, ListInv
  <2>2. ASSUME NEW s \in FreeSet \cup p
        PROVE  /\ next[s] \in FreeSet \cup p \cup {Null}
               /\ next[s] # Null => next[s] # n
    <3>1. CASE s \in FreeSet
      BY <1>4, <1>19, <2>1, <3>1
    <3>2. CASE s = z
      BY <1>1, <1>4, <1>5, <1>19, <3>2
    <3>3. CASE s \in p /\ s # z
      BY <1>4, <3>3
    <3> QED
      BY <2>2, <3>1, <3>2, <3>3
  <2>3. ASSUME NEW r \in FreeSet \cup p, NEW s \in FreeSet \cup p,
               next[r] = next[s], next[s] # Null
        PROVE  r = s
    <3>1. CASE r \in FreeSet /\ s \in FreeSet
      BY <2>1, <2>3, <3>1
    <3>2. CASE r \in p /\ s \in p
      <4>1. CASE r # z /\ s # z
        BY <1>4, <2>3, <3>2, <4>1
      <4>2. CASE r = z /\ s # z
        BY <1>1, <1>4, <1>5, <1>19, <2>3, <3>2, <4>2
      <4>3. CASE r # z /\ s = z
        BY <1>1, <1>4, <1>5, <1>19, <2>3, <3>2, <4>3
      <4> QED
        BY <4>1, <4>2, <4>3
    <3>3. CASE r \in FreeSet /\ s \in p
      <4>1. next[r] \in FreeSet /\ next[r] # h
        BY <2>1, <2>3, <3>3
      <4> QED
        BY <1>4, <1>5, <1>19, <2>3, <3>3, <4>1
    <3>4. CASE r \in p /\ s \in FreeSet
      <4>1. next[s] \in FreeSet /\ next[s] # h
        BY <2>1, <2>3, <3>4
      <4> QED
        BY <1>4, <1>5, <1>19, <2>3, <3>4, <4>1
    <3> QED
      BY <2>3, <3>1, <3>2, <3>3, <3>4
  <2>4. n \in FreeSet'
    BY <1>4, <1>17
  <2> QED
    BY <1>10, <1>17, <1>18, <2>2, <2>3, <2>4 DEF ListInv
<1>21. ASSUME NEW u \in Threads, Pushing(u)' PROVE Chain(u)'
  <2>1. u # t /\ Pushing(u)
    BY <1>12, <1>21 DEF Pushing
  <2>2. \A r \in OnHand(u) : next'[r] = next[r]
    BY <1>7, <1>15, <2>1
  <2>3. chunks <= chunks'
    BY <1>0 DEF UsersInv
  <2> QED
    BY <1>0, <1>9, <1>12, <2>1, <2>2, <2>3, ChainKept DEF SemiLockFreeInv
<1>22. TagInv'
  <2>1. ASSUME NEW u \in Threads
        PROVE  old[u].tag <= head'.tag /\ old[u] # head'
    <3>1. old[u].tag <= head.tag
      BY DEF SemiLockFreeInv, TagInv
    <3>2. old[u].tag <= head.tag + 1 /\ old[u].tag # head.tag + 1
      BY <1>1, <3>1
    <3> QED
      BY <1>10, <3>2
  <2>2. \A u \in Threads : pc'[u] = "pop" => old[u].node \in Slabs
    BY <1>12 DEF SemiLockFreeInv, TagInv
  <2> QED
    BY <1>0, <2>1, <2>2 DEF TagInv
<1>23. ListPushed(t)
  BY <1>2, <1>5, <1>10, <1>17, <1>18, <1>19, <1>a, <1>p DEF ListPushed
<1> QED
  BY <1>8, <1>9, <1>11, <1>16, <1>20, <1>21, <1>22, <1>23
     DEF SemiLockFreeInv, ChainInv

\* Every step of the semi-lock-free list.
LEMMA SemiLockFreeKeeps ==
    ASSUME UsersInv, SemiLockFreeInv, SemiLockFree!Next
    PROVE  /\ UsersInv' /\ SemiLockFreeInv' /\ PoolStep
           /\ ListKept \/ ListPopped \/ \E t \in Threads : ListPushed(t)
<1>1. PICK t \in Threads :
          SemiLockFree!Allocate(t) \/ SemiLockFree!Deallocate(t)
  BY DEF SemiLockFree!Next
<1>2. CASE \/ SemiLockFree!LoadHead(t) \/ SemiLockFree!ReadNext(t)
           \/ SemiLockFree!PopFails(t) \/ SemiLockFree!PushFails(t)
  BY <1>2, Loads DEF PoolStep
<1>3. CASE SemiLockFree!Pop(t)
  BY <1>3, Pops DEF PoolStep
<1>4. CASE SemiLockFree!AllocateOneChunk(t)
  BY <1>4, MakesChunk DEF PoolStep
<1>5. ASSUME NEW s \in Slabs, SemiLockFree!BeginDeallocate(t, s)
      PROVE  UsersInv' /\ SemiLockFreeInv' /\ PoolStep /\ ListKept
  BY <1>5, GivesBack DEF PoolStep
<1>6. CASE SemiLockFree!LinkTail(t)
  BY <1>6, LinksTail DEF PoolStep
<1>7. CASE SemiLockFree!Push(t)
  BY <1>7, Pushes DEF PoolStep
<1> QED
  BY <1>1, <1>2, <1>3, <1>4, <1>5, <1>6, <1>7, SlabNames
     DEF SemiLockFree!Allocate, SemiLockFree!Deallocate

-----------------------------------------------------------------------------
(* Lists without repetitions *)

\* The first element of a list is not in the rest of it.
LEMMA TailOf ==
    ASSUME NEW S, NEW s \in Seq(S), s # <<>>, NoRepeat(s)
    PROVE  /\ Tail(s) \in Seq(S) /\ Len(Tail(s)) = Len(s) - 1
           /\ Head(s) \in S /\ Head(s) \in Elems(s)
           /\ NoRepeat(Tail(s))
           /\ Elems(Tail(s)) \subseteq Elems(s)
           /\ Head(s) \notin Elems(Tail(s))
<1>1. /\ Tail(s) \in Seq(S) /\ Len(Tail(s)) = Len(s) - 1
      /\ Len(s) \in Nat /\ Len(s) >= 1 /\ Head(s) = s[1]
  OBVIOUS
<1>2. \A i \in 1 .. Len(Tail(s)) : Tail(s)[i] = s[i + 1]
  OBVIOUS
<1>3. \A i \in 1 .. Len(Tail(s)) : i + 1 \in 1 .. Len(s) /\ i + 1 # 1
  BY <1>1
<1>4. 1 \in 1 .. Len(s) /\ s[1] \in S
  BY <1>1
<1>5. NoRepeat(Tail(s))
  BY <1>1, <1>2, <1>3 DEF NoRepeat
<1>6. Elems(Tail(s)) \subseteq Elems(s)
  BY <1>2, <1>3 DEF Elems
<1>7. Head(s) \notin Elems(Tail(s))
  BY <1>1, <1>2, <1>3, <1>4 DEF Elems, NoRepeat
<1> QED
  BY <1>1, <1>4, <1>5, <1>6, <1>7 DEF Elems

\* The same for a list of slabs.
LEMMA TailFacts ==
    ASSUME NEW s \in Seq(Slabs), s # <<>>, NoRepeat(s)
    PROVE  /\ Tail(s) \in Seq(Slabs) /\ Len(Tail(s)) = Len(s) - 1
           /\ Head(s) \in Slabs /\ Head(s) \in Elems(s)
           /\ NoRepeat(Tail(s))
           /\ Elems(Tail(s)) \subseteq Elems(s)
           /\ Head(s) \notin Elems(Tail(s))
BY TailOf

\* An element put in front of a list that does not have it.
LEMMA ConsOf ==
    ASSUME NEW S, NEW s \in Seq(S), NoRepeat(s), NEW x \in S,
           x \notin Elems(s)
    PROVE  /\ <<x>> \o s \in Seq(S)
           /\ Len(<<x>> \o s) = Len(s) + 1
           /\ NoRepeat(<<x>> \o s)
           /\ Elems(<<x>> \o s) \subseteq Elems(s) \cup {x}
<1> DEFINE f == <<x>> \o s
<1>1. f \in Seq(S) /\ Len(f) = Len(s) + 1 /\ Len(s) \in Nat
  OBVIOUS
<1>2. f[1] = x /\ \A i \in 1 .. Len(f) : i # 1 => f[i] = s[i - 1]
  OBVIOUS
<1> HIDE DEF f
<1>3. \A i \in 1 .. Len(f) : i # 1 => i - 1 \in 1 .. Len(s)
  BY <1>1
<1>4. \A i, j \in 1 .. Len(f) : i - 1 = j - 1 => i = j
  BY <1>1
<1>5. NoRepeat(f)
  <2> SUFFICES ASSUME NEW i \in 1 .. Len(f), NEW j \in 1 .. Len(f), f[i] = f[j]
               PROVE  i = j
    BY DEF NoRepeat
  <2>1. CASE i # 1 /\ j # 1
    BY <1>2, <1>3, <1>4, <2>1 DEF NoRepeat
  <2>2. CASE i = 1 /\ j # 1
    BY <1>2, <1>3, <2>2 DEF Elems
  <2>3. CASE i # 1 /\ j = 1
    BY <1>2, <1>3, <2>3 DEF Elems
  <2> QED
    BY <2>1, <2>2, <2>3
<1>6. Elems(f) \subseteq Elems(s) \cup {x}
  BY <1>2, <1>3 DEF Elems
<1> QED
  BY <1>1, <1>5, <1>6 DEF f

\* The same for a list of slabs.
LEMMA ConsFacts ==
    ASSUME NEW s \in Seq(Slabs), NoRepeat(s), NEW x \in Slabs, x \notin Elems(s)
    PROVE  /\ <<x>> \o s \in Seq(Slabs)
           /\ Len(<<x>> \o s) = Len(s) + 1
           /\ NoRepeat(<<x>> \o s)
           /\ Elems(<<x>> \o s) \subseteq Elems(s) \cup {x}
BY ConsOf

\* The two parts of a list that is cut.
LEMMA CutFacts ==
    ASSUME NEW s \in Seq(Slabs), NoRepeat(s), NEW n \in 0 .. Len(s)
    PROVE  /\ SubSeq(s, 1, n) \in Seq(Slabs)
           /\ SubSeq(s, n + 1, Len(s)) \in Seq(Slabs)
           /\ Len(SubSeq(s, 1, n)) = n
           /\ Len(SubSeq(s, n + 1, Len(s))) = Len(s) - n
           /\ NoRepeat(SubSeq(s, 1, n))
           /\ NoRepeat(SubSeq(s, n + 1, Len(s)))
           /\ Elems(SubSeq(s, 1, n)) \subseteq Elems(s)
           /\ Elems(SubSeq(s, n + 1, Len(s))) \subseteq Elems(s)
           /\ Elems(SubSeq(s, 1, n)) \cap Elems(SubSeq(s, n + 1, Len(s))) = {}
<1> DEFINE a == SubSeq(s, 1, n)
           b == SubSeq(s, n + 1, Len(s))
<1>0. Len(s) \in Nat /\ n \in Nat /\ n <= Len(s)
  OBVIOUS
<1>1. /\ a \in Seq(Slabs) /\ Len(a) = n
      /\ \A i \in 1 .. Len(a) : a[i] = s[i]
  BY <1>0
<1>2. /\ b \in Seq(Slabs) /\ Len(b) = Len(s) - n
      /\ \A i \in 1 .. Len(b) : b[i] = s[n + i]
  BY <1>0
<1> HIDE DEF a, b
<1>3. \A i \in 1 .. Len(a) : i \in 1 .. Len(s)
  BY <1>0, <1>1
<1>4. \A i \in 1 .. Len(b) : n + i \in 1 .. Len(s)
  BY <1>0, <1>2
<1>5. \A i, j \in 1 .. Len(b) : n + i = n + j => i = j
  BY <1>0, <1>2
<1>6. \A i \in 1 .. Len(a), j \in 1 .. Len(b) : i # n + j
  BY <1>0, <1>1, <1>2
<1>7. NoRepeat(a)
  BY <1>1, <1>3 DEF NoRepeat
<1>8. NoRepeat(b)
  BY <1>2, <1>4, <1>5 DEF NoRepeat
<1>9. Elems(a) \subseteq Elems(s) /\ Elems(b) \subseteq Elems(s)
  <2>1. Elems(a) \subseteq Elems(s)
    BY <1>1, <1>3 DEF Elems
  <2>2. Elems(b) \subseteq Elems(s)
    BY <1>2, <1>4 DEF Elems
  <2> QED
    BY <2>1, <2>2
<1>10. Elems(a) \cap Elems(b) = {}
  BY <1>1, <1>2, <1>3, <1>4, <1>6 DEF Elems, NoRepeat
<1> QED
  BY <1>1, <1>2, <1>7, <1>8, <1>9, <1>10 DEF a, b

\* The slabs of a new chunk, the last one first.
LEMMA ChunkFacts ==
    ASSUME NEW c \in 1 .. MaxChunks
    PROVE  /\ ThreadLocal!NewChunk(c) \in Seq(Slabs)
           /\ Len(ThreadLocal!NewChunk(c)) = SlabsPerChunk
           /\ NoRepeat(ThreadLocal!NewChunk(c))
           /\ \A s \in Elems(ThreadLocal!NewChunk(c)) : s \in Slabs /\ s[1] = c
<1> DEFINE s == [i \in 1 .. SlabsPerChunk |-> <<c, i>>]
           r == [i \in 1 .. SlabsPerChunk |-> s[(SlabsPerChunk - i) + 1]]
<1>0. SlabsPerChunk \in Nat
  BY SlabAssumption DEF SlabAssumption
<1>1. s \in Seq(Slabs) /\ Len(s) = SlabsPerChunk
  <2>1. \A i \in 1 .. SlabsPerChunk : s[i] \in Slabs
    BY DEF Slabs
  <2> QED
    BY <1>0, <2>1
<1>2. ThreadLocal!NewChunk(c) = r
  <2>1. ThreadLocal!NewChunk(c) =
            [i \in 1 .. Len(s) |-> s[(Len(s) - i) + 1]]
    BY Zenon DEF ThreadLocal!NewChunk, ThreadLocal!Reverse
  <2> HIDE DEF s
  <2> QED
    BY <1>1, <2>1
<1>3. \A i \in 1 .. SlabsPerChunk :
          (SlabsPerChunk - i) + 1 \in 1 .. SlabsPerChunk
  BY <1>0
<1>4. \A i \in 1 .. SlabsPerChunk : r[i] = <<c, (SlabsPerChunk - i) + 1>>
  BY <1>3
<1>5. \A i \in 1 .. SlabsPerChunk : r[i] \in Slabs /\ r[i][1] = c
  BY <1>3, <1>4 DEF Slabs
<1>6. r \in Seq(Slabs) /\ Len(r) = SlabsPerChunk
  BY <1>0, <1>5
<1>7. \A i, j \in 1 .. SlabsPerChunk :
          (SlabsPerChunk - i) + 1 = (SlabsPerChunk - j) + 1 => i = j
  BY <1>0
<1> HIDE DEF r
<1>8. NoRepeat(r)
  BY <1>4, <1>6, <1>7 DEF NoRepeat
<1>9. \A x \in Elems(r) : x \in Slabs /\ x[1] = c
  BY <1>5, <1>6 DEF Elems
<1> QED
  BY <1>2, <1>6, <1>8, <1>9

-----------------------------------------------------------------------------
(* The lists of the threads and the central pool *)

\* Handing out the first slab of a list of free slabs that are nowhere else.
LEMMA TakeKeeps ==
    ASSUME PlacesInv, UsersInv, NEW t \in Threads, NEW free \in Seq(Slabs),
           free # <<>>, NoRepeat(free),
           \A s \in Elems(free) : s[1] <= chunks' /\ users[s] = 0,
           \A u \in Threads : u # t => Elems(free) \cap Elems(list[u]) = {},
           central' \in Seq(Seq(Slabs)),
           \A k \in 1 .. Len(central') :
              /\ k \in 1 .. Len(central) /\ central'[k] = central[k]
              /\ Elems(free) \cap Elems(central[k]) = {},
           chunks' \in 0 .. MaxChunks, chunks <= chunks',
           list' = [list EXCEPT ![t] = Tail(free)],
           users' = [users EXCEPT ![Head(free)] = @ + 1]
    PROVE  /\ PlacesInv' /\ UsersInv' /\ PoolStep
           /\ Len(list'[t]) = Len(free) - 1
           /\ \A u \in Threads : u # t => list'[u] = list[u]
<1>p. PICK h, l : h = Head(free) /\ l = Tail(free)
  OBVIOUS
<1>1. /\ l \in Seq(Slabs) /\ Len(l) = Len(free) - 1
      /\ h \in Slabs /\ h \in Elems(free)
      /\ NoRepeat(l)
      /\ Elems(l) \subseteq Elems(free)
      /\ h \notin Elems(l)
  BY <1>p, TailFacts
<1>2. /\ list \in [Threads -> Seq(Slabs)]
      /\ users \in [Slabs -> 0 .. 1]
      /\ users[h] = 0 /\ h[1] <= chunks'
      /\ chunks \in Nat /\ chunks' \in Nat
  BY <1>1 DEF PlacesInv, UsersInv
<1>3. users' = [users EXCEPT ![h] = 1]
  BY <1>p, <1>2
<1>4. /\ users' \in [Slabs -> 0 .. 1] /\ users'[h] = 1
      /\ \A s \in Slabs : s # h => users'[s] = users[s]
  BY <1>1, <1>2, <1>3
<1>5. \A s \in Slabs : s[1] <= chunks => s[1] <= chunks'
  <2>1. \A s \in Slabs : s[1] \in Nat
    BY SlabParts
  <2>2. \A a \in Nat : a <= chunks => a <= chunks'
    BY <1>2
  <2> QED
    BY <2>1, <2>2
<1>6. UsersInv'
  BY <1>2, <1>4, <1>5 DEF UsersInv
<1>7. PoolStep
  BY <1>1, <1>2, <1>3 DEF PoolStep
<1>8. /\ list' \in [Threads -> Seq(Slabs)]
      /\ list'[t] = l
      /\ \A u \in Threads : u # t => list'[u] = list[u]
  BY <1>p, <1>1, <1>2
<1>9. \A x \in Seq(Slabs) : Elems(x) \subseteq Slabs
  BY DEF Elems
<1>10. \A u \in Threads : u # t => /\ Elems(list[u]) \subseteq Slabs
                                  /\ h \notin Elems(list[u])
                                  /\ Elems(l) \cap Elems(list[u]) = {}
  BY <1>1, <1>2, <1>9
<1>11. \A k \in 1 .. Len(central') : /\ Elems(central'[k]) \subseteq Slabs
                                    /\ h \notin Elems(central'[k])
                                    /\ Elems(l) \cap Elems(central'[k]) = {}
  <2>1. \A k \in 1 .. Len(central') : central'[k] \in Seq(Slabs)
    OBVIOUS
  <2> QED
    BY <1>1, <1>9, <2>1
<1>12. \A u \in Threads : NoRepeat(list'[u])
  BY <1>1, <1>8 DEF PlacesInv
<1>13. ASSUME NEW u \in Threads, NEW w \in Threads, u # w
       PROVE  Elems(list'[u]) \cap Elems(list'[w]) = {}
  <2>1. CASE u = t
    BY <1>8, <1>10, <1>13, <2>1
  <2>2. CASE w = t
    BY <1>8, <1>10, <1>13, <2>2
  <2>3. CASE u # t /\ w # t
    BY <1>8, <1>13, <2>3 DEF PlacesInv
  <2> QED
    BY <2>1, <2>2, <2>3
<1>14. \A k \in 1 .. Len(central') : NoRepeat(central'[k])
  BY DEF PlacesInv
<1>15. \A k, m \in 1 .. Len(central') :
           k # m => Elems(central'[k]) \cap Elems(central'[m]) = {}
  BY DEF PlacesInv
<1>16. \A u \in Threads, k \in 1 .. Len(central') :
           Elems(list'[u]) \cap Elems(central'[k]) = {}
  BY <1>8, <1>11 DEF PlacesInv
<1>17. \A u \in Threads : \A s \in Elems(list'[u]) :
           s[1] <= chunks' /\ users'[s] = 0
  <2>1. \A s \in Elems(l) : s \in Slabs /\ s # h /\ s \in Elems(free)
    BY <1>1, <1>9
  <2>2. \A s \in Elems(l) : s[1] <= chunks' /\ users'[s] = 0
    BY <1>4, <2>1
  <2>3. ASSUME NEW u \in Threads, u # t, NEW s \in Elems(list[u])
        PROVE  s[1] <= chunks' /\ users'[s] = 0
    <3>1. s[1] <= chunks /\ users[s] = 0
      BY <2>3 DEF PlacesInv
    <3>2. s \in Slabs /\ s # h
      BY <1>10, <2>3
    <3> QED
      BY <1>4, <1>5, <3>1, <3>2
  <2> QED
    BY <1>8, <2>2, <2>3
<1>18. ASSUME NEW k \in 1 .. Len(central'), NEW s \in Elems(central'[k])
       PROVE  s[1] <= chunks' /\ users'[s] = 0
  <2>1. s[1] <= chunks /\ users[s] = 0
    BY <1>18 DEF PlacesInv
  <2>2. s \in Slabs /\ s # h
    BY <1>11, <1>18
  <2> QED
    BY <1>4, <1>5, <2>1, <2>2
<1>19. PlacesInv'
  BY <1>8, <1>12, <1>13, <1>14, <1>15, <1>16, <1>17, <1>18 DEF PlacesInv
<1> QED
  BY <1>1, <1>6, <1>7, <1>8, <1>19

\* Giving a slab back: it becomes part of the thread's list, which is kept (b)
\* or cut in two (a and b).
LEMMA GiveKeeps ==
    ASSUME PlacesInv, UsersInv, NEW t \in Threads, NEW s \in Slabs,
           users[s] > 0, users' = [users EXCEPT ![s] = @ - 1],
           chunks' = chunks,
           NEW a \in Seq(Slabs), NEW b \in Seq(Slabs),
           NoRepeat(a), NoRepeat(b), Elems(a) \cap Elems(b) = {},
           Elems(a) \subseteq Elems(list[t]) \cup {s},
           Elems(b) \subseteq Elems(list[t]) \cup {s},
           list' = [list EXCEPT ![t] = b],
           central' = central \/ central' = Append(central, a)
    PROVE  /\ PlacesInv' /\ UsersInv' /\ PoolStep
           /\ list'[t] = b
           /\ \A u \in Threads : u # t => list'[u] = list[u]
<1>1. /\ list \in [Threads -> Seq(Slabs)]
      /\ users \in [Slabs -> 0 .. 1]
      /\ central \in Seq(Seq(Slabs))
  BY DEF PlacesInv, UsersInv
<1>2. users[s] = 1 /\ users' = [users EXCEPT ![s] = 0]
  <2>1. users[s] = 1
    BY <1>1
  <2> QED
    BY <2>1
<1>3. /\ users' \in [Slabs -> 0 .. 1] /\ users'[s] = 0
      /\ \A r \in Slabs : r # s => users'[r] = users[r]
  BY <1>1, <1>2
<1>4. UsersInv' /\ PoolStep /\ s[1] <= chunks
  BY <1>2, <1>3 DEF UsersInv, PoolStep
<1>5. /\ list' \in [Threads -> Seq(Slabs)]
      /\ list'[t] = b
      /\ \A u \in Threads : u # t => list'[u] = list[u]
  BY <1>1
<1>6. /\ \A u \in Threads : s \notin Elems(list[u])
      /\ \A k \in 1 .. Len(central) : s \notin Elems(central[k])
  BY <1>2 DEF PlacesInv
<1>7. \A u \in Threads : u # t => /\ Elems(a) \cap Elems(list[u]) = {}
                                 /\ Elems(b) \cap Elems(list[u]) = {}
  BY <1>6 DEF PlacesInv
<1>8. \A k \in 1 .. Len(central) : /\ Elems(a) \cap Elems(central[k]) = {}
                                  /\ Elems(b) \cap Elems(central[k]) = {}
  BY <1>6 DEF PlacesInv
<1>9. \A x \in Seq(Slabs) : Elems(x) \subseteq Slabs
  BY DEF Elems
<1>10. /\ \A r \in Elems(a) : r[1] <= chunks /\ users'[r] = 0
       /\ \A r \in Elems(b) : r[1] <= chunks /\ users'[r] = 0
  <2>1. \A r \in Elems(list[t]) :
            r \in Slabs /\ r # s /\ r[1] <= chunks /\ users[r] = 0
    BY <1>1, <1>6, <1>9 DEF PlacesInv
  <2>2. \A r \in Elems(list[t]) \cup {s} : r[1] <= chunks /\ users'[r] = 0
    BY <1>3, <1>4, <2>1
  <2> QED
    BY <2>2
<1>11. \A u \in Threads : u # t =>
           \A r \in Elems(list[u]) : r[1] <= chunks /\ users'[r] = 0
  <2>1. \A u \in Threads : \A r \in Elems(list[u]) :
            r \in Slabs /\ r # s /\ r[1] <= chunks /\ users[r] = 0
    BY <1>1, <1>6, <1>9 DEF PlacesInv
  <2> QED
    BY <1>3, <2>1
<1>12. \A k \in 1 .. Len(central) :
           \A r \in Elems(central[k]) : r[1] <= chunks /\ users'[r] = 0
  <2>1. \A k \in 1 .. Len(central) : central[k] \in Seq(Slabs)
    BY <1>1
  <2>2. \A k \in 1 .. Len(central) : \A r \in Elems(central[k]) :
            r \in Slabs /\ r # s /\ r[1] <= chunks /\ users[r] = 0
    BY <1>6, <1>9, <2>1 DEF PlacesInv
  <2> QED
    BY <1>3, <2>2
<1>13. \A u \in Threads : NoRepeat(list'[u])
  BY <1>5 DEF PlacesInv
<1>14. ASSUME NEW u \in Threads, NEW w \in Threads, u # w
       PROVE  Elems(list'[u]) \cap Elems(list'[w]) = {}
  <2>1. CASE u = t
    BY <1>5, <1>7, <1>14, <2>1
  <2>2. CASE w = t
    BY <1>5, <1>7, <1>14, <2>2
  <2>3. CASE u # t /\ w # t
    BY <1>5, <1>14, <2>3 DEF PlacesInv
  <2> QED
    BY <2>1, <2>2, <2>3
<1>15. \A u \in Threads :
           \A r \in Elems(list'[u]) : r[1] <= chunks' /\ users'[r] = 0
  BY <1>5, <1>10, <1>11
<1>16. CASE central' = central
  <2>1. \A u \in Threads, k \in 1 .. Len(central) :
            Elems(list'[u]) \cap Elems(central[k]) = {}
    BY <1>5, <1>8 DEF PlacesInv
  <2>3. /\ central' \in Seq(Seq(Slabs))
        /\ \A k \in 1 .. Len(central') : NoRepeat(central'[k])
        /\ \A k, m \in 1 .. Len(central') :
              k # m => Elems(central'[k]) \cap Elems(central'[m]) = {}
    BY <1>16 DEF PlacesInv
  <2>4. /\ \A u \in Threads, k \in 1 .. Len(central') :
              Elems(list'[u]) \cap Elems(central'[k]) = {}
        /\ \A k \in 1 .. Len(central') :
              \A r \in Elems(central'[k]) : r[1] <= chunks' /\ users'[r] = 0
    BY <1>12, <1>16, <2>1
  <2>2. PlacesInv'
    BY <1>5, <1>13, <1>14, <1>15, <2>3, <2>4 DEF PlacesInv
  <2> QED
    BY <1>4, <1>5, <2>2
<1>17. CASE central' = Append(central, a)
  <2>1. /\ central' \in Seq(Seq(Slabs))
        /\ Len(central') = Len(central) + 1
        /\ Len(central) \in Nat
        /\ central'[Len(central) + 1] = a
        /\ \A k \in 1 .. Len(central) : central'[k] = central[k]
    BY <1>1, <1>17
  <2>2. \A k \in 1 .. Len(central') :
            k \in 1 .. Len(central) \/ k = Len(central) + 1
    BY <2>1
  <2>3. \A k \in 1 .. Len(central') : NoRepeat(central'[k])
    BY <2>1, <2>2 DEF PlacesInv
  <2>4. ASSUME NEW k \in 1 .. Len(central'), NEW m \in 1 .. Len(central'),
               k # m
        PROVE  Elems(central'[k]) \cap Elems(central'[m]) = {}
    <3>1. CASE k \in 1 .. Len(central) /\ m \in 1 .. Len(central)
      BY <2>1, <2>4, <3>1 DEF PlacesInv
    <3>2. CASE k = Len(central) + 1
      <4>1. m \in 1 .. Len(central)
        BY <2>2, <2>4, <3>2
      <4> QED
        BY <1>8, <2>1, <3>2, <4>1
    <3>3. CASE m = Len(central) + 1
      <4>1. k \in 1 .. Len(central)
        BY <2>2, <2>4, <3>3
      <4> QED
        BY <1>8, <2>1, <3>3, <4>1
    <3> QED
      BY <2>2, <3>1, <3>2, <3>3
  <2>5. ASSUME NEW u \in Threads, NEW k \in 1 .. Len(central')
        PROVE  Elems(list'[u]) \cap Elems(central'[k]) = {}
    <3>1. CASE k \in 1 .. Len(central)
      <4>1. central'[k] = central[k]
        BY <2>1, <3>1
      <4> QED
        BY <1>5, <1>8, <3>1, <4>1 DEF PlacesInv
    <3>2. CASE k = Len(central) + 1
      <4>1. central'[k] = a
        BY <2>1, <3>2
      <4> QED
        BY <1>5, <1>7, <4>1
    <3> QED
      BY <2>2, <3>1, <3>2
  <2>6. \A k \in 1 .. Len(central') :
            \A r \in Elems(central'[k]) : r[1] <= chunks' /\ users'[r] = 0
    BY <1>10, <1>12, <2>1, <2>2
  <2>7. PlacesInv'
    BY <1>5, <1>13, <1>14, <1>15, <2>1, <2>3, <2>4, <2>5, <2>6 DEF PlacesInv
  <2> QED
    BY <1>4, <1>5, <2>7
<1> QED
  BY <1>16, <1>17

\* The list of a thread is a list of free slabs that are nowhere else.
LEMMA OwnList ==
    ASSUME PlacesInv, NEW t \in Threads
    PROVE  /\ list[t] \in Seq(Slabs) /\ NoRepeat(list[t])
           /\ \A s \in Elems(list[t]) : s[1] <= chunks /\ users[s] = 0
           /\ \A u \in Threads :
                 u # t => Elems(list[t]) \cap Elems(list[u]) = {}
           /\ \A k \in 1 .. Len(central) :
                 Elems(list[t]) \cap Elems(central[k]) = {}
BY DEF PlacesInv

\* allocate() from a list that is not empty.
LEMMA TakesOwn ==
    ASSUME PlacesInv, UsersInv, NEW t \in Threads, list[t] # <<>>,
           ThreadLocal!TakeFrom(t, list[t]),
           UNCHANGED <<chunks, central>>
    PROVE  /\ PlacesInv' /\ UsersInv' /\ PoolStep
           /\ Len(list'[t]) = Len(list[t]) - 1
           /\ \A u \in Threads : u # t => list'[u] = list[u]
<1>p. PICK f : f = list[t]
  OBVIOUS
<1>1. /\ f \in Seq(Slabs) /\ NoRepeat(f) /\ f # <<>>
      /\ \A s \in Elems(f) : s[1] <= chunks' /\ users[s] = 0
      /\ \A u \in Threads : u # t => Elems(f) \cap Elems(list[u]) = {}
      /\ \A k \in 1 .. Len(central) : Elems(f) \cap Elems(central[k]) = {}
  BY <1>p, OwnList
<1>2. /\ list' = [list EXCEPT ![t] = Tail(f)]
      /\ users' = [users EXCEPT ![Head(f)] = @ + 1]
  BY <1>p DEF ThreadLocal!TakeFrom
<1>3. /\ central' \in Seq(Seq(Slabs))
      /\ \A k \in 1 .. Len(central') :
            /\ k \in 1 .. Len(central) /\ central'[k] = central[k]
            /\ Elems(f) \cap Elems(central[k]) = {}
      /\ chunks' \in 0 .. MaxChunks /\ chunks <= chunks'
  BY <1>1 DEF PlacesInv, UsersInv
<1> QED
  BY <1>p, <1>1, <1>2, <1>3, TakeKeeps

\* allocate() from a new chunk, when the list is empty.
LEMMA TakesNew ==
    ASSUME PlacesInv, UsersInv, NEW t \in Threads, list[t] = <<>>,
           chunks < MaxChunks, chunks' = chunks + 1,
           \/ ThreadLocal!TakeFrom(t, ThreadLocal!NewChunk(chunks') \o list[t])
           \/ ThreadLocal!TakeFrom(t, ThreadLocal!NewChunk(chunks')),
           UNCHANGED central
    PROVE  /\ PlacesInv' /\ UsersInv' /\ PoolStep
           /\ Len(list'[t]) = SlabsPerChunk - 1
           /\ \A u \in Threads : u # t => list'[u] = list[u]
<1>0. /\ MaxChunks \in Nat /\ chunks \in Nat
      /\ SlabsPerChunk \in Nat /\ SlabsPerChunk >= 2
      /\ users \in [Slabs -> 0 .. 1]
  BY SlabAssumption DEF SlabAssumption, UsersInv
<1>p. PICK c : c = chunks + 1
  OBVIOUS
<1>1. c \in 1 .. MaxChunks /\ ~ (c <= chunks)
  BY <1>0, <1>p
<1>q. PICK f : f = ThreadLocal!NewChunk(c)
  OBVIOUS
<1>2. /\ f \in Seq(Slabs) /\ Len(f) = SlabsPerChunk /\ NoRepeat(f)
      /\ \A s \in Elems(f) : s \in Slabs /\ s[1] = c
  BY <1>1, <1>q, ChunkFacts
<1>3. f # <<>>
  BY <1>0, <1>2
<1>4. f \o list[t] = f
  BY <1>2
<1>5. /\ list' = [list EXCEPT ![t] = Tail(f)]
      /\ users' = [users EXCEPT ![Head(f)] = @ + 1]
  BY <1>p, <1>q, <1>4 DEF ThreadLocal!TakeFrom
<1>6. \A s \in Elems(f) : s[1] <= chunks' /\ users[s] = 0
  <2>1. c <= chunks'
    BY <1>0, <1>p
  <2>2. ASSUME NEW s \in Elems(f) PROVE users[s] = 0
    <3>1. users[s] \in 0 .. 1 /\ ~ (users[s] > 0)
      BY <1>0, <1>1, <1>2, <2>2 DEF UsersInv
    <3> QED
      BY <3>1
  <2> QED
    BY <1>2, <2>1, <2>2
<1>7. /\ \A u \in Threads : Elems(f) \cap Elems(list[u]) = {}
      /\ \A k \in 1 .. Len(central) : Elems(f) \cap Elems(central[k]) = {}
  <2>1. \A s \in Elems(f) : ~ (s[1] <= chunks)
    BY <1>1, <1>2
  <2>2. /\ \A u \in Threads : \A s \in Elems(list[u]) : s[1] <= chunks
        /\ \A k \in 1 .. Len(central) :
              \A s \in Elems(central[k]) : s[1] <= chunks
    BY DEF PlacesInv
  <2> QED
    BY <2>1, <2>2
<1>8. /\ central' \in Seq(Seq(Slabs))
      /\ \A k \in 1 .. Len(central') :
            /\ k \in 1 .. Len(central) /\ central'[k] = central[k]
            /\ Elems(f) \cap Elems(central[k]) = {}
  BY <1>7 DEF PlacesInv
<1>9. chunks' \in 0 .. MaxChunks /\ chunks <= chunks'
  BY <1>0
<1>10. Len(f) - 1 = SlabsPerChunk - 1
  BY <1>2
<1> QED
  BY <1>2, <1>3, <1>5, <1>6, <1>7, <1>8, <1>9, <1>10, TakeKeeps

\* allocate() from the pool, when the list is empty.
LEMMA TakesPooled ==
    ASSUME PlacesInv, CountsInv, UsersInv, NEW t \in Threads, list[t] = <<>>,
           central # <<>>, chunks' = chunks,
           ThreadLocal!TakeFrom(t, ThreadLocal!Last(central) \o list[t]),
           central' = ThreadLocal!Front(central)
    PROVE  /\ PlacesInv' /\ UsersInv' /\ PoolStep
           /\ Len(list'[t]) = SlabsPerChunk - 1
           /\ \A u \in Threads : u # t => list'[u] = list[u]
           /\ \A k \in 1 .. Len(central') : Len(central'[k]) = SlabsPerChunk
<1>0. /\ central \in Seq(Seq(Slabs))
      /\ SlabsPerChunk \in Nat /\ SlabsPerChunk >= 2
  BY SlabAssumption DEF SlabAssumption, PlacesInv
<1>n. PICK n : n = Len(central)
  OBVIOUS
<1>1. n \in Nat /\ n >= 1 /\ n \in 1 .. Len(central)
  BY <1>0, <1>n
<1>q. PICK f : f = central[n]
  OBVIOUS
<1>2. /\ f \in Seq(Slabs) /\ Len(f) = SlabsPerChunk /\ NoRepeat(f)
      /\ \A s \in Elems(f) : s[1] <= chunks /\ users[s] = 0
      /\ \A u \in Threads : Elems(f) \cap Elems(list[u]) = {}
      /\ \A k \in 1 .. Len(central) :
            k # n => Elems(f) \cap Elems(central[k]) = {}
  <2>1. f \in Seq(Slabs)
    BY <1>0, <1>1, <1>q
  <2>2. Len(f) = SlabsPerChunk
    BY <1>1, <1>q DEF CountsInv
  <2> QED
    BY <1>1, <1>q, <2>1, <2>2 DEF PlacesInv
<1>3. f # <<>> /\ f \o list[t] = f
  BY <1>0, <1>2
<1>4. /\ list' = [list EXCEPT ![t] = Tail(f)]
      /\ users' = [users EXCEPT ![Head(f)] = @ + 1]
  BY <1>n, <1>q, <1>3 DEF ThreadLocal!TakeFrom, ThreadLocal!Last
<1>5. central' = SubSeq(central, 1, n - 1)
  BY <1>n DEF ThreadLocal!Front
<1>6. /\ central' \in Seq(Seq(Slabs))
      /\ Len(central') = n - 1
      /\ \A k \in 1 .. Len(central') : central'[k] = central[k]
  BY <1>0, <1>1, <1>n, <1>5
<1>7. \A k \in 1 .. Len(central') : k \in 1 .. Len(central) /\ k # n
  BY <1>1, <1>n, <1>6
<1>8. chunks' \in 0 .. MaxChunks /\ chunks <= chunks'
  BY DEF UsersInv
<1>9. \A k \in 1 .. Len(central') :
          /\ k \in 1 .. Len(central) /\ central'[k] = central[k]
          /\ Elems(f) \cap Elems(central[k]) = {}
  BY <1>2, <1>6, <1>7
<1>10. Len(f) - 1 = SlabsPerChunk - 1
  BY <1>2
<1>11. \A k \in 1 .. Len(central') : Len(central'[k]) = SlabsPerChunk
  BY <1>6, <1>7 DEF CountsInv
<1>12. \A s \in Elems(f) : s[1] <= chunks' /\ users[s] = 0
  BY <1>2
<1> QED
  BY <1>2, <1>3, <1>4, <1>6, <1>8, <1>9, <1>10, <1>11, <1>12, TakeKeeps

\* A slab in use is in no list, so it can be put in front of one.
LEMMA FreeFacts ==
    ASSUME PlacesInv, UsersInv, NEW t \in Threads, NEW s \in Slabs,
           users[s] > 0
    PROVE  /\ ThreadLocal!Free(t, s) \in Seq(Slabs)
           /\ Len(ThreadLocal!Free(t, s)) = Len(list[t]) + 1
           /\ NoRepeat(ThreadLocal!Free(t, s))
           /\ Elems(ThreadLocal!Free(t, s)) \subseteq Elems(list[t]) \cup {s}
<1>1. list[t] \in Seq(Slabs) /\ NoRepeat(list[t])
  BY OwnList
<1>2. s \notin Elems(list[t])
  BY DEF PlacesInv
<1> QED
  BY <1>1, <1>2, ConsFacts DEF ThreadLocal!Free

\* deallocate() below the threshold.
LEMMA GivesOwn ==
    ASSUME PlacesInv, UsersInv, NEW t \in Threads, NEW s \in Slabs,
           users[s] > 0, users' = [users EXCEPT ![s] = @ - 1],
           list' = [list EXCEPT ![t] = ThreadLocal!Free(t, s)],
           UNCHANGED <<chunks, central>>
    PROVE  /\ PlacesInv' /\ UsersInv' /\ PoolStep
           /\ Len(list'[t]) = Len(list[t]) + 1
           /\ \A u \in Threads : u # t => list'[u] = list[u]
<1>p. PICK f : f = ThreadLocal!Free(t, s)
  OBVIOUS
<1>1. /\ f \in Seq(Slabs) /\ Len(f) = Len(list[t]) + 1 /\ NoRepeat(f)
      /\ Elems(f) \subseteq Elems(list[t]) \cup {s}
  BY <1>p, FreeFacts
<1>q. PICK e : e = <<>>
  OBVIOUS
<1>e. e \in Seq(Slabs)
  BY <1>q
<1>2. /\ NoRepeat(e) /\ Elems(e) \cap Elems(f) = {}
      /\ Elems(e) \subseteq Elems(list[t]) \cup {s}
  BY <1>q DEF NoRepeat, Elems
<1>3. /\ list' = [list EXCEPT ![t] = f]
      /\ chunks' = chunks /\ central' = central
  BY <1>p
<1>4. /\ PlacesInv' /\ UsersInv' /\ PoolStep
      /\ list'[t] = f
      /\ \A u \in Threads : u # t => list'[u] = list[u]
  BY <1>e, <1>1, <1>2, <1>3, GiveKeeps
<1> QED
  BY <1>1, <1>4

\* deallocate() at the threshold: the first slabs of the list go to the pool.
LEMMA GivesAndCuts ==
    ASSUME PlacesInv, CountsInv, UsersInv, NEW t \in Threads, NEW s \in Slabs,
           ThreadLocal!DeallocateAndCutOff(t, s)
    PROVE  /\ PlacesInv' /\ UsersInv' /\ PoolStep
           /\ Len(list'[t]) = count[t] + 1 - SlabsPerChunk
           /\ Len(list'[t]) \in Nat
           /\ \A u \in Threads : u # t => list'[u] = list[u]
           /\ \A k \in 1 .. Len(central') : Len(central'[k]) = SlabsPerChunk
<1>0. /\ SlabsPerChunk \in Nat /\ count[t] \in Nat /\ threshold[t] \in Nat
      /\ threshold[t] >= SlabsPerChunk /\ count[t] = Len(list[t])
      /\ central \in Seq(Seq(Slabs))
  BY SlabAssumption DEF SlabAssumption, CountsInv, PlacesInv
<1>n. PICK n : n = SlabsPerChunk
  OBVIOUS
<1>p. PICK f : f = ThreadLocal!Free(t, s)
  OBVIOUS
<1>1. /\ users[s] > 0 /\ users' = [users EXCEPT ![s] = @ - 1]
      /\ count[t] + 1 >= threshold[t]
      /\ chunks' = chunks
      /\ central' = Append(central, SubSeq(f, 1, n))
      /\ list' = [list EXCEPT ![t] = SubSeq(f, n + 1, Len(f))]
  BY <1>n, <1>p DEF ThreadLocal!DeallocateAndCutOff
<1>2. /\ f \in Seq(Slabs) /\ Len(f) = Len(list[t]) + 1 /\ NoRepeat(f)
      /\ Elems(f) \subseteq Elems(list[t]) \cup {s}
  BY <1>1, <1>p, FreeFacts
<1>3. n \in 0 .. Len(f) /\ Len(f) = count[t] + 1
  BY <1>0, <1>1, <1>2, <1>n
<1>a. PICK a : a = SubSeq(f, 1, n)
  OBVIOUS
<1>b. PICK b : b = SubSeq(f, n + 1, Len(f))
  OBVIOUS
<1>4. /\ a \in Seq(Slabs) /\ b \in Seq(Slabs)
      /\ Len(a) = n /\ Len(b) = Len(f) - n
      /\ NoRepeat(a) /\ NoRepeat(b) /\ Elems(a) \cap Elems(b) = {}
      /\ Elems(a) \subseteq Elems(f) /\ Elems(b) \subseteq Elems(f)
  BY <1>2, <1>3, <1>a, <1>b, CutFacts
<1>5. /\ Elems(a) \subseteq Elems(list[t]) \cup {s}
      /\ Elems(b) \subseteq Elems(list[t]) \cup {s}
  BY <1>2, <1>4
<1>6. /\ list' = [list EXCEPT ![t] = b]
      /\ central' = Append(central, a)
  BY <1>1, <1>a, <1>b
<1>7. /\ PlacesInv' /\ UsersInv' /\ PoolStep
      /\ list'[t] = b
      /\ \A u \in Threads : u # t => list'[u] = list[u]
  BY <1>1, <1>4, <1>5, <1>6, GiveKeeps
<1>8. /\ Len(list'[t]) = count[t] + 1 - SlabsPerChunk
      /\ Len(list'[t]) \in Nat
  BY <1>0, <1>3, <1>4, <1>7, <1>n
<1>9. \A k \in 1 .. Len(central') : Len(central'[k]) = SlabsPerChunk
  <2>1. /\ Len(central) \in Nat /\ Len(central') = Len(central) + 1
        /\ central'[Len(central) + 1] = a
        /\ \A k \in 1 .. Len(central) : central'[k] = central[k]
    BY <1>0, <1>4, <1>6
  <2>2. \A k \in 1 .. Len(central') :
            k \in 1 .. Len(central) \/ k = Len(central) + 1
    BY <2>1
  <2> QED
    BY <1>4, <1>n, <2>1, <2>2 DEF CountsInv
<1> QED
  BY <1>7, <1>8, <1>9

\* The end of a thread: its list is out of reach.
LEMMA EndKeeps ==
    ASSUME PlacesInv, UsersInv, NEW t \in Threads,
           list' = [list EXCEPT ![t] = <<>>],
           UNCHANGED <<users, chunks, central>>
    PROVE  /\ PlacesInv' /\ UsersInv' /\ PoolStep
           /\ Len(list'[t]) = 0
           /\ \A u \in Threads : u # t => list'[u] = list[u]
<1>1. PICK e : e = <<>>
  OBVIOUS
<1>2. /\ e \in Seq(Slabs) /\ Len(e) = 0 /\ Elems(e) = {} /\ NoRepeat(e)
  BY <1>1 DEF Elems, NoRepeat
<1>3. /\ list' \in [Threads -> Seq(Slabs)]
      /\ list'[t] = e
      /\ \A u \in Threads : u # t => list'[u] = list[u]
  BY <1>1, <1>2 DEF PlacesInv
<1>4. UsersInv' /\ PoolStep
  BY DEF UsersInv, PoolStep
<1>5. central' \in Seq(Seq(Slabs))
  BY DEF PlacesInv
<1>6. \A u \in Threads : NoRepeat(list'[u])
  BY <1>2, <1>3 DEF PlacesInv
<1>7. \A u, w \in Threads : u # w => Elems(list'[u]) \cap Elems(list'[w]) = {}
  BY <1>2, <1>3 DEF PlacesInv
<1>8. /\ \A k \in 1 .. Len(central') : NoRepeat(central'[k])
      /\ \A k, m \in 1 .. Len(central') :
            k # m => Elems(central'[k]) \cap Elems(central'[m]) = {}
      /\ \A k \in 1 .. Len(central') : \A s \in Elems(central'[k]) :
            s[1] <= chunks' /\ users'[s] = 0
  BY DEF PlacesInv
<1>9. \A u \in Threads, k \in 1 .. Len(central') :
          Elems(list'[u]) \cap Elems(central'[k]) = {}
  BY <1>2, <1>3 DEF PlacesInv
<1>10. \A u \in Threads : \A s \in Elems(list'[u]) :
           s[1] <= chunks' /\ users'[s] = 0
  BY <1>2, <1>3 DEF PlacesInv
<1>11. PlacesInv'
  BY <1>3, <1>5, <1>6, <1>7, <1>8, <1>9, <1>10 DEF PlacesInv
<1> QED
  BY <1>2, <1>3, <1>4, <1>11

\* The counts follow the lists when only those of t change.
LEMMA CountsFollow ==
    ASSUME CountsInv, NEW t \in Threads, NEW c \in Nat,
           count' = [count EXCEPT ![t] = c], Len(list'[t]) = c,
           \A u \in Threads : u # t => list'[u] = list[u],
           \/ threshold' = threshold
           \/ threshold' = [threshold EXCEPT ![t] = @ + SlabsPerChunk],
           c < threshold[t],
           \A k \in 1 .. Len(central') : Len(central'[k]) = SlabsPerChunk
    PROVE  CountsInv'
<1>0. /\ count \in [Threads -> Nat] /\ threshold \in [Threads -> Nat]
      /\ SlabsPerChunk \in Nat
      /\ \A u \in Threads : threshold[u] >= SlabsPerChunk
  BY SlabAssumption DEF SlabAssumption, CountsInv
<1>1. /\ count' \in [Threads -> Nat] /\ count'[t] = c
      /\ \A u \in Threads : u # t => count'[u] = count[u]
  BY <1>0
<1>2. \A u \in Threads : count'[u] = Len(list'[u])
  BY <1>1 DEF CountsInv
<1>3. /\ threshold' \in [Threads -> Nat]
      /\ \A u \in Threads : threshold'[u] >= threshold[u]
  <2>1. CASE threshold' = threshold
    <3>1. \A n \in Nat : n >= n
      OBVIOUS
    <3> QED
      BY <1>0, <2>1, <3>1
  <2>2. CASE threshold' = [threshold EXCEPT ![t] = @ + SlabsPerChunk]
    <3>1. /\ threshold[t] + SlabsPerChunk \in Nat
          /\ threshold[t] + SlabsPerChunk >= threshold[t]
      BY <1>0
    <3>2. /\ threshold' \in [Threads -> Nat]
          /\ threshold'[t] = threshold[t] + SlabsPerChunk
          /\ \A u \in Threads : u # t => threshold'[u] = threshold[u]
      BY <1>0, <2>2, <3>1
    <3>3. \A n \in Nat : n >= n
      OBVIOUS
    <3> QED
      BY <1>0, <3>1, <3>2, <3>3
  <2> QED
    BY <2>1, <2>2
<1>4. \A u \in Threads : threshold'[u] >= SlabsPerChunk
  BY <1>0, <1>3
<1>5. ASSUME NEW u \in Threads PROVE count'[u] < threshold'[u]
  <2>1. /\ count'[u] < threshold[u] /\ count'[u] \in Nat
        /\ threshold[u] \in Nat /\ threshold'[u] \in Nat
    BY <1>0, <1>1, <1>3 DEF CountsInv
  <2> QED
    BY <1>3, <2>1
<1> QED
  BY <1>1, <1>2, <1>3, <1>4, <1>5 DEF CountsInv

\* A step of a thread-local allocator keeps slabs apart and counts right.
LEMMA ThreadLocalKeeps ==
    ASSUME PlacesInv, CountsInv, UsersInv, ThreadLocal!Next
    PROVE  PlacesInv' /\ CountsInv' /\ UsersInv' /\ PoolStep
<1>0. SlabsPerChunk \in Nat /\ SlabsPerChunk >= 2
  BY SlabAssumption DEF SlabAssumption
<1>1. PICK t \in Threads :
         \/ ThreadLocal!AllocateLocally(t)
         \/ ThreadLocal!AllocateFromPool(t)
         \/ ThreadLocal!AllocateFromChunk(t)
         \/ \E s \in Slabs : ThreadLocal!DeallocateLocally(t, s)
         \/ \E s \in Slabs : ThreadLocal!DeallocateAndCutOff(t, s)
         \/ ThreadLocal!ThreadEnds(t)
  BY SlabNames DEF ThreadLocal!Next
<1>2. /\ list[t] \in Seq(Slabs) /\ count \in [Threads -> Nat]
      /\ count[t] \in Nat /\ threshold[t] \in Nat
      /\ count[t] = Len(list[t]) /\ count[t] < threshold[t]
      /\ threshold[t] >= SlabsPerChunk
      /\ \A k \in 1 .. Len(central) : Len(central[k]) = SlabsPerChunk
  BY DEF PlacesInv, CountsInv
<1>3. /\ count[t] > 0 => list[t] # <<>>
      /\ count[t] = 0 => list[t] = <<>>
  BY <1>2
<1>4. CASE ThreadLocal!AllocateLocally(t)
  <2>1. /\ list[t] # <<>> /\ ThreadLocal!TakeFrom(t, list[t])
        /\ UNCHANGED <<chunks, central>> /\ threshold' = threshold
        /\ count[t] > 0 /\ count' = [count EXCEPT ![t] = @ - 1]
    BY <1>3, <1>4 DEF ThreadLocal!AllocateLocally
  <2>2. /\ PlacesInv' /\ UsersInv' /\ PoolStep
        /\ Len(list'[t]) = Len(list[t]) - 1
        /\ \A u \in Threads : u # t => list'[u] = list[u]
    BY <2>1, TakesOwn
  <2>c. PICK c : c = count[t] - 1
    OBVIOUS
  <2>3. /\ c \in Nat /\ c < threshold[t] /\ Len(list'[t]) = c
        /\ count' = [count EXCEPT ![t] = c]
    BY <1>2, <2>1, <2>2, <2>c
  <2>4. \A k \in 1 .. Len(central') : Len(central'[k]) = SlabsPerChunk
    BY <1>2, <2>1
  <2> QED
    BY <2>1, <2>2, <2>3, <2>4, CountsFollow
<1>5. CASE ThreadLocal!AllocateFromPool(t)
  <2>1. /\ list[t] = <<>> /\ central # <<>> /\ chunks' = chunks
        /\ ThreadLocal!TakeFrom(t, ThreadLocal!Last(central) \o list[t])
        /\ central' = ThreadLocal!Front(central) /\ threshold' = threshold
        /\ count[t] = 0 /\ count' = [count EXCEPT ![t] = @ + SlabsPerChunk - 1]
    BY <1>3, <1>5 DEF ThreadLocal!AllocateFromPool
  <2>2. /\ PlacesInv' /\ UsersInv' /\ PoolStep
        /\ Len(list'[t]) = SlabsPerChunk - 1
        /\ \A u \in Threads : u # t => list'[u] = list[u]
        /\ \A k \in 1 .. Len(central') : Len(central'[k]) = SlabsPerChunk
    BY <2>1, TakesPooled
  <2>c. PICK c : c = SlabsPerChunk - 1
    OBVIOUS
  <2>3. /\ c \in Nat /\ c < threshold[t] /\ Len(list'[t]) = c
        /\ count' = [count EXCEPT ![t] = c]
    BY <1>0, <1>2, <2>1, <2>2, <2>c
  <2> QED
    BY <2>1, <2>2, <2>3, CountsFollow
<1>6. CASE ThreadLocal!AllocateFromChunk(t)
  <2>1. /\ list[t] = <<>> /\ chunks < MaxChunks /\ chunks' = chunks + 1
        /\ ThreadLocal!TakeFrom(t, ThreadLocal!NewChunk(chunks') \o list[t])
        /\ central' = central
        /\ threshold' = [threshold EXCEPT ![t] = @ + SlabsPerChunk]
        /\ count[t] = 0 /\ count' = [count EXCEPT ![t] = @ + SlabsPerChunk - 1]
    BY <1>3, <1>6 DEF ThreadLocal!AllocateFromChunk
  <2>2. /\ PlacesInv' /\ UsersInv' /\ PoolStep
        /\ Len(list'[t]) = SlabsPerChunk - 1
        /\ \A u \in Threads : u # t => list'[u] = list[u]
    BY <2>1, TakesNew
  <2>c. PICK c : c = SlabsPerChunk - 1
    OBVIOUS
  <2>3. /\ c \in Nat /\ c < threshold[t] /\ Len(list'[t]) = c
        /\ count' = [count EXCEPT ![t] = c]
    BY <1>0, <1>2, <2>1, <2>2, <2>c
  <2>4. \A k \in 1 .. Len(central') : Len(central'[k]) = SlabsPerChunk
    BY <1>2, <2>1
  <2> QED
    BY <2>1, <2>2, <2>3, <2>4, CountsFollow
<1>7. ASSUME NEW s \in Slabs, ThreadLocal!DeallocateLocally(t, s)
      PROVE  PlacesInv' /\ CountsInv' /\ UsersInv' /\ PoolStep
  <2>1. /\ users[s] > 0 /\ users' = [users EXCEPT ![s] = @ - 1]
        /\ list' = [list EXCEPT ![t] = ThreadLocal!Free(t, s)]
        /\ UNCHANGED <<chunks, central>> /\ threshold' = threshold
        /\ count[t] + 1 < threshold[t] /\ count' = [count EXCEPT ![t] = @ + 1]
    BY <1>7 DEF ThreadLocal!DeallocateLocally
  <2>2. /\ PlacesInv' /\ UsersInv' /\ PoolStep
        /\ Len(list'[t]) = Len(list[t]) + 1
        /\ \A u \in Threads : u # t => list'[u] = list[u]
    BY <2>1, GivesOwn
  <2>c. PICK c : c = count[t] + 1
    OBVIOUS
  <2>3. /\ c \in Nat /\ c < threshold[t] /\ Len(list'[t]) = c
        /\ count' = [count EXCEPT ![t] = c]
    BY <1>2, <2>1, <2>2, <2>c
  <2>4. \A k \in 1 .. Len(central') : Len(central'[k]) = SlabsPerChunk
    BY <1>2, <2>1
  <2> QED
    BY <2>1, <2>2, <2>3, <2>4, CountsFollow
<1>8. ASSUME NEW s \in Slabs, ThreadLocal!DeallocateAndCutOff(t, s)
      PROVE  PlacesInv' /\ CountsInv' /\ UsersInv' /\ PoolStep
  <2>1. /\ threshold' = threshold
        /\ count' = [count EXCEPT ![t] = @ + 1 - SlabsPerChunk]
    BY <1>8 DEF ThreadLocal!DeallocateAndCutOff
  <2>2. /\ PlacesInv' /\ UsersInv' /\ PoolStep
        /\ Len(list'[t]) = count[t] + 1 - SlabsPerChunk
        /\ Len(list'[t]) \in Nat
        /\ \A u \in Threads : u # t => list'[u] = list[u]
        /\ \A k \in 1 .. Len(central') : Len(central'[k]) = SlabsPerChunk
    BY <1>8, GivesAndCuts
  <2>c. PICK c : c = count[t] + 1 - SlabsPerChunk
    OBVIOUS
  <2>3. /\ c \in Nat /\ c < threshold[t] /\ Len(list'[t]) = c
        /\ count' = [count EXCEPT ![t] = c]
    BY <1>0, <1>2, <2>1, <2>2, <2>c
  <2> QED
    BY <2>1, <2>2, <2>3, CountsFollow
<1>9. CASE ThreadLocal!ThreadEnds(t)
  <2>1. /\ list' = [list EXCEPT ![t] = <<>>]
        /\ UNCHANGED <<users, chunks, central>> /\ threshold' = threshold
        /\ count' = [count EXCEPT ![t] = 0]
    BY <1>9 DEF ThreadLocal!ThreadEnds
  <2>2. /\ PlacesInv' /\ UsersInv' /\ PoolStep
        /\ Len(list'[t]) = 0
        /\ \A u \in Threads : u # t => list'[u] = list[u]
    BY <2>1, EndKeeps
  <2>3. 0 \in Nat /\ 0 < threshold[t]
    BY <1>0, <1>2
  <2>4. \A k \in 1 .. Len(central') : Len(central'[k]) = SlabsPerChunk
    BY <1>2, <2>1
  <2> QED
    BY <2>1, <2>2, <2>3, <2>4, CountsFollow
<1> QED
  BY <1>1, <1>4, <1>5, <1>6, <1>7, <1>8, <1>9

\* So does a step of the simple allocator, which is the main thread's list.
LEMMA SimpleKeeps ==
    ASSUME PlacesInv, UsersInv, ThreadLocal!SimpleNext
    PROVE  PlacesInv' /\ UsersInv' /\ PoolStep
<1>0. Main \in Threads
  BY SlabAssumption DEF SlabAssumption
<1>1. CASE ThreadLocal!SimpleAllocate
  <2>1. /\ list[Main] # <<>> /\ ThreadLocal!TakeFrom(Main, list[Main])
        /\ UNCHANGED <<chunks, central>>
    BY <1>1 DEF ThreadLocal!SimpleAllocate
  <2> QED
    BY <1>0, <2>1, TakesOwn
<1>2. CASE ThreadLocal!SimpleAllocateOneChunk
  <2>1. /\ list[Main] = <<>> /\ chunks < MaxChunks /\ chunks' = chunks + 1
        /\ ThreadLocal!TakeFrom(Main, ThreadLocal!NewChunk(chunks'))
        /\ UNCHANGED central
    BY <1>2 DEF ThreadLocal!SimpleAllocateOneChunk
  <2> QED
    BY <1>0, <2>1, TakesNew
<1>3. ASSUME NEW s \in Slabs, ThreadLocal!SimpleDeallocate(s)
      PROVE  PlacesInv' /\ UsersInv' /\ PoolStep
  <2>1. /\ users[s] > 0 /\ users' = [users EXCEPT ![s] = @ - 1]
        /\ list' = [list EXCEPT ![Main] = ThreadLocal!Free(Main, s)]
        /\ UNCHANGED <<chunks, central>>
    BY <1>3 DEF ThreadLocal!SimpleDeallocate
  <2> QED
    BY <1>0, <2>1, GivesOwn
<1> QED
  BY <1>1, <1>2, <1>3, SlabNames DEF ThreadLocal!SimpleNext

-----------------------------------------------------------------------------
(* The theorems *)

\* At the start no slab is free and every list is empty.
LEMMA SlabInit == Init => SlabInv
<1> SUFFICES ASSUME Init PROVE SlabInv
  OBVIOUS
<1>0. /\ MaxChunks \in Nat
      /\ SlabsPerChunk \in Nat /\ SlabsPerChunk >= 2
  BY SlabAssumption DEF SlabAssumption
<1>1. /\ users = [s \in Slabs |-> 0] /\ chunks = 0
      /\ head = [node |-> Null, tag |-> 0]
      /\ next = [s \in Slabs |-> <<0, 1>>]
      /\ pc = [t \in Threads |-> "idle"]
      /\ old = [t \in Threads |-> [node |-> Null, tag |-> 0]]
      /\ new = [t \in Threads |-> Null]
      /\ tail = [t \in Threads |-> Null]
      /\ chosen = [t \in Threads |-> Null]
  BY SlabNames DEF Init, SemiLockFree!Init
<1>2. /\ list = [t \in Threads |-> <<>>]
      /\ count = [t \in Threads |-> 0]
      /\ threshold = [t \in Threads |-> SlabsPerChunk]
      /\ central = <<>>
  BY DEF Init, ThreadLocal!Init
<1>3. UsersInv
  BY <1>0, <1>1 DEF UsersInv
<1>4. SemiLockFreeInv
  <2>1. HeadTypes
    <3>1. [node |-> Null, tag |-> 0] \in Heads /\ Null \in Links
      BY DEF Heads, Links
    <3> QED
      BY <1>1, <3>1, SlabNames DEF HeadTypes, Words
  <2>2. \A t \in Threads : ~ Pushing(t) /\ pc[t] # "pop" /\ OnHand(t) = {}
    BY <1>1, HandFacts DEF Pushing
  <2>3. FreeSet = {}
    <3>1. \A s \in Slabs : ~ (s[1] <= chunks)
      BY <1>0, <1>1 DEF Slabs
    <3> QED
      BY <3>1 DEF FreeSet
  <2>4. ChainInv /\ HandInv
    BY <2>2 DEF ChainInv, HandInv
  <2>5. ListInv
    BY <1>1, <2>3 DEF ListInv
  <2>6. TagInv
    <3>1. \A t \in Threads : old[t] = head
      BY <1>1
    <3>2. head.tag = 0 /\ 0 <= 0
      BY <1>1
    <3>3. \A t \in Threads : old[t].tag <= head.tag
      BY <3>1, <3>2
    <3> QED
      BY <2>2, <3>3 DEF TagInv
  <2> QED
    BY <2>1, <2>4, <2>5, <2>6 DEF SemiLockFreeInv
<1>5. PICK e : e = <<>>
  OBVIOUS
<1>6. e \in Seq(Slabs) /\ e \in Seq(Seq(Slabs)) /\ Len(e) = 0
      /\ Elems(e) = {} /\ NoRepeat(e)
  BY <1>5 DEF Elems, NoRepeat
<1>7. /\ list \in [Threads -> Seq(Slabs)]
      /\ \A t \in Threads : list[t] = e
      /\ central = e
  BY <1>2, <1>5, <1>6
<1>8. 1 .. Len(central) = {}
  BY <1>6, <1>7
<1>9. PlacesInv
  BY <1>6, <1>7, <1>8 DEF PlacesInv
<1>10. CountsInv
  BY <1>0, <1>2, <1>6, <1>7, <1>8 DEF CountsInv
<1> QED
  BY <1>3, <1>4, <1>9, <1>10 DEF Init, SlabInv, UsersInv

\* A step of any allocator keeps the invariant and is a step of the pool.
LEMMA SlabStep == SlabInv /\ [Next]_vars => SlabInv' /\ PoolStep
<1> SUFFICES ASSUME SlabInv, [Next]_vars PROVE SlabInv' /\ PoolStep
  OBVIOUS
<1>1. CASE SemiLockFreeStep
  <2>1. allocator = "semi_lock_free" /\ allocator' = allocator
    BY <1>1 DEF SemiLockFreeStep
  <2>2. UsersInv' /\ SemiLockFreeInv' /\ PoolStep
    BY <1>1, <2>1, SemiLockFreeKeeps DEF SlabInv, SemiLockFreeStep
  <2> QED
    BY <2>1, <2>2 DEF SlabInv, UsersInv
<1>2. CASE ThreadLocalStep
  <2>1. allocator = "thread_local" /\ allocator' = allocator
    BY <1>2 DEF ThreadLocalStep
  <2>2. PlacesInv' /\ CountsInv' /\ UsersInv' /\ PoolStep
    BY <1>2, <2>1, ThreadLocalKeeps DEF SlabInv, ThreadLocalStep
  <2> QED
    BY <2>1, <2>2 DEF SlabInv, UsersInv
<1>3. CASE SimpleStep
  <2>1. allocator = "simple" /\ allocator' = allocator
    BY <1>3 DEF SimpleStep
  <2>2. PlacesInv' /\ UsersInv' /\ PoolStep
    BY <1>3, <2>1, SimpleKeeps DEF SlabInv, SimpleStep
  <2> QED
    BY <2>1, <2>2 DEF SlabInv, UsersInv
<1>4. CASE StringStep
  BY <1>4 DEF StringStep, SlabInv, PoolStep
<1>5. CASE UNCHANGED vars
  <2>1. /\ UNCHANGED <<allocator, users, chunks>>
        /\ UNCHANGED <<head, next, pc, old, new, tail, chosen>>
        /\ UNCHANGED <<list, count, threshold, central>>
    BY <1>5 DEF vars, semiLockFreeVars, threadLocalVars
  <2>2. UsersInv => UsersInv'
    BY <2>1 DEF UsersInv
  <2>3. SemiLockFreeInv => SemiLockFreeInv'
    <3>1. \A t \in Threads : OnHand(t)' = OnHand(t) /\ Pushing(t)' = Pushing(t)
      BY <2>1 DEF OnHand, SemiLockFree!OnHand, Pushing
    <3>2. FreeSet' = FreeSet
      BY <2>1, <3>1 DEF FreeSet
    <3>3. HeadTypes => HeadTypes'
      BY <2>1 DEF HeadTypes
    <3>4. ChainInv => ChainInv'
      BY <2>1, <3>1 DEF ChainInv, Chain, OneSlab, OneChunk
    <3>5. HandInv => HandInv'
      BY <2>1, <3>1 DEF HandInv
    <3>6. ListInv => ListInv'
      BY <2>1, <3>2 DEF ListInv
    <3>7. TagInv => TagInv'
      BY <2>1 DEF TagInv
    <3> QED
      BY <3>3, <3>4, <3>5, <3>6, <3>7 DEF SemiLockFreeInv
  <2>4. PlacesInv => PlacesInv'
    BY <2>1 DEF PlacesInv
  <2>5. CountsInv => CountsInv'
    BY <2>1 DEF CountsInv
  <2> QED
    BY <2>1, <2>2, <2>3, <2>4, <2>5 DEF SlabInv, PoolStep
<1> QED
  BY <1>1, <1>2, <1>3, <1>4, <1>5 DEF Next

\* The invariant holds throughout: no slab is in two places, whichever allocator
\* and however its threads interleave.
THEOREM SlabsKeptApart == Spec => []SlabInv
BY SlabInit, SlabStep, PTL DEF Spec

\* allocate() never returns a slab that is in use, whichever allocator it is
\* and however its threads interleave: every allocator implements SlabPool.
THEOREM EveryAllocatorIsAPool == Spec => ImplementsPool
<1>1. Init => Pool!Init
  BY DEF Init, ThreadLocal!Init, Pool!Init
<1>2. SlabInv /\ [Next]_vars => [Pool!Next]_users
  <2> SUFFICES ASSUME PoolStep PROVE [Pool!Next]_users
    BY SlabStep
  <2>1. CASE users' = users
    BY <2>1
  <2>2. CASE \E s \in Slabs : users[s] = 0 /\ users' = [users EXCEPT ![s] = 1]
    BY <2>2, SlabNames DEF Pool!Next, Pool!Allocate
  <2>3. CASE \E s \in Slabs : users[s] = 1 /\ users' = [users EXCEPT ![s] = 0]
    BY <2>3, SlabNames DEF Pool!Next, Pool!Deallocate
  <2> QED
    BY <2>1, <2>2, <2>3 DEF PoolStep
<1> QED
  BY <1>1, <1>2, SlabsKeptApart, PTL DEF Spec, ImplementsPool, Pool!Spec

\* The counts in a state that satisfies the invariant.
LEMMA CountsMatch ==
    ASSUME SlabInv, allocator = "thread_local"
    PROVE  ThreadLocal!ListsMatchCounts
<1>1. PlacesInv /\ CountsInv
  BY DEF SlabInv
<1>2. DOMAIN central = 1 .. Len(central)
  BY <1>1 DEF PlacesInv
<1> QED
  BY <1>1, <1>2 DEF CountsInv, ThreadLocal!ListsMatchCounts

\* The counts of the thread-local allocator match its lists and stay below the
\* thresholds, and its pool holds whole chunks, as allocate() takes for granted.
THEOREM CountsMatchLists ==
    Spec => [](allocator = "thread_local" => ThreadLocal!ListsMatchCounts)
<1>1. SlabInv => (allocator = "thread_local" => ThreadLocal!ListsMatchCounts)
  BY CountsMatch
<1> QED
  BY <1>1, SlabsKeptApart, PTL

-----------------------------------------------------------------------------
(* Every slab of a chunk is somewhere *)

\* The slabs in the lists of threads other than t, in all lists, in the pool,
\* and in lists or pool.
Others(t) == UNION {Elems(list[u]) : u \in Threads \ {t}}
Listed == UNION {Elems(list[t]) : t \in Threads}
Pooled == UNION {Elems(central[k]) : k \in 1 .. Len(central)}
Stored == Listed \cup Pooled

\* No slab is forgotten: it is in use, in a list, in the pool, or lost with a
\* thread that has ended, and only there.
CoverInv ==
    /\ lost \subseteq Slabs
    /\ \A s \in lost : s[1] <= chunks /\ users[s] = 0 /\ s \notin Stored
    /\ \A s \in Slabs :
          s[1] <= chunks => users[s] = 1 \/ s \in Stored \/ s \in lost

\* The first slab of a list and the rest of it are the list.
LEMMA TailCovers ==
    ASSUME NEW s \in Seq(Slabs), s # <<>>
    PROVE  Elems(Tail(s)) \cup {Head(s)} = Elems(s)
<1>1. /\ Tail(s) \in Seq(Slabs) /\ Len(Tail(s)) = Len(s) - 1
      /\ Len(s) \in Nat /\ Len(s) >= 1 /\ Head(s) = s[1]
  OBVIOUS
<1>2. \A i \in 1 .. Len(Tail(s)) : Tail(s)[i] = s[i + 1]
  OBVIOUS
<1>t. PICK l : l = Tail(s)
  OBVIOUS
<1>3. \A i \in 1 .. Len(l) : i + 1 \in 1 .. Len(s) /\ l[i] = s[i + 1]
  BY <1>1, <1>2, <1>t
<1>4. \A i \in 1 .. Len(s) : i # 1 => i - 1 \in 1 .. Len(l) /\ l[i - 1] = s[i]
  BY <1>1, <1>3, <1>t
<1>5. 1 \in 1 .. Len(s)
  BY <1>1
<1>6. Elems(l) \cup {s[1]} = Elems(s)
  BY <1>3, <1>4, <1>5 DEF Elems
<1> QED
  BY <1>1, <1>6, <1>t

\* A slab and the list it is put in front of are the new list.
LEMMA ConsCovers ==
    ASSUME NEW s \in Seq(Slabs), NEW x \in Slabs
    PROVE  Elems(<<x>> \o s) = Elems(s) \cup {x}
<1>f. PICK f : f = <<x>> \o s
  OBVIOUS
<1>1. f \in Seq(Slabs) /\ Len(f) = Len(s) + 1 /\ Len(s) \in Nat
  BY <1>f
<1>2. f[1] = x /\ \A i \in 1 .. Len(f) : i # 1 => f[i] = s[i - 1]
  BY <1>f
<1>3. \A i \in 1 .. Len(f) : i # 1 => i - 1 \in 1 .. Len(s)
  BY <1>1
<1>4. \A i \in 1 .. Len(s) : /\ i + 1 \in 1 .. Len(f) /\ i + 1 # 1
                             /\ (i + 1) - 1 = i
  BY <1>1
<1>5. \A i \in 1 .. Len(s) : f[i + 1] = s[i]
  BY <1>2, <1>4
<1>6. 1 \in 1 .. Len(f)
  BY <1>1
<1>7. Elems(f) = Elems(s) \cup {x}
  <2>1. Elems(f) \subseteq Elems(s) \cup {x}
    BY <1>2, <1>3 DEF Elems
  <2>2. x \in Elems(f)
    BY <1>2, <1>6 DEF Elems
  <2>3. \A i \in 1 .. Len(s) : s[i] \in Elems(f)
    BY <1>4, <1>5 DEF Elems
  <2>4. Elems(s) \subseteq Elems(f)
    BY <2>3 DEF Elems
  <2> QED
    BY <2>1, <2>2, <2>4
<1> QED
  BY <1>7, <1>f

\* The two parts of a list that is cut are the list.
LEMMA CutCovers ==
    ASSUME NEW s \in Seq(Slabs), NEW n \in 0 .. Len(s)
    PROVE  Elems(SubSeq(s, 1, n)) \cup Elems(SubSeq(s, n + 1, Len(s))) = Elems(s)
<1>p. PICK a, b : a = SubSeq(s, 1, n) /\ b = SubSeq(s, n + 1, Len(s))
  OBVIOUS
<1>0. Len(s) \in Nat /\ n \in Nat /\ n <= Len(s)
  OBVIOUS
<1>1. Len(a) = n /\ \A i \in 1 .. Len(a) : a[i] = s[i]
  BY <1>0, <1>p
<1>2. Len(b) = Len(s) - n /\ \A i \in 1 .. Len(b) : b[i] = s[n + i]
  BY <1>0, <1>p
<1>3. \A i \in 1 .. Len(a) : i \in 1 .. Len(s)
  BY <1>0, <1>1
<1>4. \A i \in 1 .. Len(b) : n + i \in 1 .. Len(s)
  BY <1>0, <1>2
<1>5. \A i \in 1 .. Len(s) :
          \/ i \in 1 .. Len(a)
          \/ i - n \in 1 .. Len(b) /\ n + (i - n) = i
  BY <1>0, <1>1, <1>2
<1>6. Elems(a) \cup Elems(b) \subseteq Elems(s)
  BY <1>1, <1>2, <1>3, <1>4 DEF Elems
<1>7. ASSUME NEW i \in 1 .. Len(s) PROVE s[i] \in Elems(a) \cup Elems(b)
  <2>1. CASE i \in 1 .. Len(a)
    BY <1>1, <2>1 DEF Elems
  <2>2. CASE i - n \in 1 .. Len(b) /\ n + (i - n) = i
    <3>1. b[i - n] = s[i]
      BY <1>2, <2>2
    <3> QED
      BY <2>2, <3>1 DEF Elems
  <2> QED
    BY <1>5, <2>1, <2>2
<1>8. Elems(a) \cup Elems(b) = Elems(s)
  BY <1>6, <1>7 DEF Elems
<1> QED
  BY <1>8, <1>p

\* A new chunk has all its slabs.
LEMMA ChunkCovers ==
    ASSUME NEW c \in 1 .. MaxChunks
    PROVE  Elems(ThreadLocal!NewChunk(c)) = {s \in Slabs : s[1] = c}
<1> DEFINE s == [i \in 1 .. SlabsPerChunk |-> <<c, i>>]
           r == [i \in 1 .. SlabsPerChunk |-> s[(SlabsPerChunk - i) + 1]]
<1>0. SlabsPerChunk \in Nat
  BY SlabAssumption DEF SlabAssumption
<1>1. s \in Seq(Slabs) /\ Len(s) = SlabsPerChunk
  <2>1. \A i \in 1 .. SlabsPerChunk : s[i] \in Slabs
    BY DEF Slabs
  <2> QED
    BY <1>0, <2>1
<1>2. ThreadLocal!NewChunk(c) = r
  <2>1. ThreadLocal!NewChunk(c) =
            [i \in 1 .. Len(s) |-> s[(Len(s) - i) + 1]]
    BY Zenon DEF ThreadLocal!NewChunk, ThreadLocal!Reverse
  <2> HIDE DEF s
  <2> QED
    BY <1>1, <2>1
<1>3. \A i \in 1 .. SlabsPerChunk :
          (SlabsPerChunk - i) + 1 \in 1 .. SlabsPerChunk
  BY <1>0
<1>4. \A i \in 1 .. SlabsPerChunk : r[i] = <<c, (SlabsPerChunk - i) + 1>>
  BY <1>3
<1>5. \A i \in 1 .. SlabsPerChunk :
          (SlabsPerChunk - ((SlabsPerChunk - i) + 1)) + 1 = i
  BY <1>0
<1> HIDE DEF r
<1>6. \A i \in 1 .. SlabsPerChunk :
         \E j \in 1 .. SlabsPerChunk : r[j] = <<c, i>>
  <2> TAKE i \in 1 .. SlabsPerChunk
  <2>1. r[(SlabsPerChunk - i) + 1] = <<c, i>>
    BY <1>3, <1>4, <1>5
  <2> QED
    BY <1>3, <2>1
<1>7. Len(ThreadLocal!NewChunk(c)) = SlabsPerChunk
  BY ChunkFacts
<1>8. ASSUME NEW x \in Slabs, x[1] = c PROVE x \in Elems(r)
  <2>1. x[2] \in 1 .. SlabsPerChunk /\ x = <<c, x[2]>>
    BY <1>8, SlabParts
  <2> QED
    BY <1>2, <1>6, <1>7, <2>1 DEF Elems
<1> QED
  BY <1>2, <1>8, ChunkFacts

\* What is stored, seen from one thread.
LEMMA StoredParts ==
    ASSUME NEW t \in Threads
    PROVE  Stored = Elems(list[t]) \cup Others(t) \cup Pooled
<1>1. \A x : x \in Listed <=>
                \E u \in Threads : x \in Elems(list[u])
  BY DEF Listed
<1>2. \A x : x \in Others(t) <=> \E u \in Threads \ {t} : x \in Elems(list[u])
  BY DEF Others
<1>3. Listed = Elems(list[t]) \cup Others(t)
  BY ONLY <1>1, <1>2, t \in Threads
<1> QED
  BY <1>3 DEF Stored

\* The same after a step.
LEMMA StoredPrimed ==
    ASSUME NEW t \in Threads
    PROVE  Stored' = Elems(list[t])' \cup Others(t)' \cup Pooled'
<1>1. \A x : x \in Listed' <=>
                \E u \in Threads : x \in Elems(list[u])'
  BY DEF Listed
<1>2. \A x : x \in Others(t)' <=> \E u \in Threads \ {t} : x \in Elems(list[u])'
  BY DEF Others
<1>3. Listed' = Elems(list[t])' \cup Others(t)'
  BY ONLY <1>1, <1>2, t \in Threads
<1> QED
  BY <1>3 DEF Stored

\* The lists of the other threads stay as they are.
LEMMA OthersKept ==
    ASSUME NEW t \in Threads, \A u \in Threads : u # t => list'[u] = list[u]
    PROVE  /\ Others(t)' = Others(t)
           /\ Stored' = Elems(list'[t]) \cup Others(t) \cup Pooled'
<1>1. \A u \in Threads \ {t} : Elems(list[u])' = Elems(list[u])
  BY DEF Elems
<1>2. Others(t)' = Others(t)
  BY <1>1 DEF Others
<1>3. Stored' = Elems(list[t])' \cup Others(t)' \cup Pooled'
  BY StoredPrimed
<1>4. Elems(list[t])' = Elems(list'[t])
  BY DEF Elems
<1> QED
  BY <1>2, <1>3, <1>4

\* A slab in use is stored nowhere.
LEMMA UsedNotStored ==
    ASSUME PlacesInv
    PROVE  \A s \in Stored : s \in Slabs /\ s[1] <= chunks /\ users[s] = 0
<1>1. \A t \in Threads : \A s \in Elems(list[t]) :
          s \in Slabs /\ s[1] <= chunks /\ users[s] = 0
  <2> TAKE t \in Threads
  <2>1. list[t] \in Seq(Slabs)
    BY DEF PlacesInv
  <2>2. Elems(list[t]) \subseteq Slabs
    BY <2>1 DEF Elems
  <2> QED
    BY <2>2 DEF PlacesInv
<1>2. \A k \in 1 .. Len(central) : \A s \in Elems(central[k]) :
          s \in Slabs /\ s[1] <= chunks /\ users[s] = 0
  <2> TAKE k \in 1 .. Len(central)
  <2>1. central[k] \in Seq(Slabs)
    BY DEF PlacesInv
  <2>2. Elems(central[k]) \subseteq Slabs
    BY <2>1 DEF Elems
  <2> QED
    BY <2>2 DEF PlacesInv
<1>3. \A s \in Pooled : s \in Slabs /\ s[1] <= chunks /\ users[s] = 0
  BY <1>2 DEF Pooled
<1>4. \A s \in Listed :
         s \in Slabs /\ s[1] <= chunks /\ users[s] = 0
  BY <1>1 DEF Listed
<1> QED
  BY <1>3, <1>4 DEF Stored

\* Taking one of the stored slabs, or of the slabs of a new chunk.
LEMMA CoverTaken ==
    ASSUME CoverInv, PlacesInv, UsersInv, PlacesInv', NEW t \in Threads,
           NEW h \in Slabs, NEW n,
           \A s \in Slabs : s \in n <=> ~ (s[1] <= chunks) /\ s[1] <= chunks',
           n \subseteq Slabs, lost' = lost,
           chunks' \in 0 .. MaxChunks, chunks <= chunks',
           \A u \in Threads : u # t => list'[u] = list[u],
           Elems(list'[t]) \cup {h} \cup Pooled'
              = Elems(list[t]) \cup Pooled \cup n,
           users' = [users EXCEPT ![h] = 1]
    PROVE  CoverInv'
<1>1. /\ Stored' \cup {h} = Stored \cup n
      /\ Stored' \subseteq Stored \cup n
  BY OthersKept, StoredParts
<1>2. /\ users' \in [Slabs -> 0 .. 1] /\ users'[h] = 1
      /\ \A s \in Slabs : s # h => users'[s] = users[s]
  BY DEF UsersInv
<1>3. chunks \in Nat /\ chunks' \in Nat /\ \A s \in Slabs : s[1] \in Nat
  BY SlabAssumption, SlabParts DEF UsersInv, SlabAssumption
<1>4. \A s \in Slabs : s[1] <= chunks => s[1] <= chunks'
  BY <1>3
<1>5. ASSUME NEW s \in lost
      PROVE  s[1] <= chunks' /\ users'[s] = 0 /\ s \notin Stored'
  <2>1. s \in Slabs /\ s[1] <= chunks /\ users[s] = 0 /\ s \notin Stored
    BY DEF CoverInv
  <2>2. s \notin n
    BY <2>1
  <2>3. s # h /\ s \notin Stored'
    BY <1>1, <2>1, <2>2
  <2> QED
    BY <1>2, <1>4, <2>1, <2>3
<1>6. ASSUME NEW s \in Slabs, s[1] <= chunks'
      PROVE  users'[s] = 1 \/ s \in Stored' \/ s \in lost
  <2>1. users[s] = 1 \/ s \in Stored \/ s \in lost \/ s \in n
    BY <1>6 DEF CoverInv
  <2> QED
    BY <1>1, <1>2, <2>1
<1> QED
  BY <1>5, <1>6 DEF CoverInv

\* Giving a slab back to a list or to the pool.
LEMMA CoverGiven ==
    ASSUME CoverInv, PlacesInv, UsersInv, NEW t \in Threads, NEW s \in Slabs,
           users[s] > 0, users' = [users EXCEPT ![s] = @ - 1],
           chunks' = chunks, lost' = lost,
           \A u \in Threads : u # t => list'[u] = list[u],
           Elems(list'[t]) \cup Pooled' = Elems(list[t]) \cup Pooled \cup {s}
    PROVE  CoverInv'
<1>1. Stored' = Stored \cup {s}
  BY OthersKept, StoredParts
<1>2. users[s] = 1
  BY DEF UsersInv
<1>3. /\ users' \in [Slabs -> 0 .. 1] /\ users'[s] = 0
      /\ \A r \in Slabs : r # s => users'[r] = users[r]
  BY <1>2 DEF UsersInv
<1>4. ASSUME NEW r \in lost
      PROVE  r[1] <= chunks /\ users'[r] = 0 /\ r \notin Stored'
  <2>1. r \in Slabs /\ r[1] <= chunks /\ users[r] = 0 /\ r \notin Stored
    BY DEF CoverInv
  <2>2. r # s
    BY <1>2, <2>1
  <2> QED
    BY <1>1, <1>3, <2>1, <2>2
<1>5. ASSUME NEW r \in Slabs, r[1] <= chunks
      PROVE  users'[r] = 1 \/ r \in Stored' \/ r \in lost
  <2>1. users[r] = 1 \/ r \in Stored \/ r \in lost
    BY <1>5 DEF CoverInv
  <2> QED
    BY <1>1, <1>3, <2>1
<1> QED
  BY <1>4, <1>5 DEF CoverInv

\* The list of a thread that ends is lost.
LEMMA CoverEnds ==
    ASSUME CoverInv, PlacesInv, PlacesInv', UsersInv, NEW t \in Threads,
           UNCHANGED <<users, chunks, central>>,
           list' = [list EXCEPT ![t] = <<>>],
           lost' = lost \cup Elems(list[t])
    PROVE  CoverInv'
<1>1. list'[t] = <<>> /\ \A u \in Threads : u # t => list'[u] = list[u]
  BY DEF PlacesInv
<1>2. Elems(list'[t]) = {}
  BY <1>1 DEF Elems
<1>3. Pooled' = Pooled
  BY DEF Pooled, Elems
<1>4. Stored' \cup Elems(list[t]) = Stored
  BY <1>1, <1>2, <1>3, OthersKept, StoredParts
<1>5. Elems(list[t]) \cap Others(t) = {}
  BY DEF PlacesInv, Others
<1>6. Elems(list[t]) \cap Pooled = {}
  BY DEF PlacesInv, Pooled
<1>7. Elems(list[t]) \cap Stored' = {}
  BY <1>1, <1>2, <1>3, <1>5, <1>6, OthersKept
<1>8. \A s \in Elems(list[t]) :
         s \in Slabs /\ s[1] <= chunks /\ users[s] = 0 /\ s \notin Stored'
  BY <1>4, <1>7, UsedNotStored
<1>9. \A s \in lost : s \in Slabs /\ s[1] <= chunks /\ users[s] = 0
                      /\ s \notin Stored'
  BY <1>4 DEF CoverInv
<1>10. \A s \in Slabs :
          s[1] <= chunks => users[s] = 1 \/ s \in Stored' \/ s \in lost'
  BY <1>4 DEF CoverInv
<1> QED
  BY <1>8, <1>9, <1>10 DEF CoverInv

\* allocate() covers: from the thread's own list,
LEMMA CoverOwn ==
    ASSUME CoverInv, PlacesInv, UsersInv, NEW t \in Threads, list[t] # <<>>,
           ThreadLocal!TakeFrom(t, list[t]),
           UNCHANGED <<chunks, central>>, lost' = lost
    PROVE  CoverInv'
<1>1. PlacesInv' /\ \A u \in Threads : u # t => list'[u] = list[u]
  BY TakesOwn
<1>2. list[t] \in Seq(Slabs) /\ list \in [Threads -> Seq(Slabs)]
  BY DEF PlacesInv
<1>p. PICK h : h = Head(list[t])
  OBVIOUS
<1>3. list'[t] = Tail(list[t]) /\ users' = [users EXCEPT ![h] = @ + 1]
  BY <1>2, <1>p DEF ThreadLocal!TakeFrom
<1>4. Elems(list'[t]) \cup {h} = Elems(list[t])
  BY <1>2, <1>3, <1>p, TailCovers
<1>5. h \in Slabs /\ users[h] = 0
  BY <1>4, UsedNotStored, StoredParts
<1>6. users' = [users EXCEPT ![h] = 1]
  BY <1>3, <1>5
<1>7. Pooled' = Pooled
  BY DEF Pooled, Elems
<1>8. PICK n : n = {s \in Slabs : FALSE}
  OBVIOUS
<1>9. \A s \in Slabs : s \in n <=> ~ (s[1] <= chunks) /\ s[1] <= chunks'
  BY <1>8
<1>10. Elems(list'[t]) \cup {h} \cup Pooled' = Elems(list[t]) \cup Pooled \cup n
  BY <1>4, <1>7, <1>8
<1>11. chunks' \in 0 .. MaxChunks /\ chunks <= chunks' /\ n \subseteq Slabs
  BY <1>8 DEF UsersInv
<1> QED
  BY <1>1, <1>5, <1>6, <1>9, <1>10, <1>11, CoverTaken

\* from a chunk of the pool,
LEMMA CoverPooled ==
    ASSUME CoverInv, PlacesInv, CountsInv, UsersInv, NEW t \in Threads,
           list[t] = <<>>, central # <<>>, chunks' = chunks, lost' = lost,
           ThreadLocal!TakeFrom(t, ThreadLocal!Last(central) \o list[t]),
           central' = ThreadLocal!Front(central)
    PROVE  CoverInv'
<1>1. PlacesInv' /\ \A u \in Threads : u # t => list'[u] = list[u]
  BY TakesPooled
<1>2. /\ central \in Seq(Seq(Slabs)) /\ list \in [Threads -> Seq(Slabs)]
      /\ SlabsPerChunk \in Nat /\ SlabsPerChunk >= 2
  BY SlabAssumption DEF SlabAssumption, PlacesInv
<1>n. PICK m : m = Len(central)
  OBVIOUS
<1>3. m \in Nat /\ m >= 1 /\ m \in 1 .. Len(central)
  BY <1>2, <1>n
<1>q. PICK f : f = central[m]
  OBVIOUS
<1>4. f \in Seq(Slabs) /\ Len(f) = SlabsPerChunk
  BY <1>2, <1>3, <1>q DEF CountsInv
<1>5. f # <<>> /\ f \o list[t] = f
  BY <1>2, <1>4
<1>p. PICK h : h = Head(f)
  OBVIOUS
<1>6. list'[t] = Tail(f) /\ users' = [users EXCEPT ![h] = @ + 1]
  BY <1>2, <1>n, <1>p, <1>q, <1>5 DEF ThreadLocal!TakeFrom, ThreadLocal!Last
<1>7. Elems(list'[t]) \cup {h} = Elems(f) /\ Elems(list[t]) = {}
  <2>1. Elems(list[t]) = {}
    BY DEF Elems
  <2> QED
    BY <1>4, <1>5, <1>6, <1>p, <2>1, TailCovers
<1>8. central' = SubSeq(central, 1, m - 1)
  BY <1>n DEF ThreadLocal!Front
<1>9. /\ Len(central') = m - 1
      /\ \A k \in 1 .. Len(central') : central'[k] = central[k]
  BY <1>2, <1>3, <1>n, <1>8
<1>10. \A k : k \in 1 .. Len(central) <=> k \in 1 .. Len(central') \/ k = m
  BY <1>3, <1>n, <1>9
<1>11. \A x : x \in Pooled' <=> \E k \in 1 .. Len(central') : x \in Elems(central[k])
  <2>1. \A k \in 1 .. Len(central') : Elems(central'[k]) = Elems(central[k])
    BY <1>9
  <2>2. \A x : x \in Pooled' <=>
                  \E k \in 1 .. Len(central') : x \in Elems(central'[k])
    BY DEF Pooled, Elems
  <2> QED
    BY <2>1, <2>2
<1>12. \A x : x \in Pooled <=> \E k \in 1 .. Len(central) : x \in Elems(central[k])
  BY DEF Pooled
<1>13. Pooled = Pooled' \cup Elems(f)
  BY ONLY <1>10, <1>11, <1>12, <1>q
<1>14. h \in Slabs /\ users[h] = 0
  <2>1. h \in Stored
    BY <1>7, <1>13 DEF Stored
  <2> QED
    BY <2>1, UsedNotStored
<1>15. users' = [users EXCEPT ![h] = 1]
  BY <1>6, <1>14
<1>16. PICK n : n = {s \in Slabs : FALSE}
  OBVIOUS
<1>17. \A s \in Slabs : s \in n <=> ~ (s[1] <= chunks) /\ s[1] <= chunks'
  BY <1>16
<1>18. Elems(list'[t]) \cup {h} \cup Pooled' = Elems(list[t]) \cup Pooled \cup n
  BY <1>7, <1>13, <1>16
<1>19. chunks' \in 0 .. MaxChunks /\ chunks <= chunks' /\ n \subseteq Slabs
  BY <1>16 DEF UsersInv
<1> QED
  BY <1>1, <1>14, <1>15, <1>17, <1>18, <1>19, CoverTaken

\* from a new chunk,
LEMMA CoverNew ==
    ASSUME CoverInv, PlacesInv, UsersInv, NEW t \in Threads, list[t] = <<>>,
           chunks < MaxChunks, chunks' = chunks + 1, lost' = lost,
           \/ ThreadLocal!TakeFrom(t, ThreadLocal!NewChunk(chunks') \o list[t])
           \/ ThreadLocal!TakeFrom(t, ThreadLocal!NewChunk(chunks')),
           UNCHANGED central
    PROVE  CoverInv'
<1>1. PlacesInv' /\ \A u \in Threads : u # t => list'[u] = list[u]
  BY TakesNew
<1>p. PICK c : c = chunks + 1
  OBVIOUS
<1>0. /\ SlabsPerChunk \in Nat /\ SlabsPerChunk >= 2 /\ MaxChunks \in Nat
      /\ chunks \in Nat /\ c \in 1 .. MaxChunks
      /\ list \in [Threads -> Seq(Slabs)]
  BY <1>p, SlabAssumption DEF SlabAssumption, UsersInv, PlacesInv
<1>f. PICK f : f = ThreadLocal!NewChunk(c)
  OBVIOUS
<1>2. f \in Seq(Slabs) /\ Len(f) = SlabsPerChunk
  BY <1>0, <1>f, ChunkFacts
<1>3. f # <<>> /\ f \o list[t] = f
  BY <1>0, <1>2
<1>h. PICK h : h = Head(f)
  OBVIOUS
<1>4. list'[t] = Tail(f) /\ users' = [users EXCEPT ![h] = @ + 1]
  BY <1>0, <1>3, <1>f, <1>h, <1>p DEF ThreadLocal!TakeFrom
<1>5. Elems(list'[t]) \cup {h} = Elems(f) /\ Elems(list[t]) = {}
  <2>1. Elems(list[t]) = {}
    BY DEF Elems
  <2> QED
    BY <1>2, <1>3, <1>4, <1>h, <2>1, TailCovers
<1>6. Elems(f) = {s \in Slabs : s[1] = c}
  BY <1>0, <1>f, ChunkCovers
<1>7. \A s \in Slabs : s \in Elems(f) <=> ~ (s[1] <= chunks) /\ s[1] <= chunks'
  <2>1. \A s \in Slabs : s[1] \in Nat
    BY SlabParts
  <2> QED
    BY <1>0, <1>6, <1>p, <2>1
<1>8. h \in Slabs /\ users[h] = 0
  <2>1. h \in Slabs /\ ~ (h[1] <= chunks)
    BY <1>5, <1>6, <1>7
  <2> QED
    BY <2>1 DEF UsersInv
<1>9. users' = [users EXCEPT ![h] = 1]
  BY <1>4, <1>8
<1>10. Pooled' = Pooled
  BY DEF Pooled, Elems
<1>11. Elems(list'[t]) \cup {h} \cup Pooled'
          = Elems(list[t]) \cup Pooled \cup Elems(f)
  BY <1>5, <1>10
<1>12. /\ chunks' \in 0 .. MaxChunks /\ chunks <= chunks'
       /\ Elems(f) \subseteq Slabs
  BY <1>0, <1>6, <1>p
<1> QED
  BY <1>1, <1>7, <1>8, <1>9, <1>11, <1>12, CoverTaken

\* deallocate() into the thread's list,
LEMMA CoverFreed ==
    ASSUME CoverInv, PlacesInv, UsersInv, NEW t \in Threads, NEW s \in Slabs,
           users[s] > 0, users' = [users EXCEPT ![s] = @ - 1],
           list' = [list EXCEPT ![t] = ThreadLocal!Free(t, s)],
           UNCHANGED <<chunks, central>>, lost' = lost
    PROVE  CoverInv'
<1>1. \A u \in Threads : u # t => list'[u] = list[u]
  BY GivesOwn
<1>2. list[t] \in Seq(Slabs) /\ list \in [Threads -> Seq(Slabs)]
  BY DEF PlacesInv
<1>3. list'[t] = <<s>> \o list[t]
  BY <1>2 DEF ThreadLocal!Free
<1>4. Elems(list'[t]) = Elems(list[t]) \cup {s}
  BY <1>2, <1>3, ConsCovers
<1>5. Pooled' = Pooled
  BY DEF Pooled, Elems
<1>6. Elems(list'[t]) \cup Pooled' = Elems(list[t]) \cup Pooled \cup {s}
  BY <1>4, <1>5
<1> QED
  BY <1>1, <1>6, CoverGiven

\* and when a chunk is cut off for the pool.
LEMMA CoverCut ==
    ASSUME CoverInv, PlacesInv, CountsInv, UsersInv, NEW t \in Threads,
           NEW s \in Slabs, ThreadLocal!DeallocateAndCutOff(t, s), lost' = lost
    PROVE  CoverInv'
<1>0. /\ SlabsPerChunk \in Nat /\ count[t] \in Nat /\ threshold[t] \in Nat
      /\ threshold[t] >= SlabsPerChunk /\ count[t] = Len(list[t])
      /\ central \in Seq(Seq(Slabs)) /\ list \in [Threads -> Seq(Slabs)]
      /\ list[t] \in Seq(Slabs)
  BY SlabAssumption DEF SlabAssumption, CountsInv, PlacesInv
<1>n. PICK n : n = SlabsPerChunk
  OBVIOUS
<1>p. PICK f : f = ThreadLocal!Free(t, s)
  OBVIOUS
<1>1. /\ users[s] > 0 /\ users' = [users EXCEPT ![s] = @ - 1]
      /\ count[t] + 1 >= threshold[t]
      /\ chunks' = chunks
      /\ central' = Append(central, SubSeq(f, 1, n))
      /\ list' = [list EXCEPT ![t] = SubSeq(f, n + 1, Len(f))]
  BY <1>n, <1>p DEF ThreadLocal!DeallocateAndCutOff
<1>2. f \in Seq(Slabs) /\ Len(f) = Len(list[t]) + 1
  BY <1>1, <1>p, FreeFacts
<1>3. n \in 0 .. Len(f)
  BY <1>0, <1>1, <1>2, <1>n
<1>a. PICK a : a = SubSeq(f, 1, n)
  OBVIOUS
<1>b. PICK b : b = SubSeq(f, n + 1, Len(f))
  OBVIOUS
<1>4. Elems(a) \cup Elems(b) = Elems(f)
  BY <1>2, <1>3, <1>a, <1>b, CutCovers
<1>5. Elems(f) = Elems(list[t]) \cup {s}
  <2>1. f = <<s>> \o list[t]
    BY <1>p DEF ThreadLocal!Free
  <2> QED
    BY <1>0, <2>1, ConsCovers
<1>6. list'[t] = b /\ central' = Append(central, a)
  BY <1>0, <1>1, <1>a, <1>b
<1>7. a \in Seq(Slabs)
  BY <1>2, <1>3, <1>a
<1>8. /\ Len(central) \in Nat /\ Len(central') = Len(central) + 1
      /\ central'[Len(central) + 1] = a
      /\ \A k \in 1 .. Len(central) : central'[k] = central[k]
  BY <1>0, <1>6, <1>7
<1>m. PICK m : m = Len(central) + 1
  OBVIOUS
<1>9. \A k : k \in 1 .. Len(central') <=> k \in 1 .. Len(central) \/ k = m
  BY <1>8, <1>m
<1>10. \A x : x \in Pooled' <=> \E k \in 1 .. Len(central') : x \in Elems(central'[k])
  BY DEF Pooled, Elems
<1>11. \A x : x \in Pooled <=> \E k \in 1 .. Len(central) : x \in Elems(central[k])
  BY DEF Pooled
<1>12. central'[m] = a
  BY <1>8, <1>m
<1>13. \A k \in 1 .. Len(central) : Elems(central'[k]) = Elems(central[k])
  BY <1>8
<1>14. Elems(central'[m]) = Elems(a)
  BY <1>12
<1>15. Pooled' = Pooled \cup Elems(a)
  BY ONLY <1>9, <1>10, <1>11, <1>13, <1>14
<1>16. Elems(list'[t]) \cup Pooled' = Elems(list[t]) \cup Pooled \cup {s}
  BY <1>4, <1>5, <1>6, <1>15
<1>17. \A u \in Threads : u # t => list'[u] = list[u]
  BY <1>0, <1>1
<1> QED
  BY <1>1, <1>16, <1>17, CoverGiven

\* The elements of a list, as the model names them.
LEMMA ListSet ==
    ASSUME NEW s \in Seq(Slabs)
    PROVE  ThreadLocal!ToSet(s) = Elems(s)
<1>1. DOMAIN s = 1 .. Len(s)
  OBVIOUS
<1> QED
  BY <1>1 DEF ThreadLocal!ToSet, Elems

\* Every step of the thread-local and of the simple allocator covers.
LEMMA CoverKept ==
    ASSUME CoverInv, PlacesInv, UsersInv,
           \/ CountsInv /\ ThreadLocal!Next
           \/ ThreadLocal!SimpleNext
    PROVE  CoverInv'
<1>0. Main \in Threads
  BY SlabAssumption DEF SlabAssumption
<1>1. CASE CountsInv /\ ThreadLocal!Next
  <2>1. PICK t \in Threads :
           \/ ThreadLocal!AllocateLocally(t)
           \/ ThreadLocal!AllocateFromPool(t)
           \/ ThreadLocal!AllocateFromChunk(t)
           \/ \E s \in Slabs : ThreadLocal!DeallocateLocally(t, s)
           \/ \E s \in Slabs : ThreadLocal!DeallocateAndCutOff(t, s)
           \/ ThreadLocal!ThreadEnds(t)
    BY <1>1, SlabNames DEF ThreadLocal!Next
  <2>2. list[t] \in Seq(Slabs) /\ count[t] = Len(list[t]) /\ count[t] \in Nat
    BY <1>1 DEF PlacesInv, CountsInv
  <2>3. /\ count[t] > 0 => list[t] # <<>>
        /\ count[t] = 0 => list[t] = <<>>
    BY <2>2
  <2>4. CASE ThreadLocal!AllocateLocally(t)
    <3>1. /\ list[t] # <<>> /\ ThreadLocal!TakeFrom(t, list[t])
          /\ UNCHANGED <<chunks, central>> /\ lost' = lost
      BY <2>3, <2>4 DEF ThreadLocal!AllocateLocally, ThreadLocal!Call
    <3> QED
      BY <3>1, CoverOwn
  <2>5. CASE ThreadLocal!AllocateFromPool(t)
    <3>1. /\ list[t] = <<>> /\ central # <<>> /\ chunks' = chunks
          /\ ThreadLocal!TakeFrom(t, ThreadLocal!Last(central) \o list[t])
          /\ central' = ThreadLocal!Front(central) /\ lost' = lost
      BY <2>3, <2>5 DEF ThreadLocal!AllocateFromPool, ThreadLocal!Call
    <3> QED
      BY <1>1, <3>1, CoverPooled
  <2>6. CASE ThreadLocal!AllocateFromChunk(t)
    <3>1. /\ list[t] = <<>> /\ chunks < MaxChunks /\ chunks' = chunks + 1
          /\ ThreadLocal!TakeFrom(t, ThreadLocal!NewChunk(chunks') \o list[t])
          /\ central' = central /\ lost' = lost
      BY <2>3, <2>6 DEF ThreadLocal!AllocateFromChunk, ThreadLocal!Call
    <3> QED
      BY <3>1, CoverNew
  <2>7. ASSUME NEW s \in Slabs, ThreadLocal!DeallocateLocally(t, s)
        PROVE  CoverInv'
    <3>1. /\ users[s] > 0 /\ users' = [users EXCEPT ![s] = @ - 1]
          /\ list' = [list EXCEPT ![t] = ThreadLocal!Free(t, s)]
          /\ UNCHANGED <<chunks, central>> /\ lost' = lost
      BY <2>7 DEF ThreadLocal!DeallocateLocally, ThreadLocal!Call
    <3> QED
      BY <3>1, CoverFreed
  <2>8. ASSUME NEW s \in Slabs, ThreadLocal!DeallocateAndCutOff(t, s)
        PROVE  CoverInv'
    <3>1. lost' = lost
      BY <2>8 DEF ThreadLocal!DeallocateAndCutOff, ThreadLocal!Call
    <3> QED
      BY <1>1, <2>8, <3>1, CoverCut
  <2>9. CASE ThreadLocal!ThreadEnds(t)
    <3>1. /\ UNCHANGED <<users, chunks, central>>
          /\ list' = [list EXCEPT ![t] = <<>>]
          /\ lost' = lost \cup ThreadLocal!ToSet(list[t])
      BY <2>9 DEF ThreadLocal!ThreadEnds
    <3>2. lost' = lost \cup Elems(list[t])
      BY <2>2, <3>1, ListSet
    <3>3. PlacesInv'
      BY <3>1, EndKeeps
    <3> QED
      BY <3>1, <3>2, <3>3, CoverEnds
  <2> QED
    BY <2>1, <2>4, <2>5, <2>6, <2>7, <2>8, <2>9
<1>2. CASE ThreadLocal!SimpleAllocate
  <2>1. /\ list[Main] # <<>> /\ ThreadLocal!TakeFrom(Main, list[Main])
        /\ UNCHANGED <<chunks, central>> /\ lost' = lost
    BY <1>2 DEF ThreadLocal!SimpleAllocate, ThreadLocal!Call
  <2> QED
    BY <1>0, <2>1, CoverOwn
<1>3. CASE ThreadLocal!SimpleAllocateOneChunk
  <2>1. /\ list[Main] = <<>> /\ chunks < MaxChunks /\ chunks' = chunks + 1
        /\ ThreadLocal!TakeFrom(Main, ThreadLocal!NewChunk(chunks'))
        /\ UNCHANGED central /\ lost' = lost
    BY <1>3 DEF ThreadLocal!SimpleAllocateOneChunk, ThreadLocal!Call
  <2> QED
    BY <1>0, <2>1, CoverNew
<1>4. ASSUME NEW s \in Slabs, ThreadLocal!SimpleDeallocate(s)
      PROVE  CoverInv'
  <2>1. /\ users[s] > 0 /\ users' = [users EXCEPT ![s] = @ - 1]
        /\ list' = [list EXCEPT ![Main] = ThreadLocal!Free(Main, s)]
        /\ UNCHANGED <<chunks, central>> /\ lost' = lost
    BY <1>4 DEF ThreadLocal!SimpleDeallocate, ThreadLocal!Call
  <2> QED
    BY <1>0, <2>1, CoverFreed
<1> QED
  BY <1>1, <1>2, <1>3, <1>4, SlabNames DEF ThreadLocal!SimpleNext

\* Cardinality means the same in all modules.
LEMMA SameCardinality ==
    /\ \A S : ThreadLocal!Cardinality(S) = Cardinality(S)
    /\ \A S : SemiLockFree!Cardinality(S) = Cardinality(S)
BY DEF ThreadLocal!Cardinality, SemiLockFree!Cardinality, Cardinality

\* A slab is at one position of one list, or at none;
LEMMA ListCount ==
    ASSUME PlacesInv, NEW s \in Slabs
    PROVE  Cardinality(ThreadLocal!InLists(s)) = IF s \in Listed THEN 1 ELSE 0
<1>0. \A t \in Threads : DOMAIN list[t] = 1 .. Len(list[t])
  <2> SUFFICES ASSUME NEW t \in Threads, NEW l, l = list[t]
               PROVE  DOMAIN l = 1 .. Len(l)
    BY Zenon
  <2>1. l \in Seq(Slabs)
    BY DEF PlacesInv
  <2> QED
    BY <2>1
<1>1. \A p : p \in ThreadLocal!InLists(s) <=>
                \E t \in Threads : \E i \in 1 .. Len(list[t]) :
                   p = <<t, i>> /\ list[t][i] = s
  <2> SUFFICES ASSUME NEW p
               PROVE  p \in ThreadLocal!InLists(s) <=>
                         \E t \in Threads : \E i \in 1 .. Len(list[t]) :
                            p = <<t, i>> /\ list[t][i] = s
    OBVIOUS
  <2>1. p \in ThreadLocal!InLists(s) <=>
           \E t \in Threads :
              p \in {t} \X {i \in DOMAIN list[t] : list[t][i] = s}
    BY DEF ThreadLocal!InLists
  <2>2. \A t \in Threads :
           p \in {t} \X {i \in DOMAIN list[t] : list[t][i] = s} <=>
              \E i \in 1 .. Len(list[t]) : p = <<t, i>> /\ list[t][i] = s
    <3> TAKE t \in Threads
    <3>l. PICK l : l = list[t]
      OBVIOUS
    <3>1. DOMAIN l = 1 .. Len(l)
      BY <1>0, <3>l
    <3>2. p \in {t} \X {i \in DOMAIN l : l[i] = s} <=>
             \E i \in 1 .. Len(l) : p = <<t, i>> /\ l[i] = s
      BY <3>1
    <3> QED
      BY <3>2, <3>l, Zenon
  <2> QED
    BY <2>1, <2>2
<1>2. \A t \in Threads : s \in Elems(list[t]) <=>
          \E i \in 1 .. Len(list[t]) : list[t][i] = s
  BY DEF Elems
<1>3. CASE s \notin Listed
  <2>1. ThreadLocal!InLists(s) = {}
    BY <1>1, <1>2, <1>3 DEF Listed
  <2> QED
    BY <1>3, <2>1, FS_EmptySet
<1>4. CASE s \in Listed
  <2>1. PICK t \in Threads : s \in Elems(list[t])
    BY <1>4 DEF Listed
  <2>2. PICK i \in 1 .. Len(list[t]) : list[t][i] = s
    BY <1>2, <2>1
  <2>3. \A u \in Threads : \A j \in 1 .. Len(list[u]) :
           list[u][j] = s => u = t /\ j = i
    <3> TAKE u \in Threads
    <3> TAKE j \in 1 .. Len(list[u])
    <3> HAVE list[u][j] = s
    <3>1. s \in Elems(list[u])
      BY <1>2
    <3>2. u = t
      BY <2>1, <3>1 DEF PlacesInv
    <3>3. NoRepeat(list[t])
      BY DEF PlacesInv
    <3> QED
      BY <2>2, <3>2, <3>3 DEF NoRepeat
  <2>4. ThreadLocal!InLists(s) = {<<t, i>>}
    BY <1>1, <2>2, <2>3
  <2> QED
    BY <1>4, <2>4, FS_Singleton
<1> QED
  BY <1>3, <1>4

\* likewise in the pool.
LEMMA PoolCount ==
    ASSUME PlacesInv, NEW s \in Slabs
    PROVE  Cardinality(ThreadLocal!InPool(s)) = IF s \in Pooled THEN 1 ELSE 0
<1>0. /\ DOMAIN central = 1 .. Len(central)
      /\ \A k \in 1 .. Len(central) : DOMAIN central[k] = 1 .. Len(central[k])
  <2>1. central \in Seq(Seq(Slabs))
    BY DEF PlacesInv
  <2>2. \A k \in 1 .. Len(central) : central[k] \in Seq(Slabs)
    BY <2>1
  <2> QED
    BY <2>1, <2>2
<1>1. \A p : p \in ThreadLocal!InPool(s) <=>
                \E k \in 1 .. Len(central) : \E i \in 1 .. Len(central[k]) :
                   p = <<k, i>> /\ central[k][i] = s
  <2> SUFFICES ASSUME NEW p
               PROVE  p \in ThreadLocal!InPool(s) <=>
                         \E k \in 1 .. Len(central) :
                            \E i \in 1 .. Len(central[k]) :
                               p = <<k, i>> /\ central[k][i] = s
    OBVIOUS
  <2>1. p \in ThreadLocal!InPool(s) <=>
           \E k \in DOMAIN central :
              p \in {k} \X {i \in DOMAIN central[k] : central[k][i] = s}
    BY DEF ThreadLocal!InPool
  <2>2. \A k \in 1 .. Len(central) :
           p \in {k} \X {i \in DOMAIN central[k] : central[k][i] = s} <=>
              \E i \in 1 .. Len(central[k]) : p = <<k, i>> /\ central[k][i] = s
    BY <1>0
  <2> QED
    BY <1>0, <2>1, <2>2
<1>2. \A k \in 1 .. Len(central) : s \in Elems(central[k]) <=>
          \E i \in 1 .. Len(central[k]) : central[k][i] = s
  BY DEF Elems
<1>3. CASE s \notin Pooled
  <2>1. ThreadLocal!InPool(s) = {}
    BY <1>1, <1>2, <1>3 DEF Pooled
  <2> QED
    BY <1>3, <2>1, FS_EmptySet
<1>4. CASE s \in Pooled
  <2>1. PICK k \in 1 .. Len(central) : s \in Elems(central[k])
    BY <1>4 DEF Pooled
  <2>2. PICK i \in 1 .. Len(central[k]) : central[k][i] = s
    BY <1>2, <2>1
  <2>3. \A m \in 1 .. Len(central) : \A j \in 1 .. Len(central[m]) :
           central[m][j] = s => m = k /\ j = i
    <3> TAKE m \in 1 .. Len(central)
    <3> TAKE j \in 1 .. Len(central[m])
    <3> HAVE central[m][j] = s
    <3>1. s \in Elems(central[m])
      BY <1>2
    <3>2. m = k
      BY <2>1, <3>1 DEF PlacesInv
    <3>3. NoRepeat(central[k])
      BY DEF PlacesInv
    <3> QED
      BY <2>2, <3>2, <3>3 DEF NoRepeat
  <2>4. ThreadLocal!InPool(s) = {<<k, i>>}
    BY <1>1, <2>2, <2>3
  <2> QED
    BY <1>4, <2>4, FS_Singleton
<1> QED
  BY <1>3, <1>4

\* Together: every slab of a chunk is in exactly one place.
LEMMA ThreadLocalAccounts ==
    ASSUME PlacesInv, UsersInv, CoverInv
    PROVE  ThreadLocal!SlabsAccountedFor
<1> SUFFICES ASSUME NEW s \in Slabs
             PROVE  users[s] + ThreadLocal!Cardinality(ThreadLocal!InLists(s))
                      + ThreadLocal!Cardinality(ThreadLocal!InPool(s))
                      + (IF s \in lost THEN 1 ELSE 0)
                      = (IF s[1] <= chunks THEN 1 ELSE 0)
  BY SlabNames DEF ThreadLocal!SlabsAccountedFor
<1>a. PICK a : a = ThreadLocal!Cardinality(ThreadLocal!InLists(s))
  OBVIOUS
<1>b. PICK b : b = ThreadLocal!Cardinality(ThreadLocal!InPool(s))
  OBVIOUS
<1>1. a = IF s \in Listed THEN 1 ELSE 0
  BY <1>a, ListCount, SameCardinality
<1>2. b = IF s \in Pooled THEN 1 ELSE 0
  BY <1>b, PoolCount, SameCardinality
<1>3. users[s] \in 0 .. 1 /\ (users[s] > 0 => s[1] <= chunks)
  BY DEF UsersInv
<1>4. s \in Stored => s[1] <= chunks /\ users[s] = 0
  BY UsedNotStored
<1>5. ~ (s \in Listed /\ s \in Pooled)
  BY DEF Listed, Pooled, PlacesInv
<1>6. s \in lost => s[1] <= chunks /\ users[s] = 0 /\ s \notin Stored
  BY DEF CoverInv
<1>7. s[1] <= chunks => users[s] = 1 \/ s \in Stored \/ s \in lost
  BY DEF CoverInv
<1>8. s \in Stored <=> s \in Listed \/ s \in Pooled
  BY DEF Stored
<1>u. PICK u : u = users[s]
  OBVIOUS
<1>9. u + a + b + (IF s \in lost THEN 1 ELSE 0)
         = (IF s[1] <= chunks THEN 1 ELSE 0)
  BY <1>1, <1>2, <1>3, <1>4, <1>5, <1>6, <1>7, <1>8, <1>u
<1> QED
  BY <1>9, <1>a, <1>b, <1>u

-----------------------------------------------------------------------------
(* The free list in order *)

\* The i-th slab of l, and Null after the last one.
At(l, i) == IF i <= Len(l) THEN l[i] ELSE Null

\* The links lead from the head through l, which has the free slabs.
Ordered(l) ==
    /\ NoRepeat(l) /\ Elems(l) = FreeSet
    /\ head.node = At(l, 1)
    /\ \A i \in 1 .. Len(l) : next[l[i]] = At(l, i + 1)

OrderInv == \E l \in Seq(Slabs) : Ordered(l)

\* A step that leaves the list alone.
LEMMA OrderKept ==
    ASSUME OrderInv, ListKept
    PROVE  OrderInv'
<1>1. PICK l \in Seq(Slabs) : Ordered(l)
  BY DEF OrderInv
<1>2. \A i \in 1 .. Len(l) : l[i] \in FreeSet
  BY <1>1 DEF Ordered, Elems
<1>3. \A i \in 1 .. Len(l) : next'[l[i]] = next[l[i]]
  BY <1>2 DEF ListKept
<1>4. Ordered(l)'
  BY <1>1, <1>3 DEF Ordered, ListKept
<1> QED
  BY <1>4 DEF OrderInv

\* The first slab is popped: the rest is the list.
LEMMA OrderPopped ==
    ASSUME OrderInv, ListPopped, HeadTypes
    PROVE  OrderInv'
<1>1. PICK l \in Seq(Slabs) : Ordered(l)
  BY DEF OrderInv
<1>2. Null \notin FreeSet
  BY SlabNames DEF FreeSet
<1>3. Len(l) \in Nat /\ Len(l) >= 1 /\ head.node = l[1]
  <2>1. Len(l) \in Nat
    OBVIOUS
  <2>2. 1 <= Len(l)
    BY <1>1, <1>2, <2>1 DEF Ordered, ListPopped, At
  <2> QED
    BY <1>1, <2>1, <2>2 DEF Ordered, At
<1>r. PICK r : r = Tail(l)
  OBVIOUS
<1>4. l # <<>> /\ Head(l) = l[1]
  BY <1>3
<1>5. /\ r \in Seq(Slabs) /\ Len(r) = Len(l) - 1 /\ NoRepeat(r)
      /\ Elems(r) \cup {l[1]} = Elems(l) /\ l[1] \notin Elems(r)
  BY <1>1, <1>4, <1>r, TailFacts, TailCovers DEF Ordered
<1>6. Elems(r) = FreeSet'
  BY <1>1, <1>3, <1>5 DEF Ordered, ListPopped
<1>7. \A i \in 1 .. Len(r) : r[i] = l[i + 1] /\ i + 1 \in 1 .. Len(l)
  BY <1>3, <1>5, <1>r
<1>8. \A i \in Nat : i >= 1 => At(r, i) = At(l, i + 1)
  <2> SUFFICES ASSUME NEW i \in Nat, i >= 1 PROVE At(r, i) = At(l, i + 1)
    OBVIOUS
  <2>1. i <= Len(r) <=> i + 1 <= Len(l)
    BY <1>3, <1>5
  <2>2. i <= Len(r) => i \in 1 .. Len(r)
    BY <1>3, <1>5
  <2> QED
    BY <1>7, <2>1, <2>2 DEF At
<1>9. head'.node = At(r, 1)
  <2>1. next[l[1]] = At(l, 1 + 1)
    BY <1>1, <1>3 DEF Ordered
  <2> QED
    BY <1>3, <1>8, <2>1 DEF ListPopped
<1>10. ASSUME NEW i \in 1 .. Len(r) PROVE next'[r[i]] = At(r, i + 1)
  <2>1. r[i] \in FreeSet'
    BY <1>6 DEF Elems
  <2>2. next'[r[i]] = next[r[i]]
    BY <2>1 DEF ListPopped
  <2>3. next[l[i + 1]] = At(l, (i + 1) + 1)
    BY <1>1, <1>7 DEF Ordered
  <2>4. At(r, i + 1) = At(l, (i + 1) + 1)
    BY <1>8
  <2> QED
    BY <1>7, <2>2, <2>3, <2>4
<1>11. Ordered(r)'
  BY <1>5, <1>6, <1>9, <1>10 DEF Ordered
<1> QED
  BY <1>5, <1>11 DEF OrderInv

\* What a thread pushes, in order.
LEMMA PushedOrder ==
    ASSUME UsersInv, SemiLockFreeInv, NEW t \in Threads, Pushing(t)
    PROVE  \E c \in Seq(Slabs) :
              /\ NoRepeat(c) /\ Elems(c) = OnHand(t) \ {chosen[t]}
              /\ Len(c) >= 1 /\ c[1] = new[t] /\ c[Len(c)] = tail[t]
              /\ \A i \in 1 .. Len(c) : i < Len(c) => next[c[i]] = c[i + 1]
<1>0. Chain(t)
  BY DEF SemiLockFreeInv, ChainInv
<1>1. CASE OneSlab(t)
  <2>1. /\ OnHand(t) = {new[t]} /\ chosen[t] = Null /\ tail[t] = new[t]
        /\ new[t] \in Slabs
    BY <1>1, HandFacts DEF OneSlab
  <2>c. PICK c : c = <<new[t]>>
    OBVIOUS
  <2>2. c \in Seq(Slabs) /\ Len(c) = 1 /\ c[1] = new[t]
    BY <2>1, <2>c
  <2>3. NoRepeat(c)
    BY <2>2 DEF NoRepeat
  <2>4. Elems(c) = {new[t]}
    BY <2>2 DEF Elems
  <2>5. OnHand(t) \ {chosen[t]} = {new[t]}
    BY <2>1, SlabNames
  <2>6. Len(c) >= 1 /\ \A i \in 1 .. Len(c) : ~ (i < Len(c))
    BY <2>2
  <2> QED
    BY <2>1, <2>2, <2>3, <2>4, <2>5, <2>6
<1>2. ASSUME NEW k \in 1 .. MaxChunks, OneChunk(t, k)
      PROVE  \E c \in Seq(Slabs) :
              /\ NoRepeat(c) /\ Elems(c) = OnHand(t) \ {chosen[t]}
              /\ Len(c) >= 1 /\ c[1] = new[t] /\ c[Len(c)] = tail[t]
              /\ \A i \in 1 .. Len(c) : i < Len(c) => next[c[i]] = c[i + 1]
  <2>0. SlabsPerChunk \in Nat /\ SlabsPerChunk >= 2
    BY SlabAssumption DEF SlabAssumption
  <2>n. PICK n : n = SlabsPerChunk - 1
    OBVIOUS
  <2>1. /\ chosen[t] = <<k, SlabsPerChunk>> /\ new[t] = <<k, n>>
        /\ tail[t] = <<k, 1>>
        /\ \A i \in 2 .. n : next[<<k, i>>] = <<k, i - 1>>
    BY <1>2, <2>n DEF OneChunk
  <2>2. chosen[t] # Null /\ chosen[t][1] = k
    BY <2>0, <2>1 DEF Null
  <2>3. OnHand(t) = {k} \X (1 .. SlabsPerChunk)
    BY <2>2, HandFacts
  <2>4. n \in Nat /\ n >= 1 /\ n < SlabsPerChunk
    BY <2>0, <2>n
  <2>c. PICK c : c = [i \in 1 .. n |-> <<k, (n - i) + 1>>]
    OBVIOUS
  <2>5. \A i \in 1 .. n : (n - i) + 1 \in 1 .. n
    BY <2>4
  <2>6. \A i \in 1 .. n : c[i] = <<k, (n - i) + 1>> /\ c[i] \in Slabs
    <3> TAKE i \in 1 .. n
    <3>1. (n - i) + 1 \in 1 .. SlabsPerChunk
      BY <2>0, <2>4
    <3> QED
      BY <2>c, <3>1 DEF Slabs
  <2>7. c \in Seq(Slabs) /\ Len(c) = n
    <3>1. c \in [1 .. n -> Slabs]
      BY <2>c, <2>6
    <3> QED
      BY <2>4, <3>1
  <2>8. NoRepeat(c)
    <3>1. \A i, j \in 1 .. n : (n - i) + 1 = (n - j) + 1 => i = j
      BY <2>4
    <3> QED
      BY <2>6, <2>7, <3>1 DEF NoRepeat
  <2>9. Elems(c) = OnHand(t) \ {chosen[t]}
    <3>1. \A x : x \in Elems(c) <=> \E i \in 1 .. n : x = <<k, i>>
      <4>1. \A x : x \in Elems(c) <=> \E i \in 1 .. n : x = <<k, (n - i) + 1>>
        BY <2>6, <2>7 DEF Elems
      <4>2. \A i \in 1 .. n : (n - ((n - i) + 1)) + 1 = i
        BY <2>4
      <4> QED
        BY <2>5, <4>1, <4>2
    <3>2. \A x : x \in OnHand(t) \ {chosen[t]} <=>
                    \E i \in 1 .. SlabsPerChunk :
                       x = <<k, i>> /\ i # SlabsPerChunk
      BY <2>1, <2>3
    <3>3. \A i : i \in 1 .. SlabsPerChunk /\ i # SlabsPerChunk <=> i \in 1 .. n
      BY <2>0, <2>n
    <3>4. \A x : x \in Elems(c) <=> x \in OnHand(t) \ {chosen[t]}
      BY <3>1, <3>2, <3>3, Zenon
    <3> QED
      BY <3>4
  <2>10. c[1] = new[t] /\ c[Len(c)] = tail[t]
    <3>1. 1 \in 1 .. n /\ n \in 1 .. n /\ (n - 1) + 1 = n /\ (n - n) + 1 = 1
      BY <2>4
    <3> QED
      BY <2>1, <2>6, <2>7, <3>1
  <2>11. ASSUME NEW i \in 1 .. n, i < n PROVE next[c[i]] = c[i + 1]
    <3>1. /\ (n - i) + 1 \in 2 .. n /\ i + 1 \in 1 .. n
          /\ ((n - i) + 1) - 1 = (n - (i + 1)) + 1
      BY <2>4, <2>11
    <3>2. next[<<k, (n - i) + 1>>] = <<k, ((n - i) + 1) - 1>>
      BY <2>1, <3>1
    <3>3. c[i + 1] = <<k, (n - (i + 1)) + 1>>
      BY <2>6, <3>1
    <3> QED
      BY <2>6, <3>1, <3>2, <3>3
  <2>12. \A i \in 1 .. Len(c) : i < Len(c) => next[c[i]] = c[i + 1]
    BY <2>7, <2>11
  <2> QED
    BY <2>4, <2>7, <2>8, <2>9, <2>10, <2>12
<1> QED
  BY <1>0, <1>1, <1>2 DEF Chain

\* One list in front of another that has none of its slabs.
Joined(c, l, j) ==
    /\ j \in Seq(Slabs) /\ Len(j) = Len(c) + Len(l)
    /\ NoRepeat(j) /\ Elems(j) = Elems(c) \cup Elems(l)
    /\ \A i \in 1 .. Len(c) : j[i] = c[i]
    /\ \A i \in 1 .. Len(l) : j[Len(c) + i] = l[i]

\* It has the slabs of both.
LEMMA JoinFacts ==
    ASSUME NEW c \in Seq(Slabs), NEW l \in Seq(Slabs), NoRepeat(c), NoRepeat(l),
           Elems(c) \cap Elems(l) = {}, NEW j, j = c \o l
    PROVE  Joined(c, l, j)
<1>0. Len(c) \in Nat /\ Len(l) \in Nat
  OBVIOUS
<1>1. j \in Seq(Slabs) /\ Len(j) = Len(c) + Len(l)
  OBVIOUS
<1>2. \A i \in 1 .. Len(j) : j[i] = IF i <= Len(c) THEN c[i] ELSE l[i - Len(c)]
  OBVIOUS
<1>n. PICK n, m : n = Len(c) /\ m = Len(l)
  OBVIOUS
<1>3. \A i \in 1 .. Len(j) : \/ i \in 1 .. n /\ j[i] = c[i]
                             \/ /\ i \notin 1 .. n /\ i - n \in 1 .. m
                                /\ j[i] = l[i - n] /\ n + (i - n) = i
  BY <1>0, <1>1, <1>2, <1>n
<1>4. \A i \in 1 .. n : i \in 1 .. Len(j) /\ j[i] = c[i]
  BY <1>0, <1>1, <1>2, <1>n
<1>5. \A i \in 1 .. m : n + i \in 1 .. Len(j) /\ j[n + i] = l[i]
  <2> TAKE i \in 1 .. m
  <2>1. /\ n + i \in 1 .. Len(j) /\ ~ (n + i <= Len(c))
        /\ (n + i) - Len(c) = i
    BY <1>0, <1>1, <1>n
  <2> QED
    BY <1>2, <2>1
<1>6. /\ Elems(c) = {c[i] : i \in 1 .. n} /\ Elems(l) = {l[i] : i \in 1 .. m}
  BY <1>n DEF Elems
<1>7. Elems(j) = Elems(c) \cup Elems(l)
  <2>1. ASSUME NEW i \in 1 .. Len(j) PROVE j[i] \in Elems(c) \cup Elems(l)
    BY <1>3, <1>6
  <2>2. Elems(j) \subseteq Elems(c) \cup Elems(l)
    BY <2>1 DEF Elems
  <2>3. \A i \in 1 .. n : c[i] \in Elems(j)
    BY <1>4 DEF Elems
  <2>4. \A i \in 1 .. m : l[i] \in Elems(j)
    BY <1>5 DEF Elems
  <2> QED
    BY <1>6, <2>2, <2>3, <2>4
<1>8. NoRepeat(j)
  <2> SUFFICES ASSUME NEW a \in 1 .. Len(j), NEW b \in 1 .. Len(j), j[a] = j[b]
               PROVE  a = b
    BY DEF NoRepeat
  <2>1. CASE a \in 1 .. n /\ b \in 1 .. n
    BY <1>4, <1>n, <2>1 DEF NoRepeat
  <2>2. CASE a \notin 1 .. n /\ b \notin 1 .. n
    <3>1. a - n = b - n
      BY <1>3, <1>n, <2>2 DEF NoRepeat
    <3> QED
      BY <1>3, <2>2, <3>1
  <2>3. CASE a \in 1 .. n /\ b \notin 1 .. n
    BY <1>3, <1>6, <2>3
  <2>4. CASE a \notin 1 .. n /\ b \in 1 .. n
    BY <1>3, <1>6, <2>4
  <2> QED
    BY <2>1, <2>2, <2>3, <2>4
<1> QED
  BY <1>1, <1>4, <1>5, <1>7, <1>8, <1>n DEF Joined

\* A chain is pushed in front of the list.
LEMMA OrderPushed ==
    ASSUME UsersInv, SemiLockFreeInv, OrderInv, NEW t \in Threads, ListPushed(t)
    PROVE  OrderInv'
<1>1. PICK l \in Seq(Slabs) : Ordered(l)
  BY DEF OrderInv
<1>2. PICK c \in Seq(Slabs) :
              /\ NoRepeat(c) /\ Elems(c) = OnHand(t) \ {chosen[t]}
              /\ Len(c) >= 1 /\ c[1] = new[t] /\ c[Len(c)] = tail[t]
              /\ \A i \in 1 .. Len(c) : i < Len(c) => next[c[i]] = c[i + 1]
  BY PushedOrder DEF ListPushed
<1>j. PICK j : j = c \o l
  OBVIOUS
<1>3. Elems(c) \cap Elems(l) = {}
  BY <1>1, <1>2 DEF Ordered, ListPushed
<1>4. /\ j \in Seq(Slabs) /\ Len(j) = Len(c) + Len(l)
      /\ NoRepeat(j) /\ Elems(j) = Elems(c) \cup Elems(l)
      /\ \A i \in 1 .. Len(c) : j[i] = c[i]
      /\ \A i \in 1 .. Len(l) : j[Len(c) + i] = l[i]
  <2>1. NoRepeat(c) /\ NoRepeat(l)
    BY <1>1, <1>2 DEF Ordered
  <2>2. Joined(c, l, j)
    BY ONLY <1>3, <1>j, <2>1, c \in Seq(Slabs), l \in Seq(Slabs), JoinFacts
  <2> QED
    BY <2>2 DEF Joined
<1>5. Elems(j) = FreeSet'
  BY <1>1, <1>2, <1>4 DEF Ordered, ListPushed
<1>n. PICK n, m : n = Len(c) /\ m = Len(l)
  OBVIOUS
<1>6. n \in Nat /\ m \in Nat /\ n >= 1 /\ Len(j) = n + m
  BY <1>2, <1>4, <1>n
<1>7. \A i \in 1 .. n : At(j, i) = c[i]
  <2> TAKE i \in 1 .. n
  <2>1. i <= Len(j)
    BY <1>6
  <2> QED
    BY <1>4, <1>n, <2>1 DEF At
<1>8. \A i \in Nat : i >= 1 => At(j, n + i) = At(l, i)
  <2> SUFFICES ASSUME NEW i \in Nat, i >= 1 PROVE At(j, n + i) = At(l, i)
    OBVIOUS
  <2>1. n + i <= Len(j) <=> i <= Len(l)
    BY <1>6, <1>n
  <2>2. i <= Len(l) => i \in 1 .. Len(l)
    OBVIOUS
  <2> QED
    BY <1>4, <1>n, <2>1, <2>2 DEF At
<1>9. head'.node = At(j, 1)
  <2>1. 1 \in 1 .. n
    BY <1>6
  <2> QED
    BY <1>2, <1>7, <2>1 DEF ListPushed
<1>10. ASSUME NEW i \in 1 .. n PROVE next[j[i]] = At(j, i + 1)
  <2>1. j[i] = c[i]
    BY <1>4, <1>n
  <2>2. CASE i < n
    <3>1. i + 1 \in 1 .. n
      BY <1>6, <2>2
    <3>2. next[c[i]] = c[i + 1]
      BY <1>2, <1>n, <2>2
    <3> QED
      BY <1>7, <2>1, <3>1, <3>2
  <2>3. CASE i = n
    <3>1. next[c[i]] = head.node
      BY <1>2, <1>n, <2>3 DEF ListPushed
    <3>2. head.node = At(l, 1)
      BY <1>1 DEF Ordered
    <3>3. At(j, n + 1) = At(l, 1)
      BY <1>8
    <3> QED
      BY <2>1, <2>3, <3>1, <3>2, <3>3
  <2>4. i < n \/ i = n
    BY <1>6
  <2> QED
    BY <2>2, <2>3, <2>4
<1>11. ASSUME NEW i \in 1 .. m PROVE next[j[n + i]] = At(j, n + (i + 1))
  <2>1. j[n + i] = l[i]
    BY <1>4, <1>n
  <2>2. next[l[i]] = At(l, i + 1)
    BY <1>1, <1>n DEF Ordered
  <2>3. At(j, n + (i + 1)) = At(l, i + 1)
    BY <1>8
  <2> QED
    BY <2>1, <2>2, <2>3
<1>12. ASSUME NEW i \in 1 .. Len(j) PROVE next[j[i]] = At(j, i + 1)
  <2>1. CASE i \in 1 .. n
    BY <1>10, <2>1
  <2>2. CASE i \notin 1 .. n
    <3>k. PICK k : k = i - n
      OBVIOUS
    <3>1. k \in 1 .. m /\ n + k = i /\ n + (k + 1) = i + 1
      BY <1>6, <2>2, <3>k
    <3> QED
      BY <1>11, <3>1
  <2> QED
    BY <2>1, <2>2
<1>13. \A i \in 1 .. Len(j) : next'[j[i]] = next[j[i]]
  <2>1. \A i \in 1 .. Len(j) : j[i] \in FreeSet'
    BY <1>5 DEF Elems
  <2> QED
    BY <2>1 DEF ListPushed
<1>14. Ordered(j)'
  BY <1>4, <1>5, <1>9, <1>12, <1>13 DEF Ordered
<1> QED
  BY <1>4, <1>14 DEF OrderInv

\* Induction over the numbers, for a set of them.
LEMMA NumberInduction ==
    ASSUME NEW T, 0 \in T, \A n \in Nat : n \in T => n + 1 \in T
    PROVE  Nat \subseteq T
<1> DEFINE Bad == {n \in Nat : n \notin T}
<1>1. SUFFICES ASSUME Bad # {} PROVE FALSE
  OBVIOUS
<1>2. PICK n \in Bad : \A m \in Bad : ~ (<<m, n>> \in OpToRel(<, Nat))
  <2>1. Bad \subseteq Nat
    OBVIOUS
  <2> HIDE DEF Bad
  <2> QED
    BY <1>1, <2>1, NatLessThanWellFounded, WFMin
<1>3. n \in Nat /\ n \notin T /\ n # 0
  BY <1>2, Zenon
<1>4. n - 1 \in Nat /\ n - 1 < n /\ (n - 1) + 1 = n
  BY <1>3
<1>5. n - 1 \notin Bad
  BY <1>2, <1>3, <1>4 DEF OpToRel
<1>6. n - 1 \in T
  BY <1>4, <1>5
<1> QED
  BY <1>3, <1>4, <1>6

\* The first state has no free slab.
LEMMA OrderInit ==
    ASSUME Init
    PROVE  OrderInv
<1>0. /\ chunks = 0 /\ head = [node |-> Null, tag |-> 0]
  BY SlabNames DEF Init, SemiLockFree!Init
<1>1. FreeSet = {}
  <2>1. \A s \in Slabs : s[1] \in Nat /\ s[1] >= 1
    BY SlabAssumption DEF Slabs, SlabAssumption
  <2> QED
    BY <1>0, <2>1 DEF FreeSet
<1>l. PICK l : l = <<>>
  OBVIOUS
<1>2. l \in Seq(Slabs) /\ Len(l) = 0
  BY <1>l
<1>3. 1 .. Len(l) = {} /\ ~ (1 <= Len(l))
  BY <1>2
<1>4. NoRepeat(l) /\ Elems(l) = {}
  BY <1>3 DEF NoRepeat, Elems
<1>5. Ordered(l)
  BY <1>0, <1>1, <1>3, <1>4 DEF Ordered, At
<1> QED
  BY <1>2, <1>5 DEF OrderInv

\* The number of slabs is a number, and no list without repetitions is longer.
LEMMA SlabNumber ==
    /\ IsFiniteSet(Slabs)
    /\ Cardinality(Slabs) = MaxChunks * SlabsPerChunk
    /\ Cardinality(Slabs) \in Nat
    /\ \A l \in Seq(Slabs) : NoRepeat(l) => Len(l) <= Cardinality(Slabs)
<1>0. MaxChunks \in Nat /\ SlabsPerChunk \in Nat
  BY SlabAssumption DEF SlabAssumption
<1>1. /\ IsFiniteSet(1 .. MaxChunks) /\ IsFiniteSet(1 .. SlabsPerChunk)
      /\ Cardinality(1 .. MaxChunks) = MaxChunks
      /\ Cardinality(1 .. SlabsPerChunk) = SlabsPerChunk
  BY <1>0, FS_Interval
<1>2. /\ IsFiniteSet(Slabs)
      /\ Cardinality(Slabs) = MaxChunks * SlabsPerChunk
  <2>p. PICK a, b : a = 1 .. MaxChunks /\ b = 1 .. SlabsPerChunk
    OBVIOUS
  <2>1. /\ IsFiniteSet(a \X b)
        /\ Cardinality(a \X b) = Cardinality(a) * Cardinality(b)
    BY ONLY <1>1, <2>p, FS_Product
  <2> QED
    BY ONLY <1>1, <2>1, <2>p DEF Slabs
<1>3. Cardinality(Slabs) \in Nat
  BY <1>2, FS_CardinalityType
<1>4. ASSUME NEW l \in Seq(Slabs), NoRepeat(l)
      PROVE  Len(l) <= Cardinality(Slabs)
  <2>1. l \in [1 .. Len(l) -> Slabs] /\ Len(l) \in Nat
    OBVIOUS
  <2>2. l \in Injection(1 .. Len(l), Slabs)
    BY <1>4, <2>1 DEF Injection, IsInjective, NoRepeat
  <2>3. Cardinality(1 .. Len(l)) <= Cardinality(Slabs)
    BY <1>2, <2>2, FS_Injection
  <2>n. PICK n : n = Len(l)
    OBVIOUS
  <2>4. Cardinality(1 .. n) = n
    <3>0. n \in Nat /\ n \in Int /\ 1 \in Int
      BY <2>1, <2>n
    <3>1. Cardinality(1 .. n) = IF 1 > n THEN 0 ELSE n - 1 + 1
      BY ONLY <3>0, FS_Interval
    <3> QED
      BY ONLY <3>0, <3>1
  <2> QED
    BY <2>3, <2>4, <2>n
<1> QED
  BY <1>2, <1>3, <1>4

\* Following the links from the head visits l and then stays at Null.
IsReached(f) ==
    f = [k \in 0 .. Cardinality(Slabs) |->
           IF k = 0 THEN head.node
           ELSE IF f[k - 1] \in Slabs THEN next[f[k - 1]] ELSE f[k - 1]]

LEMMA ReachedInOrder ==
    ASSUME NEW l \in Seq(Slabs), Ordered(l)
    PROVE  SemiLockFree!Reached =
              [k \in 0 .. Cardinality(Slabs) |-> At(l, k + 1)]
<1>n. PICK n : n = Cardinality(Slabs)
  OBVIOUS
<1>0. n \in Nat /\ Len(l) \in Nat
  BY <1>n, SlabNumber
<1>1. SemiLockFree!Reached = CHOOSE f : IsReached(f)
  BY SlabNames, SameCardinality DEF SemiLockFree!Reached, IsReached
<1>2. ASSUME NEW k \in 1 .. n
      PROVE  At(l, k + 1) =
                IF At(l, k) \in Slabs THEN next[At(l, k)] ELSE At(l, k)
  <2>1. CASE k <= Len(l)
    <3>1. k \in 1 .. Len(l)
      BY <1>0, <2>1
    <3>2. At(l, k) = l[k] /\ l[k] \in Slabs
      BY <2>1, <3>1 DEF At
    <3>3. next[l[k]] = At(l, k + 1)
      BY <3>1 DEF Ordered
    <3> QED
      BY <3>2, <3>3
  <2>2. CASE ~ (k <= Len(l))
    <3>1. ~ (k + 1 <= Len(l))
      BY <1>0, <2>2
    <3> QED
      BY <2>2, <3>1, SlabNames DEF At
  <2> QED
    BY <2>1, <2>2
<1>g. PICK g : g = [k \in 0 .. n |-> At(l, k + 1)]
  OBVIOUS
<1>3. \A k \in 0 .. n : g[k] = At(l, k + 1)
  BY <1>g
<1>4. /\ \A k \in 0 .. n : k # 0 => k \in 1 .. n /\ k - 1 \in 0 .. n
                                   /\ (k - 1) + 1 = k
      /\ 0 \in 0 .. n /\ 0 + 1 = 1
  BY <1>0
<1>5. g[0] = head.node
  BY <1>3, <1>4 DEF Ordered
<1>6. \A k \in 0 .. n : k # 0 => g[k - 1] = At(l, k)
  BY <1>3, <1>4
<1>7. \A k \in 0 .. n :
         g[k] = IF k = 0 THEN head.node
                ELSE IF g[k - 1] \in Slabs THEN next[g[k - 1]] ELSE g[k - 1]
  BY <1>2, <1>3, <1>4, <1>5, <1>6
<1>8. g = [k \in 0 .. n |-> g[k]]
  BY <1>g
<1>9. IsReached(g)
  <2>1. g = [k \in 0 .. n |->
               IF k = 0 THEN head.node
               ELSE IF g[k - 1] \in Slabs THEN next[g[k - 1]] ELSE g[k - 1]]
    BY <1>7, <1>8
  <2> QED
    BY <1>n, <2>1 DEF IsReached
<1>r. PICK r : r = CHOOSE f : IsReached(f)
  OBVIOUS
<1>10. IsReached(r)
  BY <1>9, <1>r
<1>11. r = [k \in 0 .. n |->
              IF k = 0 THEN head.node
              ELSE IF r[k - 1] \in Slabs THEN next[r[k - 1]] ELSE r[k - 1]]
  BY <1>10, <1>n DEF IsReached
<1>12. \A k \in 0 .. n :
         r[k] = IF k = 0 THEN head.node
                ELSE IF r[k - 1] \in Slabs THEN next[r[k - 1]] ELSE r[k - 1]
  BY <1>11, Zenon
<1> DEFINE T == {k \in Nat : k \in 0 .. n => r[k] = g[k]}
<1>13. 0 \in T
  BY <1>4, <1>5, <1>12
<1>14. ASSUME NEW k \in T, k + 1 \in 0 .. n PROVE r[k + 1] = g[k + 1]
  <2>1. k \in 0 .. n /\ k + 1 # 0 /\ (k + 1) - 1 = k
    BY <1>0, <1>14
  <2>2. r[k] = g[k]
    BY <2>1
  <2> HIDE DEF T
  <2>3. r[k + 1] = IF r[k] \in Slabs THEN next[r[k]] ELSE r[k]
    BY <1>12, <1>14, <2>1
  <2>4. g[k + 1] = IF g[k] \in Slabs THEN next[g[k]] ELSE g[k]
    BY <1>7, <1>14, <2>1
  <2> QED
    BY <2>2, <2>3, <2>4
<1>15. \A k \in Nat : k \in T => k + 1 \in T
  BY <1>14
<1>16. Nat \subseteq T
  <2> HIDE DEF T
  <2> QED
    BY <1>13, <1>15, NumberInduction
<1>17. \A k \in 0 .. n : r[k] = g[k]
  BY <1>16
<1>18. r = [k \in 0 .. n |-> r[k]]
  BY <1>11, Zenon
<1>19. r = g
  BY <1>8, <1>17, <1>18
<1> QED
  BY <1>1, <1>19, <1>g, <1>n, <1>r

\* So the model's free slabs are the free set, and the list ends.
LEMMA FreeSlabsAreFree ==
    ASSUME OrderInv
    PROVE  /\ SemiLockFree!FreeSlabs = FreeSet
           /\ SemiLockFree!Reached[SemiLockFree!Cardinality(SemiLockFree!Slabs)]
                = Null
<1>1. PICK l \in Seq(Slabs) : Ordered(l)
  BY DEF OrderInv
<1>n. PICK n : n = Cardinality(Slabs)
  OBVIOUS
<1>r. PICK r : r = SemiLockFree!Reached
  OBVIOUS
<1>2. r = [k \in 0 .. n |-> At(l, k + 1)]
  BY <1>1, <1>n, <1>r, ReachedInOrder
<1>3. n \in Nat /\ Len(l) \in Nat /\ Len(l) <= n
  BY <1>1, <1>n, SlabNumber DEF Ordered
<1>4. SemiLockFree!FreeSlabs = {r[k] : k \in DOMAIN r} \cap Slabs
  BY <1>r, SlabNames DEF SemiLockFree!FreeSlabs
<1>5. SemiLockFree!FreeSlabs = {At(l, k + 1) : k \in 0 .. n} \cap Slabs
  BY <1>2, <1>4
<1>6. {At(l, k + 1) : k \in 0 .. n} \cap Slabs = Elems(l)
  <2>1. ASSUME NEW k \in 0 .. n, At(l, k + 1) \in Slabs
        PROVE  At(l, k + 1) \in Elems(l)
    <3>1. k + 1 <= Len(l)
      BY <2>1, SlabNames DEF At
    <3>2. k + 1 \in 1 .. Len(l)
      BY <1>3, <3>1
    <3> QED
      BY <3>1, <3>2 DEF At, Elems
  <2>2. ASSUME NEW i \in 1 .. Len(l)
        PROVE  l[i] \in Slabs /\ \E k \in 0 .. n : l[i] = At(l, k + 1)
    <3>1. i - 1 \in 0 .. n /\ (i - 1) + 1 = i /\ i <= Len(l)
      BY <1>3
    <3>2. At(l, (i - 1) + 1) = l[i]
      BY <3>1 DEF At
    <3> QED
      BY <3>1, <3>2
  <2> QED
    BY <2>1, <2>2 DEF Elems
<1>7. SemiLockFree!FreeSlabs = FreeSet
  BY <1>1, <1>5, <1>6 DEF Ordered
<1>8. r[n] = Null
  <2>1. n \in 0 .. n /\ ~ (n + 1 <= Len(l))
    BY <1>3
  <2> QED
    BY <1>2, <2>1 DEF At
<1>9. SemiLockFree!Cardinality(SemiLockFree!Slabs) = n
  BY <1>n, SlabNames, SameCardinality
<1> QED
  BY <1>7, <1>8, <1>9, <1>r

\* Every slab of a chunk is free, on the hands of one thread, or in use.
LEMMA SemiLockFreeAccounts ==
    ASSUME UsersInv, SemiLockFreeInv, OrderInv
    PROVE  SemiLockFree!SlabsAccountedFor
<1>1. ASSUME NEW s \in Slabs
      PROVE  (IF s \in FreeSet THEN 1 ELSE 0)
               + Cardinality({t \in Threads : s \in OnHand(t)})
               + users[s] = (IF s[1] <= chunks THEN 1 ELSE 0)
  <2>h. PICK h : h = {t \in Threads : s \in OnHand(t)}
    OBVIOUS
  <2>1. users[s] \in 0 .. 1 /\ (users[s] > 0 => s[1] <= chunks)
    BY DEF UsersInv
  <2>2. s \in FreeSet <=> s[1] <= chunks /\ users[s] = 0 /\ h = {}
    BY <2>h DEF FreeSet
  <2>3. h = {} => Cardinality(h) = 0
    BY FS_EmptySet
  <2>4. ASSUME NEW t \in h
        PROVE  Cardinality(h) = 1 /\ s[1] <= chunks /\ users[s] = 0
    <3>1. t \in Threads /\ s \in OnHand(t)
      BY <2>h
    <3>2. /\ s[1] <= chunks /\ users[s] = 0
          /\ \A u \in Threads : s \in OnHand(u) => u = t
      BY <3>1 DEF SemiLockFreeInv, HandInv
    <3>3. h = {t}
      BY <2>h, <3>1, <3>2
    <3> QED
      BY <3>2, <3>3, FS_Singleton
  <2>5. h # {} => Cardinality(h) = 1 /\ s[1] <= chunks /\ users[s] = 0
    BY <2>4
  <2>u. PICK u : u = users[s]
    OBVIOUS
  <2>c. PICK c : c = Cardinality(h)
    OBVIOUS
  <2>6. (IF s \in FreeSet THEN 1 ELSE 0) + c + u
           = (IF s[1] <= chunks THEN 1 ELSE 0)
    BY <2>1, <2>2, <2>3, <2>5, <2>c, <2>u
  <2> QED
    BY <2>6, <2>c, <2>h, <2>u
<1>2. /\ SemiLockFree!FreeSlabs = FreeSet
      /\ SemiLockFree!Reached[SemiLockFree!Cardinality(SemiLockFree!Slabs)]
           = SemiLockFree!Null
  BY FreeSlabsAreFree, SlabNames
<1>3. \A s \in SemiLockFree!Slabs :
         (IF s \in SemiLockFree!FreeSlabs THEN 1 ELSE 0)
           + SemiLockFree!Cardinality(
                {t \in Threads : s \in SemiLockFree!OnHand(t)})
           + users[s] = (IF s[1] <= chunks THEN 1 ELSE 0)
  BY <1>1, <1>2, SlabNames, SameCardinality DEF OnHand
<1> QED
  BY <1>2, <1>3, Zenon DEF SemiLockFree!SlabsAccountedFor

-----------------------------------------------------------------------------
(* The strings' slabs *)

\* The slabs of a small string's class are large enough for it and for a link,
\* and not larger than the largest small string: although the class is not the
\* exponent, the shift brings the exponent back.
LEMMA ShiftFacts ==
    ASSUME NEW n \in Nat, n <= 2048, NEW z, z = String!Shift(String!ClassOf(n))
    PROVE  z \in Nat /\ z >= 8 /\ n <= z /\ z <= 2048
<1>m. PICK m : m = (IF n < 32 THEN 32 ELSE n) - 1
  OBVIOUS
<1>1. m \in 31 .. 2047 /\ n <= m + 1
  BY <1>m
<1>2. /\ 2 ^ 0 = 1 /\ 2 ^ 1 = 2 /\ 2 ^ 2 = 4 /\ 2 ^ 3 = 8 /\ 2 ^ 4 = 16
      /\ 2 ^ 5 = 32 /\ 2 ^ 6 = 64 /\ 2 ^ 7 = 128 /\ 2 ^ 8 = 256 /\ 2 ^ 9 = 512
      /\ 2 ^ 10 = 1024 /\ 2 ^ 11 = 2048
  OBVIOUS
<1>h. PICK h : h = 64
  OBVIOUS
<1>p. PICK p : p = [k \in 0 .. h |-> 2 ^ k]
  BY ONLY Zenon
<1>3. \A k \in 0 .. 64 : p[k] = 2 ^ k
  <2>1. \A k \in 0 .. h : p[k] = 2 ^ k
    BY ONLY <1>p, Zenon
  <2> QED
    BY ONLY <1>h, <2>1, Zenon
<1>4. /\ p[0] = 1 /\ p[1] = 2 /\ p[2] = 4 /\ p[3] = 8 /\ p[4] = 16
      /\ p[5] = 32 /\ p[6] = 64 /\ p[7] = 128 /\ p[8] = 256 /\ p[9] = 512
      /\ p[10] = 1024 /\ p[11] = 2048
  BY <1>2, <1>3
<1>5. \E k \in 5 .. 11 : m < p[k] /\ \A a \in 0 .. k - 1 : p[a] <= m
  <2>1. CASE m < 32
    <3>1. m < p[5] /\ \A a \in 0 .. 5 - 1 : p[a] <= m
      BY <1>1, <1>4, <2>1, SMTT(40)
    <3> QED
      BY <3>1
  <2>2. CASE 32 <= m /\ m < 64
    <3>1. m < p[6] /\ \A a \in 0 .. 6 - 1 : p[a] <= m
      BY <1>1, <1>4, <2>2
    <3> QED
      BY <3>1
  <2>3. CASE 64 <= m /\ m < 128
    <3>1. m < p[7] /\ \A a \in 0 .. 7 - 1 : p[a] <= m
      BY <1>1, <1>4, <2>3
    <3> QED
      BY <3>1
  <2>4. CASE 128 <= m /\ m < 256
    <3>1. m < p[8] /\ \A a \in 0 .. 8 - 1 : p[a] <= m
      BY <1>1, <1>4, <2>4
    <3> QED
      BY <3>1
  <2>5. CASE 256 <= m /\ m < 512
    <3>1. m < p[9] /\ \A a \in 0 .. 9 - 1 : p[a] <= m
      BY <1>1, <1>4, <2>5
    <3> QED
      BY <3>1
  <2>6. CASE 512 <= m /\ m < 1024
    <3>1. m < p[10] /\ \A a \in 0 .. 10 - 1 : p[a] <= m
      BY <1>1, <1>4, <2>6
    <3> QED
      BY <3>1
  <2>7. CASE 1024 <= m /\ m < 2048
    <3>1. m < p[11] /\ \A a \in 0 .. 11 - 1 : p[a] <= m
      BY <1>1, <1>4, <2>7
    <3> QED
      BY <3>1
  <2> QED
    BY <1>1, <2>1, <2>2, <2>3, <2>4, <2>5, <2>6, <2>7, SMTT(40)
<1>b. PICK b : b = String!BitLength(m)
  OBVIOUS
<1>6. b \in 0 .. 64 /\ m < p[b] /\ \A a \in 0 .. b - 1 : p[a] <= m
  <2>1. PICK k \in 5 .. 11 : m < p[k] /\ \A a \in 0 .. k - 1 : p[a] <= m
    BY <1>5
  <2>2. \A i \in 0 .. 64 : \A a \in 0 .. i - 1 : a \in 0 .. 64
    OBVIOUS
  <2>3. k \in 0 .. 64
    OBVIOUS
  <2>4. m < 2 ^ k /\ \A a \in 0 .. k - 1 : 2 ^ a <= m
    BY ONLY <1>3, <2>1, <2>2, <2>3, Zenon
  <2>5. b = CHOOSE i \in 0 .. 64 :
               m < 2 ^ i /\ \A a \in 0 .. i - 1 : 2 ^ a <= m
    BY ONLY <1>b, Zenon DEF String!BitLength
  <2>6. b \in 0 .. 64 /\ m < 2 ^ b /\ \A a \in 0 .. b - 1 : 2 ^ a <= m
    BY ONLY <2>3, <2>4, <2>5, Zenon
  <2> QED
    BY ONLY <1>3, <2>2, <2>6, Zenon
<1>7. b \in 5 .. 11
  <2>1. b \notin 0 .. 4
    <3>1. \A k \in 0 .. 4 : k = 0 \/ k = 1 \/ k = 2 \/ k = 3 \/ k = 4
      BY ONLY TRUE
    <3>2. ~(m < p[0]) /\ ~(m < p[1]) /\ ~(m < p[2]) /\ ~(m < p[3]) /\ ~(m < p[4])
      BY ONLY <1>1, <1>4
    <3> QED
      BY ONLY <1>6, <3>1, <3>2
  <2>2. ~ (b > 11)
    <3>1. ASSUME b > 11 PROVE FALSE
      <4>1. 11 \in 0 .. b - 1
        BY <1>6, <3>1
      <4>2. p[11] <= m
        BY <1>6, <4>1
      <4> QED
        BY <1>1, <1>4, <4>2, SMTT(40)
    <3> QED
      BY <3>1
  <2> QED
    BY <1>6, <2>1, <2>2
<1>c. PICK c : c = String!ClassOf(n)
  OBVIOUS
<1>8. c = 32 - (64 - b)
  BY <1>b, <1>c, <1>m DEF String!ClassOf, String!GetNextPowerOf2,
        String!CountLeadingZeros, String!SmallestSize
<1>9. c % 32 = b
  <2>1. \A i \in 5 .. 11 : (32 - (64 - i)) % 32 = i
    OBVIOUS
  <2> QED
    BY <1>7, <1>8, <2>1
<1>10. z = p[b]
  <2>1. z = 2 ^ b
    BY ONLY <1>9, <1>c, z = String!Shift(String!ClassOf(n)), Zenon
       DEF String!Shift
  <2> QED
    BY ONLY <1>3, <1>6, <2>1, Zenon
<1>11. z \in {32, 64, 128, 256, 512, 1024, 2048}
  BY <1>4, <1>7, <1>10
<1>12. m < z
  BY <1>6, <1>10
<1> QED
  BY <1>1, <1>11, <1>12

\* The places that a chunk of class c is cut into.
Number(c) == ChunkSize \div String!Shift(c)
Slots(c) ==
    {<<a, k * String!Shift(c)>> :
       a \in 1 .. MaxChunks, k \in 0 .. Number(c) - 1}
Places == (1 .. MaxChunks) \X Nat
Blocks == [place : Places \cup {<<0, 0>>, <<-1, 0>>}, size : Nat]

\* Block i is a small string's.
Small(i) == live[i] # String!NoBlock /\ live[i].size <= 2048
ClassAt(i) == String!ClassOf(live[i].size)

\* kind says which class a chunk was cut for.  The free slabs of a class and the
\* places of its strings are different slots of chunks of that kind.
Cut(kind) ==
    /\ \A c \in String!Classes :
          /\ lists[c] \in Seq(Slots(c)) /\ NoRepeat(lists[c])
          /\ \A p \in Elems(lists[c]) : p[1] <= chunks /\ kind[p[1]] = c
    /\ \A i \in 1 .. MaxStringCalls : Small(i) =>
          /\ live[i].size \in Sizes
          /\ live[i].place \in Slots(ClassAt(i))
          /\ live[i].place[1] <= chunks
          /\ kind[live[i].place[1]] = ClassAt(i)
          /\ live[i].place \notin Elems(lists[ClassAt(i)])
          /\ \A j \in 1 .. MaxStringCalls :
                Small(j) /\ j # i => live[j].place # live[i].place

StringInv ==
    /\ chunks \in 0 .. MaxChunks /\ calls \in 0 .. MaxStringCalls
    /\ live \in [1 .. MaxStringCalls -> Blocks]
    /\ lists \in [String!Classes -> Seq(Places)]
    /\ outcome \in {"ok", "corrupted"}
    /\ \E kind : Cut(kind)

\* Facts about the constants, and the model's own names.
LEMMA StringNames ==
    /\ MaxChunks \in Nat /\ MaxStringCalls \in Nat
    /\ ChunkSize \in Nat /\ ChunkSize >= 2048 /\ Sizes \subseteq Nat
    /\ String!LargestSize = 2048
    /\ String!NoBlock = [place |-> <<0, 0>>, size |-> 0]
    /\ String!Heap = <<-1, 0>>
<1>1. /\ MaxChunks \in Nat /\ MaxStringCalls \in Nat
      /\ ChunkSize \in Nat /\ ChunkSize >= 2048 /\ Sizes \subseteq Nat
  BY SlabAssumption DEF SlabAssumption
<1> QED
  BY <1>1 DEF String!LargestSize, String!NoBlock, String!Heap

\* The class of a small size, and its slots.
LEMMA ClassFacts ==
    ASSUME NEW n \in Sizes, n <= 2048, NEW c, c = String!ClassOf(n)
    PROVE  /\ c \in String!Classes
           /\ String!Shift(c) \in Nat /\ String!Shift(c) >= 8
           /\ n <= String!Shift(c)
           /\ Number(c) \in Nat /\ Number(c) >= 1
           /\ Number(c) * String!Shift(c) <= ChunkSize
<1>1. n \in Nat /\ ChunkSize \in Nat /\ ChunkSize >= 2048
  BY StringNames
<1>2. c \in String!Classes
  BY StringNames DEF String!Classes
<1>z. PICK z : z = String!Shift(c)
  OBVIOUS
<1>3. z \in Nat /\ z >= 8 /\ n <= z /\ z <= 2048
  BY ONLY <1>1, <1>z, n <= 2048, c = String!ClassOf(n), ShiftFacts
<1>q. PICK q : q = ChunkSize \div z
  OBVIOUS
<1>4. q \in Nat /\ q * z <= ChunkSize
  BY <1>1, <1>3, <1>q
<1>5. q >= 1
  <2>1. \A a, b \in Nat : b > 0 /\ a >= b => a \div b >= 1
    OBVIOUS
  <2>2. z > 0 /\ ChunkSize >= z
    BY <1>1, <1>3
  <2> QED
    BY <1>1, <1>3, <1>q, <2>1, <2>2
<1>6. Number(c) = q
  BY <1>q, <1>z DEF Number
<1> QED
  BY <1>2, <1>3, <1>4, <1>5, <1>6, <1>z

\* A slot is a place.
LEMMA SlotFacts ==
    ASSUME NEW n \in Sizes, n <= 2048, NEW c, c = String!ClassOf(n),
           NEW p \in Slots(c)
    PROVE  /\ p \in Places
           /\ \E k \in 0 .. Number(c) - 1 : p = <<p[1], k * String!Shift(c)>>
<1>1. PICK a \in 1 .. MaxChunks, k \in 0 .. Number(c) - 1 :
         p = <<a, k * String!Shift(c)>>
  BY DEF Slots
<1>2. String!Shift(c) \in Nat /\ Number(c) \in Nat
  BY ClassFacts
<1>3. k * String!Shift(c) \in Nat
  BY <1>2
<1> QED
  BY <1>1, <1>3 DEF Places

\* Two different slots of a chunk of class c are that many bytes apart.
LEMMA SlotsApart ==
    ASSUME NEW n \in Sizes, n <= 2048, NEW c, c = String!ClassOf(n),
           NEW p \in Slots(c), NEW q \in Slots(c), p # q, p[1] = q[1]
    PROVE  \/ p[2] + String!Shift(c) <= q[2]
           \/ q[2] + String!Shift(c) <= p[2]
<1>z. PICK z : z = String!Shift(c)
  OBVIOUS
<1>1. z \in Nat /\ Number(c) \in Nat
  BY <1>z, ClassFacts
<1>2. PICK k \in 0 .. Number(c) - 1 : p = <<p[1], k * z>>
  BY <1>z, SlotFacts
<1>3. PICK m \in 0 .. Number(c) - 1 : q = <<q[1], m * z>>
  BY <1>z, SlotFacts
<1>4. k \in Nat /\ m \in Nat /\ k # m
  BY <1>1, <1>2, <1>3
<1>5. \A a, b \in Nat : a < b => a * z + z <= b * z
  BY <1>1
<1>6. k * z + z <= m * z \/ m * z + z <= k * z
  BY <1>4, <1>5
<1>7. p[2] = k * z /\ q[2] = m * z
  BY <1>2, <1>3
<1> QED
  BY <1>6, <1>7, <1>z

\* A slot is inside its chunk.
LEMMA SlotInside ==
    ASSUME NEW n \in Sizes, n <= 2048, NEW c, c = String!ClassOf(n),
           NEW p \in Slots(c)
    PROVE  p[1] \in 1 .. MaxChunks /\ p[2] \in Nat /\ p[2] + n <= ChunkSize
<1>z. PICK z : z = String!Shift(c)
  OBVIOUS
<1>N. PICK N : N = Number(c)
  OBVIOUS
<1>1. z \in Nat /\ N \in Nat /\ n <= z /\ N * z <= ChunkSize
  BY <1>N, <1>z, ClassFacts
<1>2. PICK k \in 0 .. N - 1 : p = <<p[1], k * z>>
  BY <1>N, <1>z, SlotFacts
<1>3. p \in Places
  BY SlotFacts
<1>4. \A a, b \in Nat : a < b => a * z + z <= b * z
  BY <1>1
<1>5. k \in Nat /\ k < N
  BY <1>1
<1>y. PICK y : y = k * z
  OBVIOUS
<1>x. PICK x : x = N * z
  OBVIOUS
<1>6. y + z <= x /\ x <= ChunkSize /\ y \in Nat /\ x \in Nat
  BY <1>1, <1>4, <1>5, <1>x, <1>y
<1>7. p[2] = y
  BY <1>2, <1>y
<1>8. n \in Nat /\ ChunkSize \in Nat
  BY StringNames
<1>9. y + n <= ChunkSize
  BY ONLY <1>1, <1>6, <1>8
<1> QED
  BY <1>3, <1>6, <1>7, <1>9 DEF Places

\* What the cut says about one small string.
LEMMA SmallFacts ==
    ASSUME NEW kind, Cut(kind), NEW i \in 1 .. MaxStringCalls, Small(i)
    PROVE  /\ live[i].size \in Sizes /\ live[i].size <= 2048
           /\ ClassAt(i) = String!ClassOf(live[i].size)
           /\ ClassAt(i) \in String!Classes
           /\ live[i].place \in Slots(ClassAt(i))
           /\ live[i].place[1] <= chunks
           /\ kind[live[i].place[1]] = ClassAt(i)
           /\ live[i].place \notin Elems(lists[ClassAt(i)])
<1>1. live[i].size \in Sizes /\ live[i].size <= 2048
  BY DEF Cut, Small
<1>2. ClassAt(i) \in String!Classes
  BY <1>1, ClassFacts, SMTT(40) DEF ClassAt
<1> QED
  BY <1>1, <1>2 DEF Cut, ClassAt

\* Strings and free slabs do not overlap, because they are different slots of
\* chunks of one kind, or in different chunks.
LEMMA CutIsDisjoint ==
    ASSUME StringInv
    PROVE  String!StringsDisjoint
<1>1. PICK kind : Cut(kind)
  BY DEF StringInv
<1>2. DOMAIN live = 1 .. MaxStringCalls
  BY DEF StringInv
<1>3. ASSUME NEW i \in DOMAIN live, live[i].size \in 1 .. 2048
      PROVE  i \in 1 .. MaxStringCalls /\ Small(i)
  <2>n. PICK n : n = live[i].size
    OBVIOUS
  <2>0. n \in 1 .. 2048
    BY <1>3, <2>n
  <2>2. n # 0 /\ n <= 2048
    BY <2>0
  <2>1. live[i].size # 0 /\ live[i].size <= 2048
    BY <2>n, <2>2
  <2> QED
    BY <1>2, <2>1, StringNames DEF Small
<1>4. chunks \in Nat /\ MaxChunks \in Nat
  BY StringNames DEF StringInv
<1>5. ASSUME NEW i \in 1 .. MaxStringCalls, Small(i)
      PROVE  /\ live[i].place[1] \in 1 .. chunks
             /\ live[i].place[2] + live[i].size <= ChunkSize
  <2>1. /\ live[i].size \in Sizes /\ live[i].size <= 2048
        /\ ClassAt(i) = String!ClassOf(live[i].size)
        /\ live[i].place \in Slots(ClassAt(i))
        /\ live[i].place[1] <= chunks
    BY <1>1, <1>5, SmallFacts
  <2>p. PICK p, n, c : p = live[i].place /\ n = live[i].size /\ c = ClassAt(i)
    OBVIOUS
  <2>2. p[1] \in 1 .. MaxChunks /\ p[2] \in Nat /\ p[2] + n <= ChunkSize
    BY ONLY <2>1, <2>p, SlotInside
  <2>3. p[1] \in 1 .. chunks
    BY <1>4, <2>1, <2>2, <2>p
  <2> QED
    BY <2>2, <2>3, <2>p
<1>6. ASSUME NEW i \in 1 .. MaxStringCalls, Small(i), NEW p, NEW n,
             p = live[i].place, n = live[i].size,
             NEW q \in Slots(ClassAt(i)), q # p, NEW m \in Nat,
             m <= String!Shift(ClassAt(i))
      PROVE  p[1] # q[1] \/ p[2] + n <= q[2] \/ q[2] + m <= p[2]
  <2>1. /\ n \in Sizes /\ n <= 2048
        /\ ClassAt(i) = String!ClassOf(n)
        /\ p \in Slots(ClassAt(i))
    BY <1>1, <1>6, SmallFacts
  <2>z. PICK z, c : z = String!Shift(c) /\ c = ClassAt(i)
    OBVIOUS
  <2>2. n \in Nat /\ z \in Nat /\ n <= z
    BY <2>1, <2>z, ClassFacts, StringNames
  <2>3. p[2] \in Nat /\ q[2] \in Nat
    BY <1>6, <2>1, SlotInside
  <2>4. p[1] = q[1] => p[2] + z <= q[2] \/ q[2] + z <= p[2]
    BY <1>6, <2>1, <2>z, SlotsApart
  <2>5. m <= z
    BY <1>6, <2>z
  <2> QED
    BY <1>6, <2>2, <2>3, <2>4, <2>5
<1>7. ASSUME NEW i \in 1 .. MaxStringCalls, Small(i),
             NEW j \in 1 .. MaxStringCalls, Small(j), j # i,
             NEW p, NEW n, p = live[i].place, n = live[i].size,
             NEW q, NEW m, q = live[j].place, m = live[j].size
      PROVE  p[1] # q[1] \/ p[2] + n <= q[2] \/ q[2] + m <= p[2]
  <2>1. /\ m \in Sizes /\ m <= 2048 /\ ClassAt(j) = String!ClassOf(m)
        /\ q \in Slots(ClassAt(j)) /\ kind[q[1]] = ClassAt(j)
    BY <1>1, <1>7, SmallFacts
  <2>2. kind[p[1]] = ClassAt(i)
    BY <1>1, <1>7, SmallFacts
  <2>3. q # p
    BY <1>1, <1>7 DEF Cut
  <2>4. m \in Nat /\ m <= String!Shift(ClassAt(j))
    BY <2>1, ClassFacts, StringNames
  <2>5. CASE p[1] # q[1]
    BY <2>5
  <2>6. CASE p[1] = q[1]
    <3>1. ClassAt(i) = ClassAt(j)
      BY <2>1, <2>2, <2>6
    <3> QED
      BY <1>6, <1>7, <2>1, <2>3, <2>4, <3>1
  <2> QED
    BY <2>5, <2>6
<1>8. ASSUME NEW i \in 1 .. MaxStringCalls, Small(i), NEW c \in String!Classes,
             NEW k \in DOMAIN lists[c], NEW p, NEW n,
             p = live[i].place, n = live[i].size, NEW q, q = lists[c][k]
      PROVE  p[1] # q[1] \/ p[2] + n <= q[2] \/ q[2] + 8 <= p[2]
  <2>l. PICK l : l = lists[c]
    OBVIOUS
  <2>1. l \in Seq(Slots(c)) /\ \A x \in Elems(l) : kind[x[1]] = c
    BY <1>1, <1>8, <2>l DEF Cut
  <2>2. k \in 1 .. Len(l) /\ q = l[k]
    BY <1>8, <2>1, <2>l
  <2>3. q \in Slots(c) /\ q \in Elems(l)
    BY <2>1, <2>2 DEF Elems
  <2>4. /\ kind[p[1]] = ClassAt(i) /\ p \notin Elems(lists[ClassAt(i)])
        /\ n \in Sizes /\ n <= 2048 /\ ClassAt(i) = String!ClassOf(n)
    BY <1>1, <1>8, SmallFacts
  <2>5. CASE p[1] # q[1]
    BY <2>5
  <2>6. CASE p[1] = q[1]
    <3>1. ClassAt(i) = c
      BY <2>1, <2>3, <2>4, <2>6
    <3>2. q # p
      BY <2>3, <2>4, <2>l, <3>1
    <3>3. 8 \in Nat /\ 8 <= String!Shift(ClassAt(i))
      BY <2>4, ClassFacts
    <3> QED
      BY <1>6, <1>8, <2>3, <3>1, <3>2, <3>3
  <2> QED
    BY <2>5, <2>6
<1>9. \A i \in DOMAIN live : live[i].size \in 1 .. 2048 =>
         /\ live[i].place[1] \in 1 .. chunks
         /\ live[i].place[2] + live[i].size <= ChunkSize
         /\ \A j \in DOMAIN live : live[j].size \in 1 .. 2048 /\ j # i =>
               \/ live[i].place[1] # live[j].place[1]
               \/ live[i].place[2] + live[i].size <= live[j].place[2]
               \/ live[j].place[2] + live[j].size <= live[i].place[2]
         /\ \A c \in String!Classes : \A k \in DOMAIN lists[c] :
               \/ live[i].place[1] # lists[c][k][1]
               \/ live[i].place[2] + live[i].size <= lists[c][k][2]
               \/ lists[c][k][2] + 8 <= live[i].place[2]
  <2> SUFFICES ASSUME NEW i \in DOMAIN live, live[i].size \in 1 .. 2048
      PROVE
         /\ live[i].place[1] \in 1 .. chunks
         /\ live[i].place[2] + live[i].size <= ChunkSize
         /\ \A j \in DOMAIN live : live[j].size \in 1 .. 2048 /\ j # i =>
               \/ live[i].place[1] # live[j].place[1]
               \/ live[i].place[2] + live[i].size <= live[j].place[2]
               \/ live[j].place[2] + live[j].size <= live[i].place[2]
         /\ \A c \in String!Classes : \A k \in DOMAIN lists[c] :
               \/ live[i].place[1] # lists[c][k][1]
               \/ live[i].place[2] + live[i].size <= lists[c][k][2]
               \/ lists[c][k][2] + 8 <= live[i].place[2]
    OBVIOUS
  <2>1. i \in 1 .. MaxStringCalls /\ Small(i)
    BY ONLY <1>3, i \in DOMAIN live, live[i].size \in 1 .. 2048
  <2>2. /\ live[i].place[1] \in 1 .. chunks
        /\ live[i].place[2] + live[i].size <= ChunkSize
    BY ONLY <1>5, <2>1
  <2>3. ASSUME NEW j \in DOMAIN live, live[j].size \in 1 .. 2048, j # i
        PROVE  \/ live[i].place[1] # live[j].place[1]
               \/ live[i].place[2] + live[i].size <= live[j].place[2]
               \/ live[j].place[2] + live[j].size <= live[i].place[2]
    <3>1. j \in 1 .. MaxStringCalls /\ Small(j)
      BY ONLY <1>3, j \in DOMAIN live, <2>3
    <3> QED
      BY ONLY <1>7, <2>1, <2>3, <3>1
  <2>4. ASSUME NEW c \in String!Classes, NEW k \in DOMAIN lists[c]
        PROVE  \/ live[i].place[1] # lists[c][k][1]
               \/ live[i].place[2] + live[i].size <= lists[c][k][2]
               \/ lists[c][k][2] + 8 <= live[i].place[2]
    BY ONLY <1>8, <2>1, c \in String!Classes, k \in DOMAIN lists[c], Zenon
  <2> QED
    BY ONLY <2>2, <2>3, <2>4, SMTT(40)
<1>10. String!LargestSize = 2048
  BY StringNames
<1> QED
  BY ONLY <1>9, <1>10 DEF String!StringsDisjoint

\* A slot is neither of the two places that stand for something else.
LEMMA SlotPlaces ==
    ASSUME NEW c \in String!Classes
    PROVE  /\ Slots(c) \subseteq Places
           /\ \A p \in Slots(c) : p[1] \in 1 .. MaxChunks /\ p # <<0, 0>>
<1>1. PICK n \in Sizes : n <= 2048 /\ c = String!ClassOf(n)
  BY StringNames DEF String!Classes
<1>2. ASSUME NEW p \in Slots(c)
      PROVE  p \in Places /\ p[1] \in 1 .. MaxChunks /\ p # <<0, 0>>
  <2>1. p \in Places /\ p[1] \in 1 .. MaxChunks
    BY <1>1, <1>2, SlotFacts, SlotInside
  <2>2. p # <<0, 0>>
    BY <2>1, StringNames
  <2> QED
    BY <2>1, <2>2
<1> QED
  BY <1>2

\* Nothing is allocated at the start.
LEMMA StringInit ==
    ASSUME String!Init
    PROVE  StringInv
<1>1. chunks = 0 /\ calls = 0 /\ outcome = "ok"
  BY DEF String!Init
<1>2. /\ live = [i \in 1 .. MaxStringCalls |-> String!NoBlock]
      /\ lists = [c \in String!Classes |-> <<>>]
  BY DEF String!Init
<1>3. String!NoBlock \in Blocks
  BY StringNames DEF Blocks
<1>4. /\ live \in [1 .. MaxStringCalls -> Blocks]
      /\ lists \in [String!Classes -> Seq(Places)]
  BY <1>2, <1>3
<1>5. Elems(<<>>) = {} /\ NoRepeat(<<>>)
  <2>1. Len(<<>>) = 0 /\ 1 .. 0 = {}
    OBVIOUS
  <2> QED
    BY <2>1 DEF Elems, NoRepeat
<1>6. \A c \in String!Classes : lists[c] = <<>>
  BY <1>2
<1>7. \A i \in 1 .. MaxStringCalls : ~Small(i)
  BY <1>2 DEF Small
<1>8. ASSUME NEW c \in String!Classes
      PROVE  /\ lists[c] \in Seq(Slots(c)) /\ NoRepeat(lists[c])
             /\ Elems(lists[c]) = {}
  <2>1. lists[c] = <<>>
    BY <1>6
  <2>2. <<>> \in Seq(Slots(c))
    OBVIOUS
  <2> QED
    BY ONLY <1>5, <2>1, <2>2, Zenon
<1>9. Cut(1)
  BY <1>7, <1>8 DEF Cut
<1>10. chunks \in 0 .. MaxChunks /\ calls \in 0 .. MaxStringCalls
  BY <1>1, StringNames
<1> QED
  BY <1>1, <1>4, <1>9, <1>10 DEF StringInv

\* A step that writes one block leaves the others.
LEMMA OtherBlocks ==
    ASSUME live \in [1 .. MaxStringCalls -> Blocks],
           NEW i \in 1 .. MaxStringCalls, NEW b \in Blocks,
           live' = [live EXCEPT ![i] = b]
    PROVE  /\ live' \in [1 .. MaxStringCalls -> Blocks] /\ live'[i] = b
           /\ \A j \in 1 .. MaxStringCalls : j # i =>
                 /\ live'[j] = live[j]
                 /\ Small(j)' <=> Small(j)
                 /\ ClassAt(j)' = ClassAt(j)
<1>1. /\ live' \in [1 .. MaxStringCalls -> Blocks] /\ live'[i] = b
      /\ \A j \in 1 .. MaxStringCalls : j # i => live'[j] = live[j]
  OBVIOUS
<1>2. ASSUME NEW j \in 1 .. MaxStringCalls, j # i
      PROVE  (Small(j)' <=> Small(j)) /\ ClassAt(j)' = ClassAt(j)
  <2>1. live'[j] = live[j]
    BY <1>1, <1>2
  <2> QED
    BY <2>1 DEF Small, ClassAt, String!NoBlock
<1> QED
  BY <1>1, <1>2

\* The chunks of the slabs in f are of kind c, the old chunks of the kind
\* they were of.
KindsAfter(kinds, kind, f, c) ==
    /\ \A p \in Elems(f) : p[1] <= chunks' /\ kinds[p[1]] = c
    /\ \A a \in 1 .. MaxChunks : a <= chunks => kinds[a] = kind[a]

\* allocate() that takes the first slab of f and leaves the rest of f free.
LEMMA TakesSlot ==
    ASSUME StringInv, NEW kind, Cut(kind), NEW kinds,
           NEW n \in Sizes, n <= String!LargestSize,
           NEW c, c = String!ClassOf(n),
           NEW f \in Seq(Slots(c)), f # <<>>, NoRepeat(f),
           chunks' \in 0 .. MaxChunks, chunks <= chunks',
           KindsAfter(kinds, kind, f, c),
           \A j \in 1 .. MaxStringCalls :
              Small(j) => live[j].place \notin Elems(f),
           NEW i \in 1 .. MaxStringCalls, calls' = i,
           lists' = [lists EXCEPT ![c] = Tail(f)],
           live' = [live EXCEPT ![i] = [place |-> Head(f), size |-> n]],
           outcome' = outcome
    PROVE  StringInv'
<1>g. PICK g, h, b : /\ g = Tail(f) /\ h = Head(f)
                     /\ b = [place |-> Head(f), size |-> n]
  BY ONLY TRUE
<1>b. b = [place |-> Head(f), size |-> n]
  BY ONLY <1>g
<1>k. /\ \A p \in Elems(f) : p[1] <= chunks' /\ kinds[p[1]] = c
      /\ \A a \in 1 .. MaxChunks : a <= chunks => kinds[a] = kind[a]
  BY ONLY KindsAfter(kinds, kind, f, c), Zenon DEF KindsAfter
<1>0. n <= 2048
  BY ONLY n <= String!LargestSize, StringNames
<1>1. /\ c \in String!Classes /\ n \in Nat
  BY ONLY <1>0, n \in Sizes, c = String!ClassOf(n), ClassFacts, StringNames
<1>2. /\ g \in Seq(Slots(c)) /\ NoRepeat(g)
      /\ h \in Slots(c) /\ h \in Elems(f)
      /\ Elems(g) \subseteq Elems(f) /\ h \notin Elems(g)
  BY <1>g, TailOf
<1>3. b \in Blocks /\ b.place = h /\ b.size = n
  BY <1>1, <1>2, <1>b, <1>g, SlotPlaces DEF Blocks
<1>4. live \in [1 .. MaxStringCalls -> Blocks] /\ live' = [live EXCEPT ![i] = b]
  BY <1>b DEF StringInv
<1>5. /\ live' \in [1 .. MaxStringCalls -> Blocks] /\ live'[i] = b
      /\ \A j \in 1 .. MaxStringCalls : j # i =>
            /\ live'[j] = live[j]
            /\ Small(j)' <=> Small(j)
            /\ ClassAt(j)' = ClassAt(j)
  BY ONLY <1>3, <1>4, i \in 1 .. MaxStringCalls, OtherBlocks
<1>6. lists \in [String!Classes -> Seq(Places)]
  BY DEF StringInv
<1>7. /\ lists'[c] = g
      /\ \A d \in String!Classes : d # c => lists'[d] = lists[d]
  BY <1>1, <1>6, <1>g
<1>8. lists' \in [String!Classes -> Seq(Places)]
  <2>1. g \in Seq(Places)
    BY <1>1, <1>2, <1>g, SlotPlaces
  <2>2. lists' = [lists EXCEPT ![c] = g]
    BY <1>g
  <2> QED
    BY ONLY <1>6, <2>1, <2>2
<1>9. ClassAt(i)' = c
  BY <1>3, <1>5 DEF ClassAt
<1>10. chunks \in Nat /\ chunks' \in Nat /\ MaxChunks \in Nat
  BY StringNames DEF StringInv
<1>11. ASSUME NEW p, NEW d \in String!Classes, p \in Slots(d), p[1] <= chunks,
              kind[p[1]] = d
       PROVE  p[1] <= chunks' /\ kinds[p[1]] = d
  <2>1. p[1] \in 1 .. MaxChunks
    BY <1>11, SlotPlaces
  <2> QED
    BY <1>10, <1>11, <1>k, <2>1
<1>12. ASSUME NEW d \in String!Classes
       PROVE  /\ lists'[d] \in Seq(Slots(d)) /\ NoRepeat(lists'[d])
              /\ \A p \in Elems(lists'[d]) : p[1] <= chunks' /\ kinds[p[1]] = d
  <2>1. CASE d = c
    BY ONLY <1>2, <1>7, <1>k, <2>1
  <2>2. CASE d # c
    <3>1. lists'[d] = lists[d]
      BY <1>7, <2>2
    <3>2. lists[d] \in Seq(Slots(d)) /\ NoRepeat(lists[d])
      BY DEF Cut
    <3>3. ASSUME NEW p \in Elems(lists[d])
          PROVE  p[1] <= chunks' /\ kinds[p[1]] = d
      <4>1. p \in Slots(d)
        BY <3>2, <3>3 DEF Elems
      <4>2. p[1] <= chunks /\ kind[p[1]] = d
        BY <3>3 DEF Cut
      <4> QED
        BY <1>11, <4>1, <4>2
    <3> QED
      BY <3>1, <3>2, <3>3
  <2> QED
    BY <2>1, <2>2
<1>13. ASSUME NEW j \in 1 .. MaxStringCalls, j # i, Small(j)
       PROVE  /\ live'[j].size \in Sizes
              /\ live'[j].place \in Slots(ClassAt(j)')
              /\ live'[j].place[1] <= chunks'
              /\ kinds[live'[j].place[1]] = ClassAt(j)'
              /\ live'[j].place \notin Elems(lists'[ClassAt(j)'])
              /\ live'[j].place \notin Elems(f)
  <2>1. /\ live[j].size \in Sizes /\ live[j].size <= 2048
        /\ ClassAt(j) \in String!Classes
        /\ live[j].place \in Slots(ClassAt(j))
        /\ live[j].place[1] <= chunks
        /\ kind[live[j].place[1]] = ClassAt(j)
        /\ live[j].place \notin Elems(lists[ClassAt(j)])
    BY ONLY <1>13, Cut(kind), SmallFacts
  <2>2. live'[j] = live[j] /\ ClassAt(j)' = ClassAt(j)
    BY <1>5, <1>13
  <2>3. live[j].place[1] <= chunks' /\ kinds[live[j].place[1]] = ClassAt(j)
    BY <1>11, <2>1
  <2>4. live[j].place \notin Elems(f)
    BY <1>13
  <2>5. live[j].place \notin Elems(lists'[ClassAt(j)])
    BY ONLY <1>2, <1>7, <2>1, <2>4
  <2> QED
    BY <2>1, <2>2, <2>3, <2>4, <2>5
<1>14. /\ live'[i].size \in Sizes
       /\ live'[i].place \in Slots(ClassAt(i)')
       /\ live'[i].place[1] <= chunks'
       /\ kinds[live'[i].place[1]] = ClassAt(i)'
       /\ live'[i].place \notin Elems(lists'[ClassAt(i)'])
       /\ live'[i].place \in Elems(f)
  BY ONLY <1>2, <1>3, <1>5, <1>7, <1>9, <1>k, n \in Sizes
<1>15. ASSUME NEW j \in 1 .. MaxStringCalls, NEW k \in 1 .. MaxStringCalls,
              Small(j)', Small(k)', k # j
       PROVE  live'[k].place # live'[j].place
  <2>1. CASE j = i
    BY <1>5, <1>13, <1>14, <1>15, <2>1
  <2>2. CASE k = i
    BY <1>5, <1>13, <1>14, <1>15, <2>2
  <2>3. CASE j # i /\ k # i
    <3>1. Small(j) /\ Small(k) /\ live'[j] = live[j] /\ live'[k] = live[k]
      BY <1>5, <1>15, <2>3
    <3> QED
      BY <1>15, <3>1 DEF Cut
  <2> QED
    BY <2>1, <2>2, <2>3
<1>16. \A j \in 1 .. MaxStringCalls : Small(j)' =>
          /\ live'[j].size \in Sizes
          /\ live'[j].place \in Slots(ClassAt(j)')
          /\ live'[j].place[1] <= chunks'
          /\ kinds[live'[j].place[1]] = ClassAt(j)'
          /\ live'[j].place \notin Elems(lists'[ClassAt(j)'])
  BY <1>5, <1>13, <1>14
<1>17. String!Classes' = String!Classes /\ \A d : Slots(d)' = Slots(d)
  BY DEF String!Classes, Slots, Number
<1>18. Cut(kinds)'
  BY ONLY <1>12, <1>15, <1>16, Zenon DEF Cut
<1>19. calls' \in 0 .. MaxStringCalls
  BY StringNames
<1> QED
  BY <1>5, <1>8, <1>18, <1>19 DEF StringInv

\* deallocate() of a small string puts its slab in front of its class's list.
LEMMA FreesSlot ==
    ASSUME StringInv, NEW i \in 1 .. MaxStringCalls, Small(i),
           calls' \in 0 .. MaxStringCalls,
           live' = [live EXCEPT ![i] = String!NoBlock],
           lists' = [lists EXCEPT ![ClassAt(i)] = <<live[i].place>> \o @],
           chunks' = chunks, outcome' = outcome
    PROVE  StringInv'
<1>1. PICK kind : Cut(kind)
  BY DEF StringInv
<1>2. PICK c, p, l, g : /\ c = ClassAt(i) /\ p = live[i].place
                        /\ l = lists[c] /\ g = <<p>> \o l
  BY ONLY TRUE
<1>3. /\ live[i].size \in Sizes /\ live[i].size <= 2048
      /\ c \in String!Classes /\ p \in Slots(c)
      /\ p[1] <= chunks /\ kind[p[1]] = c /\ p \notin Elems(l)
  BY ONLY <1>1, <1>2, i \in 1 .. MaxStringCalls, Small(i), SmallFacts
<1>4. /\ l \in Seq(Slots(c)) /\ NoRepeat(l)
      /\ \A q \in Elems(l) : q[1] <= chunks /\ kind[q[1]] = c
  BY ONLY <1>1, <1>2, <1>3 DEF Cut
<1>5. /\ g \in Seq(Slots(c)) /\ NoRepeat(g)
      /\ Elems(g) \subseteq Elems(l) \cup {p}
  BY ONLY <1>2, <1>3, <1>4, ConsOf
<1>6. String!NoBlock \in Blocks
  BY StringNames DEF Blocks
<1>7. live \in [1 .. MaxStringCalls -> Blocks]
  BY DEF StringInv
<1>8. /\ live' \in [1 .. MaxStringCalls -> Blocks] /\ live'[i] = String!NoBlock
      /\ \A j \in 1 .. MaxStringCalls : j # i =>
            /\ live'[j] = live[j]
            /\ Small(j)' <=> Small(j)
            /\ ClassAt(j)' = ClassAt(j)
  BY ONLY <1>6, <1>7, i \in 1 .. MaxStringCalls,
          live' = [live EXCEPT ![i] = String!NoBlock], OtherBlocks
<1>9. ~Small(i)'
  BY <1>8 DEF Small, String!NoBlock
<1>10. /\ lists \in [String!Classes -> Seq(Places)]
       /\ lists' = [lists EXCEPT ![c] = g]
  BY <1>2 DEF StringInv
<1>11. /\ lists'[c] = g
       /\ \A d \in String!Classes : d # c => lists'[d] = lists[d]
  BY ONLY <1>3, <1>10
<1>12. lists' \in [String!Classes -> Seq(Places)]
  <2>1. g \in Seq(Places)
    BY <1>3, <1>5, SlotPlaces
  <2> QED
    BY ONLY <1>10, <2>1
<1>13. ASSUME NEW d \in String!Classes
       PROVE  /\ lists'[d] \in Seq(Slots(d)) /\ NoRepeat(lists'[d])
              /\ \A q \in Elems(lists'[d]) : q[1] <= chunks' /\ kind[q[1]] = d
  <2>1. CASE d = c
    BY ONLY <1>3, <1>4, <1>5, <1>11, <2>1, chunks' = chunks
  <2>2. CASE d # c
    BY ONLY <1>1, <1>11, <2>2, d \in String!Classes, chunks' = chunks DEF Cut
  <2> QED
    BY <2>1, <2>2
<1>14. ASSUME NEW j \in 1 .. MaxStringCalls, Small(j)'
       PROVE  /\ j # i /\ Small(j) /\ live'[j] = live[j]
              /\ live'[j].size \in Sizes
              /\ live'[j].place \in Slots(ClassAt(j)')
              /\ live'[j].place[1] <= chunks'
              /\ kind[live'[j].place[1]] = ClassAt(j)'
              /\ live'[j].place \notin Elems(lists'[ClassAt(j)'])
  <2>1. j # i /\ Small(j) /\ live'[j] = live[j] /\ ClassAt(j)' = ClassAt(j)
    BY ONLY <1>8, <1>9, <1>14, j \in 1 .. MaxStringCalls
  <2>2. /\ live[j].size \in Sizes
        /\ ClassAt(j) \in String!Classes
        /\ live[j].place \in Slots(ClassAt(j))
        /\ live[j].place[1] <= chunks
        /\ kind[live[j].place[1]] = ClassAt(j)
        /\ live[j].place \notin Elems(lists[ClassAt(j)])
    BY ONLY <1>1, <2>1, j \in 1 .. MaxStringCalls, SmallFacts
  <2>3. live[j].place # p
    BY ONLY <1>1, <1>2, <2>1, i \in 1 .. MaxStringCalls, Small(i),
            j \in 1 .. MaxStringCalls DEF Cut
  <2>4. live[j].place \notin Elems(lists'[ClassAt(j)])
    BY ONLY <1>2, <1>5, <1>11, <2>2, <2>3
  <2> QED
    BY ONLY <2>1, <2>2, <2>4, chunks' = chunks
<1>15. ASSUME NEW j \in 1 .. MaxStringCalls, NEW k \in 1 .. MaxStringCalls,
              Small(j)', Small(k)', k # j
       PROVE  live'[k].place # live'[j].place
  <2>1. Small(j) /\ Small(k) /\ live'[j] = live[j] /\ live'[k] = live[k]
    BY <1>14, <1>15
  <2> QED
    BY ONLY <1>1, <1>15, <2>1, j \in 1 .. MaxStringCalls,
            k \in 1 .. MaxStringCalls DEF Cut
<1>16. Cut(kind)'
  BY ONLY <1>13, <1>14, <1>15, Zenon DEF Cut
<1>17. /\ chunks' \in 0 .. MaxChunks /\ outcome' \in {"ok", "corrupted"}
  BY DEF StringInv
<1> QED
  BY <1>8, <1>12, <1>16, <1>17 DEF StringInv

\* A step that leaves small strings and the lists alone.
LEMMA NoSlotMoves ==
    ASSUME StringInv, NEW i \in 1 .. MaxStringCalls, NEW b \in Blocks,
           live' = [live EXCEPT ![i] = b],
           b = String!NoBlock \/ b.size > String!LargestSize,
           calls' \in 0 .. MaxStringCalls, lists' = lists, chunks' = chunks,
           outcome' = outcome
    PROVE  StringInv'
<1>1. PICK kind : Cut(kind)
  BY DEF StringInv
<1>2. live \in [1 .. MaxStringCalls -> Blocks]
  BY DEF StringInv
<1>3. /\ live' \in [1 .. MaxStringCalls -> Blocks] /\ live'[i] = b
      /\ \A j \in 1 .. MaxStringCalls : j # i =>
            /\ live'[j] = live[j]
            /\ Small(j)' <=> Small(j)
            /\ ClassAt(j)' = ClassAt(j)
  BY ONLY <1>2, i \in 1 .. MaxStringCalls, b \in Blocks,
          live' = [live EXCEPT ![i] = b], OtherBlocks
<1>4. ~Small(i)'
  <2>1. CASE b = String!NoBlock
    BY <1>3, <2>1 DEF Small, String!NoBlock
  <2>2. CASE b.size > String!LargestSize
    <3>1. b.size \in Nat /\ live'[i].size = b.size
      BY <1>3 DEF Blocks
    <3>n. PICK n : n = b.size
      OBVIOUS
    <3>2. ~(n <= 2048)
      BY <2>2, <3>1, <3>n, StringNames
    <3> QED
      BY <3>1, <3>2, <3>n DEF Small
  <2> QED
    BY <2>1, <2>2
<1>5. \A j \in 1 .. MaxStringCalls : Small(j)' =>
         Small(j) /\ live'[j] = live[j] /\ ClassAt(j)' = ClassAt(j)
  BY ONLY <1>3, <1>4
<1>6. \A j \in 1 .. MaxStringCalls : Small(j)' =>
         /\ live'[j].size \in Sizes
         /\ live'[j].place \in Slots(ClassAt(j)')
         /\ live'[j].place[1] <= chunks'
         /\ kind[live'[j].place[1]] = ClassAt(j)'
         /\ live'[j].place \notin Elems(lists'[ClassAt(j)'])
         /\ \A k \in 1 .. MaxStringCalls :
               Small(k)' /\ k # j => live'[k].place # live'[j].place
  BY ONLY <1>1, <1>5, lists' = lists, chunks' = chunks DEF Cut
<1>7. \A c \in String!Classes :
         /\ lists'[c] \in Seq(Slots(c)) /\ NoRepeat(lists'[c])
         /\ \A p \in Elems(lists'[c]) : p[1] <= chunks' /\ kind[p[1]] = c
  BY ONLY <1>1, lists' = lists, chunks' = chunks DEF Cut
<1>8. Cut(kind)'
  BY ONLY <1>6, <1>7, Zenon DEF Cut
<1>9. /\ chunks' \in 0 .. MaxChunks /\ outcome' \in {"ok", "corrupted"}
      /\ lists' \in [String!Classes -> Seq(Places)]
  BY DEF StringInv
<1> QED
  BY <1>3, <1>8, <1>9 DEF StringInv

\* The slabs of a new chunk.
LEMMA CarveFacts ==
    ASSUME NEW n \in Sizes, n <= 2048, NEW c, c = String!ClassOf(n),
           NEW a \in 1 .. MaxChunks
    PROVE  /\ String!Carve(a, c) \in Seq(Slots(c)) /\ String!Carve(a, c) # <<>>
           /\ NoRepeat(String!Carve(a, c))
           /\ \A p \in Elems(String!Carve(a, c)) : p[1] = a
<1>1. PICK z, N, f : /\ z = String!Shift(c) /\ N = Number(c)
                     /\ f = String!Carve(a, c)
  BY ONLY TRUE
<1>2. z \in Nat /\ z >= 8 /\ N \in Nat /\ N >= 1
  BY <1>1, ClassFacts
<1>3. f = [i \in 1 .. N |-> <<a, (N - i) * z>>]
  BY ONLY <1>1 DEF String!Carve, Number
<1>4. \A i \in 1 .. N : N - i \in 0 .. N - 1
  BY ONLY <1>2
<1>5. \A i \in 1 .. N : <<a, (N - i) * z>> \in Slots(c)
  BY ONLY <1>1, <1>4, a \in 1 .. MaxChunks DEF Slots
<1>6. f \in Seq(Slots(c)) /\ Len(f) = N
  <2>1. f \in [1 .. N -> Slots(c)]
    BY ONLY <1>3, <1>5
  <2> QED
    BY ONLY <1>2, <2>1
<1>7. f # <<>>
  BY ONLY <1>2, <1>6
<1>8. \A x, y \in Nat : x # y => x * z # y * z
  <2>1. \A x, y \in Nat : x < y => x * z + z <= y * z
    BY ONLY <1>2
  <2>2. \A x \in Nat : x * z \in Nat
    BY ONLY <1>2
  <2> QED
    BY ONLY <1>2, <2>1, <2>2
<1>9. NoRepeat(f)
  <2> SUFFICES \A i, j \in 1 .. N : f[i] = f[j] => i = j
    BY <1>6 DEF NoRepeat
  <2> SUFFICES ASSUME NEW i \in 1 .. N, NEW j \in 1 .. N, f[i] = f[j]
               PROVE  i = j
    OBVIOUS
  <2>1. PICK x, y : x = N - i /\ y = N - j
    BY ONLY TRUE
  <2>2. x \in Nat /\ y \in Nat
    BY ONLY <1>2, <2>1, i \in 1 .. N, j \in 1 .. N
  <2>3. f[i] = <<a, x * z>> /\ f[j] = <<a, y * z>>
    BY ONLY <1>3, <2>1, i \in 1 .. N, j \in 1 .. N
  <2>4. x * z = y * z
    BY ONLY <2>3, f[i] = f[j]
  <2>5. x = y
    BY ONLY <1>8, <2>2, <2>4
  <2> QED
    BY ONLY <1>2, <2>1, <2>5, i \in 1 .. N, j \in 1 .. N
<1>10. \A p \in Elems(f) : p[1] = a
  <2>1. \A i \in 1 .. N : f[i][1] = a
    BY ONLY <1>3
  <2> QED
    BY ONLY <1>6, <2>1, Zenon DEF Elems
<1> QED
  BY ONLY <1>1, <1>6, <1>7, <1>9, <1>10

\* Every call keeps the strings apart.
LEMMA StringKeeps ==
    ASSUME StringInv, String!Next
    PROVE  StringInv'
<1>1. PICK kind : Cut(kind)
  BY DEF StringInv
<1>2. /\ calls \in 0 .. MaxStringCalls /\ chunks \in 0 .. MaxChunks
      /\ outcome \in {"ok", "corrupted"} /\ MaxStringCalls \in Nat
      /\ MaxChunks \in Nat
  BY StringNames DEF StringInv
<1>3. ASSUME String!Call
      PROVE  calls' \in 1 .. MaxStringCalls /\ calls' \in 0 .. MaxStringCalls
  BY ONLY <1>2, <1>3 DEF String!Call
<1>4. ASSUME NEW n \in Sizes, String!AllocateLong(n)
      PROVE  StringInv'
  <2>1. calls' \in 1 .. MaxStringCalls /\ calls' \in 0 .. MaxStringCalls
    BY <1>3, <1>4 DEF String!AllocateLong
  <2>2. PICK i, b : i = calls' /\ b = [place |-> <<-1, 0>>, size |-> n]
    BY ONLY TRUE
  <2>3. n \in Nat /\ n > 2048
    BY <1>4, StringNames DEF String!AllocateLong
  <2>4. b \in Blocks /\ b.size > String!LargestSize
    BY ONLY <2>2, <2>3, StringNames DEF Blocks
  <2>5. /\ live' = [live EXCEPT ![i] = b]
        /\ lists' = lists /\ chunks' = chunks /\ outcome' = outcome
    BY <1>4, <2>2, StringNames DEF String!AllocateLong, String!Give
  <2> QED
    BY ONLY <2>1, <2>2, <2>4, <2>5, StringInv, NoSlotMoves, Zenon
<1>5. ASSUME NEW n \in Sizes, String!AllocateFromList(n)
      PROVE  StringInv'
  <2>1. calls' \in 1 .. MaxStringCalls
    BY <1>3, <1>5 DEF String!AllocateFromList
  <2>2. PICK i, c, f : i = calls' /\ c = String!ClassOf(n) /\ f = lists[c]
    BY ONLY TRUE
  <2>3. /\ n <= 2048 /\ n <= String!LargestSize
        /\ f # <<>> /\ chunks' = chunks /\ outcome' = outcome
    BY <1>5, <2>2, StringNames DEF String!AllocateFromList
  <2>4. /\ lists' = [lists EXCEPT ![c] = Tail(f)]
        /\ live' = [live EXCEPT ![i] = [place |-> Head(f), size |-> n]]
    BY <1>5, <2>2 DEF String!AllocateFromList, String!Give
  <2>5. c \in String!Classes
    BY ONLY <2>2, <2>3, n \in Sizes, ClassFacts
  <2>6. /\ f \in Seq(Slots(c)) /\ NoRepeat(f)
        /\ \A p \in Elems(f) : p[1] <= chunks /\ kind[p[1]] = c
    BY ONLY <1>1, <2>2, <2>5 DEF Cut
  <2>7. ASSUME NEW j \in 1 .. MaxStringCalls, Small(j)
        PROVE  live[j].place \notin Elems(f)
    <3>1. /\ kind[live[j].place[1]] = ClassAt(j)
          /\ live[j].place \notin Elems(lists[ClassAt(j)])
      BY ONLY <1>1, <2>7, j \in 1 .. MaxStringCalls, SmallFacts
    <3> QED
      BY ONLY <2>2, <2>6, <3>1
  <2>8. /\ chunks' \in 0 .. MaxChunks /\ chunks <= chunks'
        /\ KindsAfter(kind, kind, f, c)
    BY ONLY <1>2, <2>3, <2>6 DEF KindsAfter
  <2> QED
    <3>1. n <= String!LargestSize /\ outcome' = outcome /\ f # <<>>
      BY ONLY <2>3
    <3>2. i \in 1 .. MaxStringCalls /\ calls' = i
      BY ONLY <2>1, <2>2
    <3>3. f \in Seq(Slots(c)) /\ NoRepeat(f) /\ c = String!ClassOf(n)
      BY ONLY <2>2, <2>6
    <3> QED
      BY ONLY <1>1, <2>4, <2>7, <2>8, <3>1, <3>2, <3>3, StringInv,
              n \in Sizes, TakesSlot, Zenon
<1>6. ASSUME NEW n \in Sizes, String!AllocateFromChunk(n)
      PROVE  StringInv'
  <2>1. calls' \in 1 .. MaxStringCalls
    BY <1>3, <1>6 DEF String!AllocateFromChunk
  <2>2. PICK i, c, e, f : /\ i = calls' /\ c = String!ClassOf(n)
                          /\ e = chunks + 1 /\ f = String!Carve(e, c)
    BY ONLY TRUE
  <2>3. /\ n <= 2048 /\ n <= String!LargestSize
        /\ chunks < MaxChunks /\ chunks' = e /\ outcome' = outcome
    BY <1>6, <2>2, StringNames DEF String!AllocateFromChunk
  <2>4. /\ lists' = [lists EXCEPT ![c] = Tail(f)]
        /\ live' = [live EXCEPT ![i] = [place |-> Head(f), size |-> n]]
    BY <1>6, <2>2, <2>3 DEF String!AllocateFromChunk, String!Give
  <2>5. PICK kinds : kinds = [a \in 1 .. MaxChunks |->
                                IF a = e THEN c ELSE kind[a]]
    BY ONLY TRUE
  <2>6. /\ e \in 1 .. MaxChunks /\ chunks' \in 0 .. MaxChunks
        /\ chunks <= chunks' /\ ~(e <= chunks) /\ e <= chunks'
    BY ONLY <1>2, <2>2, <2>3
  <2>7. /\ f \in Seq(Slots(c)) /\ f # <<>> /\ NoRepeat(f)
        /\ \A p \in Elems(f) : p[1] = e
    BY ONLY <2>2, <2>3, <2>6, n \in Sizes, CarveFacts
  <2>8. KindsAfter(kinds, kind, f, c)
    BY ONLY <2>5, <2>6, <2>7 DEF KindsAfter
  <2>9. ASSUME NEW j \in 1 .. MaxStringCalls, Small(j)
        PROVE  live[j].place \notin Elems(f)
    <3>1. live[j].place[1] <= chunks
      BY ONLY <1>1, <2>9, j \in 1 .. MaxStringCalls, SmallFacts
    <3> QED
      BY ONLY <2>6, <2>7, <3>1
  <2> QED
    <3>1. /\ n <= String!LargestSize /\ outcome' = outcome
          /\ chunks' \in 0 .. MaxChunks /\ chunks <= chunks'
      BY ONLY <2>3, <2>6
    <3>2. i \in 1 .. MaxStringCalls /\ calls' = i /\ c = String!ClassOf(n)
      BY ONLY <2>1, <2>2
    <3>3. f \in Seq(Slots(c)) /\ f # <<>> /\ NoRepeat(f)
      BY ONLY <2>7
    <3> QED
      BY ONLY <1>1, <2>4, <2>8, <2>9, <3>1, <3>2, <3>3, StringInv,
              n \in Sizes, TakesSlot, Zenon
<1>7. ASSUME NEW n \in Sizes, String!Corrupted(n)
      PROVE  StringInv'
  <2>1. calls' \in 0 .. MaxStringCalls
    BY <1>3, <1>7 DEF String!Corrupted
  <2>2. /\ outcome' = "corrupted"
        /\ chunks' = chunks /\ lists' = lists /\ live' = live
    BY <1>7 DEF String!Corrupted
  <2>3. \A i : Small(i)' = Small(i) /\ ClassAt(i)' = ClassAt(i)
    BY ONLY <2>2 DEF Small, ClassAt, String!NoBlock
  <2>4. Cut(kind)'
    BY ONLY <1>1, <2>2, <2>3 DEF Cut
  <2> QED
    BY <2>1, <2>2, <2>4 DEF StringInv
<1>9. ASSUME NEW n \in Sizes, String!AllocateNothing(n)
      PROVE  StringInv'
  <2>1. calls' \in 0 .. MaxStringCalls
    BY <1>3, <1>9 DEF String!AllocateNothing
  <2>2. /\ outcome' = outcome
        /\ chunks' = chunks /\ lists' = lists /\ live' = live
    BY <1>9 DEF String!AllocateNothing
  <2>3. \A i : Small(i)' = Small(i) /\ ClassAt(i)' = ClassAt(i)
    BY ONLY <2>2 DEF Small, ClassAt, String!NoBlock
  <2>4. Cut(kind)'
    BY ONLY <1>1, <2>2, <2>3 DEF Cut
  <2> QED
    BY <1>2, <2>1, <2>2, <2>4 DEF StringInv
<1>8. ASSUME NEW i \in 1 .. MaxStringCalls, String!Deallocate(i)
      PROVE  StringInv'
  <2>1. calls' \in 0 .. MaxStringCalls
    BY <1>3, <1>8 DEF String!Deallocate
  <2>2. /\ live[i] # String!NoBlock /\ chunks' = chunks /\ outcome' = outcome
        /\ live' = [live EXCEPT ![i] = String!NoBlock]
    BY <1>8 DEF String!Deallocate
  <2>n. PICK n : n = live[i].size
    BY ONLY TRUE
  <2>3. n \in Nat
    BY <2>n DEF StringInv, Blocks
  <2>4. CASE n > 2048
    <3>1. lists' = lists
      BY <1>8, <2>4, <2>n, StringNames DEF String!Deallocate
    <3>2. String!NoBlock \in Blocks
      BY StringNames DEF Blocks
    <3> QED
      BY ONLY <2>1, <2>2, <3>1, <3>2, StringInv, i \in 1 .. MaxStringCalls,
              NoSlotMoves, Zenon
  <2>5. CASE ~(n > 2048)
    <3>1. lists' = [lists EXCEPT ![ClassAt(i)] = <<live[i].place>> \o @]
      BY <1>8, <2>5, <2>n, StringNames DEF String!Deallocate, ClassAt
    <3>2. n <= 2048
      BY ONLY <2>3, <2>5
    <3>3. Small(i)
      BY ONLY <2>2, <2>n, <3>2 DEF Small
    <3> QED
      BY ONLY <2>1, <2>2, <3>1, <3>3, StringInv, i \in 1 .. MaxStringCalls,
              FreesSlot
  <2> QED
    BY <2>4, <2>5
<1> QED
  BY <1>4, <1>5, <1>6, <1>7, <1>8, <1>9 DEF String!Next

-----------------------------------------------------------------------------
(* Where every slab is *)

AccountInv ==
    /\ SlabInv
    /\ allocator = "semi_lock_free" => OrderInv
    /\ allocator \in {"thread_local", "simple"} => CoverInv
    /\ allocator = "string" => StringInv

LEMMA CoverInit ==
    ASSUME Init
    PROVE  CoverInv
<1>1. chunks = 0 /\ lost = {}
  BY DEF Init, ThreadLocal!Init
<1>2. \A s \in Slabs : ~(s[1] <= chunks)
  BY <1>1, SlabAssumption DEF Slabs, SlabAssumption
<1> QED
  BY <1>1, <1>2 DEF CoverInv

LEMMA AccountInit == Init => AccountInv
<1> SUFFICES ASSUME Init PROVE AccountInv
  OBVIOUS
<1>1. String!Init
  BY DEF Init
<1>2. SlabInv /\ OrderInv /\ CoverInv /\ StringInv
  BY <1>1, SlabInit, OrderInit, CoverInit, StringInit
<1> QED
  BY <1>2 DEF AccountInv

LEMMA AccountStep == AccountInv /\ [Next]_vars => AccountInv'
<1> SUFFICES ASSUME AccountInv, [Next]_vars PROVE AccountInv'
  OBVIOUS
<1>0. SlabInv /\ SlabInv'
  BY SlabStep DEF AccountInv
<1>1. CASE SemiLockFreeStep
  <2>1. /\ allocator = "semi_lock_free" /\ allocator' = allocator
        /\ SemiLockFree!Next
    BY <1>1 DEF SemiLockFreeStep
  <2>2. UsersInv /\ SemiLockFreeInv /\ OrderInv
    BY <1>0, <2>1 DEF SlabInv, AccountInv
  <2>3. ListKept \/ ListPopped \/ \E t \in Threads : ListPushed(t)
    BY <2>1, <2>2, SemiLockFreeKeeps
  <2>4. HeadTypes
    BY <2>2 DEF SemiLockFreeInv
  <2>5. OrderInv'
    BY ONLY <2>2, <2>3, <2>4, OrderKept, OrderPopped, OrderPushed
  <2> QED
    BY <1>0, <2>1, <2>5 DEF AccountInv
<1>2. CASE ThreadLocalStep
  <2>1. /\ allocator = "thread_local" /\ allocator' = allocator
        /\ ThreadLocal!Next
    BY <1>2 DEF ThreadLocalStep
  <2>2. CoverInv /\ PlacesInv /\ UsersInv /\ CountsInv
    BY <1>0, <2>1 DEF SlabInv, AccountInv
  <2>3. CoverInv'
    BY ONLY <2>1, <2>2, CoverKept
  <2> QED
    BY <1>0, <2>1, <2>3 DEF AccountInv
<1>3. CASE SimpleStep
  <2>1. /\ allocator = "simple" /\ allocator' = allocator
        /\ ThreadLocal!SimpleNext
    BY <1>3 DEF SimpleStep
  <2>2. CoverInv /\ PlacesInv /\ UsersInv
    BY <1>0, <2>1 DEF SlabInv, AccountInv
  <2>3. CoverInv'
    BY ONLY <2>1, <2>2, CoverKept
  <2> QED
    BY <1>0, <2>1, <2>3 DEF AccountInv
<1>4. CASE StringStep
  <2>1. allocator = "string" /\ allocator' = allocator /\ String!Next
    BY <1>4 DEF StringStep
  <2>2. StringInv
    BY <2>1 DEF AccountInv
  <2>3. StringInv'
    BY ONLY <2>1, <2>2, StringKeeps
  <2> QED
    BY <1>0, <2>1, <2>3 DEF AccountInv
<1>5. CASE UNCHANGED vars
  <2>1. /\ UNCHANGED <<allocator, users, chunks, calls>>
        /\ UNCHANGED <<head, next, pc, old, new, tail, chosen>>
        /\ UNCHANGED <<list, central, lost>>
        /\ UNCHANGED <<lists, live, outcome>>
    BY <1>5 DEF vars, semiLockFreeVars, threadLocalVars, stringVars
  <2>2. OrderInv => OrderInv'
    <3>1. \A t \in Threads : OnHand(t)' = OnHand(t)
      BY <2>1 DEF OnHand, SemiLockFree!OnHand
    <3>2. FreeSet' = FreeSet
      BY <2>1, <3>1 DEF FreeSet
    <3>3. ListKept
      BY <2>1, <3>2 DEF ListKept
    <3> QED
      BY <3>3, OrderKept
  <2>3. CoverInv => CoverInv'
    BY <2>1 DEF CoverInv, Stored, Listed, Pooled
  <2>4. StringInv => StringInv'
    <3> SUFFICES ASSUME StringInv PROVE StringInv'
      OBVIOUS
    <3>1. PICK kind : Cut(kind)
      BY DEF StringInv
    <3>2. \A i : Small(i)' = Small(i) /\ ClassAt(i)' = ClassAt(i)
      BY ONLY <2>1 DEF Small, ClassAt, String!NoBlock
    <3>3. Cut(kind)'
      BY ONLY <2>1, <3>1, <3>2 DEF Cut
    <3> QED
      BY <2>1, <3>3 DEF StringInv
  <2> QED
    BY <1>0, <2>1, <2>2, <2>3, <2>4 DEF AccountInv
<1> QED
  BY <1>1, <1>2, <1>3, <1>4, <1>5 DEF Next

\* Every slab of every chunk is in exactly one place: in use, in one list once,
\* in the pool, on the hands of the thread that moves it, or with an ended
\* thread; nothing else is in a list; the thread-local counts match their lists;
\* live strings overlap neither each other nor a free slab.  For any number of
\* threads, chunks, slabs and calls.
THEOREM EverySlabAccountedFor == Spec => []SlabsAccountedFor
<1>1. AccountInv => SlabsAccountedFor
  <2> SUFFICES ASSUME AccountInv PROVE SlabsAccountedFor
    OBVIOUS
  <2>0. SlabInv
    BY DEF AccountInv
  <2>1. CASE allocator = "semi_lock_free"
    <3>1. UsersInv /\ SemiLockFreeInv /\ OrderInv
      BY <2>0, <2>1 DEF SlabInv, AccountInv
    <3> QED
      BY <2>1, <3>1, SemiLockFreeAccounts DEF SlabsAccountedFor
  <2>2. CASE allocator = "thread_local"
    <3>1. PlacesInv /\ UsersInv /\ CoverInv /\ CountsInv
      BY <2>0, <2>2 DEF SlabInv, AccountInv
    <3>2. ThreadLocal!SlabsAccountedFor
      BY <3>1, ThreadLocalAccounts
    <3>3. ThreadLocal!ListsMatchCounts
      BY <2>0, <2>2, CountsMatch
    <3> QED
      BY <2>2, <3>2, <3>3 DEF SlabsAccountedFor
  <2>3. CASE allocator = "simple"
    <3>1. PlacesInv /\ UsersInv /\ CoverInv
      BY <2>0, <2>3 DEF SlabInv, AccountInv
    <3> QED
      BY <2>3, <3>1, ThreadLocalAccounts DEF SlabsAccountedFor
  <2>4. CASE allocator = "string"
    <3>1. String!StringsDisjoint
      BY <2>4, CutIsDisjoint DEF AccountInv
    <3> QED
      BY <2>4, <3>1 DEF SlabsAccountedFor
  <2> QED
    BY <2>0, <2>1, <2>2, <2>3, <2>4 DEF SlabInv
<1>2. Spec => []AccountInv
  BY AccountInit, AccountStep, PTL DEF Spec
<1> QED
  BY <1>1, <1>2, PTL

-----------------------------------------------------------------------------
(* Types *)

\* The threads in the middle of a call of the semi-lock-free allocator.  Each of
\* them has still to change the head, which its call may do once.
Busy == {t \in Threads : pc[t] # "idle"}

TypeInv ==
    /\ AccountInv
    /\ chunks \in 0 .. MaxChunks /\ calls \in 0 .. CallBound
    /\ HeadTypes
    /\ IsFiniteSet(Busy) /\ head.tag + Cardinality(Busy) <= calls
    /\ list \in [Threads -> Seq(Slabs)] /\ central \in Seq(Seq(Slabs))
    /\ allocator # "thread_local" => \A t \in Threads : count[t] = 0
    /\ threshold \in [Threads -> Nat]
    /\ \A t \in Threads : /\ threshold[t] >= 1
                          /\ threshold[t] <= (chunks + 1) * SlabsPerChunk
    /\ ended \subseteq Threads \ {Main} /\ lost \subseteq Slabs
    /\ outcome \in {"ok", "corrupted"}

\* How a step of one thread changes the threads that are busy.
LEMMA BusyFacts ==
    ASSUME pc \in [Threads -> {"idle", "allocate", "pop", "link", "push"}],
           NEW t \in Threads, NEW p, pc' = [pc EXCEPT ![t] = p],
           IsFiniteSet(Busy)
    PROVE  /\ IsFiniteSet(Busy')
           /\ Cardinality(Busy) \in Nat /\ Cardinality(Busy') \in Nat
           /\ pc[t] = "idle" => Cardinality(Busy') <= Cardinality(Busy) + 1
           /\ pc[t] # "idle" /\ p # "idle" =>
                 Cardinality(Busy') = Cardinality(Busy)
           /\ pc[t] # "idle" /\ p = "idle" =>
                 Cardinality(Busy') + 1 = Cardinality(Busy)
<1>1. /\ pc'[t] = p /\ \A u \in Threads : u # t => pc'[u] = pc[u]
  OBVIOUS
<1>2. Busy' = {u \in Threads : pc'[u] # "idle"}
  BY DEF Busy
<1>3. /\ IsFiniteSet(Busy \cup {t}) /\ IsFiniteSet(Busy \ {t})
      /\ t \notin Busy => Cardinality(Busy \cup {t}) = Cardinality(Busy) + 1
      /\ t \in Busy => Cardinality(Busy \ {t}) = Cardinality(Busy) - 1
  BY FS_AddElement, FS_RemoveElement
<1>4. Cardinality(Busy) \in Nat
  BY FS_CardinalityType
<1>5. CASE pc[t] = "idle" /\ p # "idle"
  <2>1. Busy' = Busy \cup {t} /\ t \notin Busy
    BY <1>1, <1>2, <1>5 DEF Busy
  <2> QED
    BY <1>3, <1>4, <1>5, <2>1
<1>6. CASE (pc[t] = "idle") = (p = "idle")
  <2>1. Busy' = Busy
    BY <1>1, <1>2, <1>6 DEF Busy
  <2> QED
    BY <1>4, <1>6, <2>1
<1>7. CASE pc[t] # "idle" /\ p = "idle"
  <2>1. Busy' = Busy \ {t} /\ t \in Busy
    BY <1>1, <1>2, <1>7 DEF Busy
  <2>2. Cardinality(Busy \ {t}) \in Nat
    BY <1>3, FS_CardinalityType
  <2> QED
    BY <1>3, <1>4, <1>7, <2>1, <2>2
<1> QED
  BY <1>5, <1>6, <1>7

\* A call changes the head at most once, and is counted before.
LEMMA BusyKept ==
    ASSUME HeadTypes, IsFiniteSet(Busy), calls \in 0 .. MaxLockFreeCalls,
           head.tag + Cardinality(Busy) <= calls, SemiLockFree!Next
    PROVE  /\ IsFiniteSet(Busy') /\ calls' \in 0 .. MaxLockFreeCalls
           /\ head'.tag + Cardinality(Busy') <= calls'
<1>0. MaxLockFreeCalls \in Nat /\ calls \in Nat
  BY SlabAssumption DEF SlabAssumption
<1>1. PICK t \in Threads :
          SemiLockFree!Allocate(t) \/ SemiLockFree!Deallocate(t)
  BY DEF SemiLockFree!Next
<1>2. pc \in [Threads -> {"idle", "allocate", "pop", "link", "push"}]
  BY DEF HeadTypes
<1>3. head.tag \in Nat
  BY DEF HeadTypes, Heads
<1>4. ASSUME NEW s \in SemiLockFree!Slabs,
             SemiLockFree!BeginDeallocate(t, s)
      PROVE  /\ IsFiniteSet(Busy') /\ calls' \in 0 .. MaxLockFreeCalls
             /\ head'.tag + Cardinality(Busy') <= calls'
  <2>1. PICK p : /\ pc[t] = "idle" /\ pc' = [pc EXCEPT ![t] = p]
                 /\ calls < MaxLockFreeCalls /\ calls' = calls + 1
                 /\ head' = head
    BY <1>4 DEF SemiLockFree!BeginDeallocate, SemiLockFree!Goto
  <2>2. /\ IsFiniteSet(Busy')
        /\ Cardinality(Busy) \in Nat /\ Cardinality(Busy') \in Nat
        /\ Cardinality(Busy') <= Cardinality(Busy) + 1
    BY ONLY <1>1, <1>2, <2>1, IsFiniteSet(Busy), BusyFacts
  <2> QED
    BY <1>0, <1>3, <2>1, <2>2
<1>5. CASE SemiLockFree!LoadHead(t)
  <2>1. PICK p : /\ pc[t] = "idle" /\ pc' = [pc EXCEPT ![t] = p]
                 /\ calls < MaxLockFreeCalls /\ calls' = calls + 1
                 /\ head' = head
    BY <1>5 DEF SemiLockFree!LoadHead, SemiLockFree!Goto
  <2>2. /\ IsFiniteSet(Busy')
        /\ Cardinality(Busy) \in Nat /\ Cardinality(Busy') \in Nat
        /\ Cardinality(Busy') <= Cardinality(Busy) + 1
    BY ONLY <1>1, <1>2, <2>1, IsFiniteSet(Busy), BusyFacts
  <2> QED
    BY <1>0, <1>3, <2>1, <2>2
<1>6. CASE \/ SemiLockFree!ReadNext(t) \/ SemiLockFree!PopFails(t)
           \/ SemiLockFree!AllocateOneChunk(t) \/ SemiLockFree!LinkTail(t)
           \/ SemiLockFree!PushFails(t)
  <2>1. PICK p : /\ pc[t] # "idle" /\ p # "idle" /\ pc' = [pc EXCEPT ![t] = p]
                 /\ calls' = calls /\ head' = head
    BY <1>6 DEF SemiLockFree!ReadNext, SemiLockFree!PopFails,
                SemiLockFree!AllocateOneChunk, SemiLockFree!LinkTail,
                SemiLockFree!PushFails, SemiLockFree!Goto
  <2>2. /\ IsFiniteSet(Busy')
        /\ Cardinality(Busy') = Cardinality(Busy)
    BY ONLY <1>1, <1>2, <2>1, IsFiniteSet(Busy), BusyFacts
  <2> QED
    BY <1>0, <1>3, <2>1, <2>2
<1>7. CASE SemiLockFree!Pop(t) \/ SemiLockFree!Push(t)
  <2>1. /\ pc[t] # "idle" /\ pc' = [pc EXCEPT ![t] = "idle"]
        /\ calls' = calls /\ head'.tag = head.tag + 1
    BY <1>7 DEF SemiLockFree!Pop, SemiLockFree!Push, SemiLockFree!Goto,
                SemiLockFree!Tagged
  <2>2. /\ IsFiniteSet(Busy')
        /\ Cardinality(Busy) \in Nat /\ Cardinality(Busy') \in Nat
        /\ Cardinality(Busy') + 1 = Cardinality(Busy)
    BY ONLY <1>1, <1>2, <2>1, IsFiniteSet(Busy), BusyFacts
  <2> QED
    BY <1>0, <1>3, <2>1, <2>2
<1> QED
  BY <1>1, <1>4, <1>5, <1>6, <1>7
     DEF SemiLockFree!Allocate, SemiLockFree!Deallocate

\* A thread's threshold grows with a chunk.
LEMMA ThresholdKept ==
    ASSUME chunks \in 0 .. MaxChunks, threshold \in [Threads -> Nat],
           \A t \in Threads : /\ threshold[t] >= 1
                              /\ threshold[t] <= (chunks + 1) * SlabsPerChunk,
           chunks' \in 0 .. MaxChunks,
           \/ threshold' = threshold /\ chunks <= chunks'
           \/ \E t \in Threads :
                 /\ chunks' = chunks + 1
                 /\ threshold' = [threshold EXCEPT ![t] = @ + SlabsPerChunk]
    PROVE  /\ threshold' \in [Threads -> Nat]
           /\ \A t \in Threads :
                 /\ threshold'[t] >= 1
                 /\ threshold'[t] <= (chunks' + 1) * SlabsPerChunk
<1>0. SlabsPerChunk \in Nat /\ chunks \in Nat /\ chunks' \in Nat
  BY SlabAssumption DEF SlabAssumption
<1>1. \A a, b \in Nat :
         a <= b => (a + 1) * SlabsPerChunk <= (b + 1) * SlabsPerChunk
  BY ONLY <1>0
<1>2. \A a \in Nat :
         ((a + 1) + 1) * SlabsPerChunk = (a + 1) * SlabsPerChunk + SlabsPerChunk
  BY ONLY <1>0
<1>3. \A a \in Nat : (a + 1) * SlabsPerChunk \in Nat
  BY ONLY <1>0
<1>4. CASE threshold' = threshold /\ chunks <= chunks'
  <2>1. (chunks + 1) * SlabsPerChunk <= (chunks' + 1) * SlabsPerChunk
    BY <1>0, <1>1, <1>4
  <2>x. PICK x, y : /\ x = (chunks + 1) * SlabsPerChunk
                    /\ y = (chunks' + 1) * SlabsPerChunk
    BY ONLY TRUE
  <2>2. x \in Nat /\ y \in Nat /\ x <= y
    BY ONLY <1>0, <1>3, <2>1, <2>x
  <2>3. \A t \in Threads : threshold[t] \in Nat /\ threshold[t] <= x
    BY <2>x
  <2>4. \A t \in Threads : threshold'[t] >= 1 /\ threshold'[t] <= y
    BY <1>4, <2>2, <2>3
  <2> QED
    BY <1>4, <2>4, <2>x
<1>5. ASSUME NEW t \in Threads, chunks' = chunks + 1,
             threshold' = [threshold EXCEPT ![t] = @ + SlabsPerChunk]
      PROVE  /\ threshold' \in [Threads -> Nat]
             /\ \A u \in Threads :
                   /\ threshold'[u] >= 1
                   /\ threshold'[u] <= (chunks' + 1) * SlabsPerChunk
  <2>x. PICK x, y : /\ x = (chunks + 1) * SlabsPerChunk
                    /\ y = (chunks' + 1) * SlabsPerChunk
    BY ONLY TRUE
  <2>2. x \in Nat /\ y \in Nat /\ y = x + SlabsPerChunk
    BY ONLY <1>0, <1>2, <1>3, <1>5, <2>x
  <2>3. \A u \in Threads :
           threshold[u] \in Nat /\ threshold[u] >= 1 /\ threshold[u] <= x
    BY <2>x
  <2>4. /\ threshold' \in [Threads -> Nat]
        /\ \A u \in Threads : threshold'[u] =
             IF u = t THEN threshold[u] + SlabsPerChunk ELSE threshold[u]
    BY <1>0, <1>5
  <2>5. \A u \in Threads : threshold'[u] >= 1 /\ threshold'[u] <= y
    BY ONLY <1>0, <2>2, <2>3, <2>4
  <2> QED
    BY ONLY <2>4, <2>5, <2>x
<1> QED
  BY <1>4, <1>5

\* What the calls of the thread-local and of the simple allocator count.
LEMMA ThreadLocalCounts ==
    ASSUME ThreadLocal!Next \/ ThreadLocal!SimpleNext,
           calls \in 0 .. MaxCalls, chunks \in 0 .. MaxChunks,
           ended \subseteq Threads \ {Main}
    PROVE  /\ calls' \in 0 .. MaxCalls /\ calls <= calls'
           /\ ended' \subseteq Threads \ {Main}
           /\ \/ threshold' = threshold /\ chunks <= chunks'
              \/ \E t \in Threads :
                    /\ chunks' = chunks + 1
                    /\ threshold' = [threshold EXCEPT ![t] = @ + SlabsPerChunk]
           /\ ThreadLocal!SimpleNext => count' = count
<1>0. MaxCalls \in Nat /\ calls \in Nat /\ chunks \in Nat /\ Main \in Threads
  BY SlabAssumption DEF SlabAssumption
<1>1. ASSUME NEW t, ThreadLocal!Call(t)
      PROVE  calls' \in 0 .. MaxCalls /\ calls <= calls' /\ ended' = ended
  BY <1>0, <1>1 DEF ThreadLocal!Call
<1>2. ASSUME NEW t \in Threads, NEW s,
             \/ ThreadLocal!AllocateLocally(t)
             \/ ThreadLocal!AllocateFromPool(t)
             \/ ThreadLocal!DeallocateLocally(t, s)
             \/ ThreadLocal!DeallocateAndCutOff(t, s)
      PROVE  ThreadLocal!Call(t) /\ threshold' = threshold /\ chunks' = chunks
  BY <1>2 DEF ThreadLocal!AllocateLocally, ThreadLocal!AllocateFromPool,
              ThreadLocal!DeallocateLocally, ThreadLocal!DeallocateAndCutOff
<1>3. ASSUME NEW t \in Threads, ThreadLocal!AllocateFromChunk(t)
      PROVE  /\ ThreadLocal!Call(t) /\ chunks' = chunks + 1
             /\ threshold' = [threshold EXCEPT ![t] = @ + SlabsPerChunk]
  BY <1>3 DEF ThreadLocal!AllocateFromChunk
<1>4. ASSUME NEW t \in Threads, ThreadLocal!ThreadEnds(t)
      PROVE  /\ calls' = calls /\ threshold' = threshold /\ chunks' = chunks
             /\ ended' \subseteq Threads \ {Main}
  BY <1>4 DEF ThreadLocal!ThreadEnds
<1>5. ASSUME ThreadLocal!SimpleNext
      PROVE  /\ ThreadLocal!Call(Main) /\ threshold' = threshold
             /\ chunks <= chunks' /\ count' = count
  <2>1. ASSUME NEW s,
               \/ ThreadLocal!SimpleAllocate
               \/ ThreadLocal!SimpleDeallocate(s)
        PROVE  /\ ThreadLocal!Call(Main) /\ threshold' = threshold
               /\ chunks' = chunks /\ count' = count
    BY <2>1 DEF ThreadLocal!SimpleAllocate, ThreadLocal!SimpleDeallocate
  <2>2. ASSUME ThreadLocal!SimpleAllocateOneChunk
        PROVE  /\ ThreadLocal!Call(Main) /\ threshold' = threshold
               /\ chunks' = chunks + 1 /\ count' = count
    BY <2>2 DEF ThreadLocal!SimpleAllocateOneChunk
  <2>3. chunks <= chunks + 1 /\ chunks <= chunks
    BY ONLY <1>0
  <2> QED
    BY <1>5, <2>1, <2>2, <2>3 DEF ThreadLocal!SimpleNext
<1>6. CASE ThreadLocal!SimpleNext
  BY <1>1, <1>5, <1>6
<1>7. ASSUME NEW t \in Threads,
             \/ ThreadLocal!AllocateLocally(t)
             \/ ThreadLocal!AllocateFromPool(t)
             \/ \E s \in ThreadLocal!Slabs :
                   \/ ThreadLocal!DeallocateLocally(t, s)
                   \/ ThreadLocal!DeallocateAndCutOff(t, s)
      PROVE  /\ calls' \in 0 .. MaxCalls /\ calls <= calls' /\ ended' = ended
             /\ threshold' = threshold /\ chunks <= chunks'
  <2>1. ThreadLocal!Call(t) /\ threshold' = threshold /\ chunks' = chunks
    BY <1>2, <1>7
  <2> QED
    BY <1>0, <1>1, <2>1
<1>8. ASSUME NEW t \in Threads, ThreadLocal!AllocateFromChunk(t)
      PROVE  /\ calls' \in 0 .. MaxCalls /\ calls <= calls' /\ ended' = ended
             /\ chunks' = chunks + 1
             /\ threshold' = [threshold EXCEPT ![t] = @ + SlabsPerChunk]
  BY <1>1, <1>3, <1>8
<1>9. ASSUME NEW t \in Threads, ThreadLocal!ThreadEnds(t)
      PROVE  /\ calls' \in 0 .. MaxCalls /\ calls <= calls'
             /\ ended' \subseteq Threads \ {Main}
             /\ threshold' = threshold /\ chunks <= chunks'
  BY <1>0, <1>4, <1>9
<1>10. CASE ThreadLocal!Next
  BY <1>5, <1>7, <1>8, <1>9, <1>10 DEF ThreadLocal!Next
<1> QED
  BY <1>6, <1>10

LEMMA TypeInit == Init => TypeInv
<1> SUFFICES ASSUME Init PROVE TypeInv
  OBVIOUS
<1>0. /\ MaxChunks \in Nat /\ SlabsPerChunk \in Nat /\ SlabsPerChunk >= 2
      /\ MaxCalls \in Nat /\ MaxLockFreeCalls \in Nat /\ MaxStringCalls \in Nat
  BY SlabAssumption DEF SlabAssumption
<1>1. AccountInv
  BY AccountInit
<1>2. /\ chunks = 0 /\ calls = 0
      /\ head = [node |-> Null, tag |-> 0]
      /\ next = [s \in Slabs |-> <<0, 1>>]
      /\ pc = [t \in Threads |-> "idle"]
      /\ old = [t \in Threads |-> [node |-> Null, tag |-> 0]]
      /\ new = [t \in Threads |-> Null]
      /\ tail = [t \in Threads |-> Null]
      /\ chosen = [t \in Threads |-> Null]
  BY SlabNames DEF Init, SemiLockFree!Init
<1>3. /\ list = [t \in Threads |-> <<>>]
      /\ count = [t \in Threads |-> 0]
      /\ threshold = [t \in Threads |-> SlabsPerChunk]
      /\ central = <<>> /\ ended = {} /\ lost = {}
  BY DEF Init, ThreadLocal!Init
<1>4. outcome = "ok"
  BY DEF Init, String!Init
<1>5. HeadTypes
  <2>1. [node |-> Null, tag |-> 0] \in Heads /\ Null \in Links
    BY DEF Heads, Links
  <2> QED
    BY <1>2, <2>1, SlabNames DEF HeadTypes, Words
<1>6. Busy = {}
  BY <1>2 DEF Busy
<1>7. IsFiniteSet(Busy) /\ Cardinality(Busy) = 0
  BY <1>6, FS_EmptySet
<1>8. head.tag + Cardinality(Busy) <= calls
  BY <1>2, <1>7
<1>9. chunks \in 0 .. MaxChunks /\ calls \in 0 .. CallBound
  <2>1. CallBound \in Nat
    BY <1>0 DEF CallBound
  <2> QED
    BY <1>0, <1>2, <2>1
<1>10. (chunks + 1) * SlabsPerChunk = SlabsPerChunk
  BY <1>0, <1>2
<1>11. /\ threshold \in [Threads -> Nat]
       /\ \A t \in Threads : /\ threshold[t] >= 1
                             /\ threshold[t] <= (chunks + 1) * SlabsPerChunk
  BY <1>0, <1>3, <1>10
<1>12. list \in [Threads -> Seq(Slabs)] /\ central \in Seq(Seq(Slabs))
  BY <1>3
<1>13. \A t \in Threads : count[t] = 0
  BY <1>3
<1> QED
  BY <1>1, <1>3, <1>4, <1>5, <1>7, <1>8, <1>9, <1>11, <1>12, <1>13 DEF TypeInv

LEMMA TypeStep == TypeInv /\ [Next]_vars => TypeInv'
<1> SUFFICES ASSUME TypeInv, [Next]_vars PROVE TypeInv'
  OBVIOUS
<1>0. AccountInv /\ AccountInv' /\ SlabInv /\ SlabInv'
  BY AccountStep DEF TypeInv, AccountInv
<1>1. /\ chunks \in 0 .. MaxChunks /\ HeadTypes /\ IsFiniteSet(Busy)
      /\ head.tag + Cardinality(Busy) <= calls
      /\ list \in [Threads -> Seq(Slabs)] /\ central \in Seq(Seq(Slabs))
      /\ allocator # "thread_local" => \A t \in Threads : count[t] = 0
      /\ threshold \in [Threads -> Nat]
      /\ \A t \in Threads : /\ threshold[t] >= 1
                            /\ threshold[t] <= (chunks + 1) * SlabsPerChunk
      /\ ended \subseteq Threads \ {Main} /\ lost \subseteq Slabs
      /\ outcome \in {"ok", "corrupted"}
  BY DEF TypeInv
<1>2. calls \in 0 .. CallBound
  BY DEF TypeInv
<1>3. head.tag \in Nat /\ Cardinality(Busy) \in Nat
  BY <1>1, FS_CardinalityType DEF HeadTypes, Heads
<1>4. ASSUME head' = head, next' = next, pc' = pc, old' = old, new' = new,
             tail' = tail, chosen' = chosen, calls \in Nat, calls' \in Nat,
             calls <= calls'
      PROVE  /\ HeadTypes' /\ IsFiniteSet(Busy')
             /\ head'.tag + Cardinality(Busy') <= calls'
  <2>1. HeadTypes'
    BY <1>1, <1>4 DEF HeadTypes
  <2>2. Busy' = Busy
    BY <1>4 DEF Busy
  <2> QED
    BY <1>1, <1>3, <1>4, <2>1, <2>2
<1>5. ASSUME chunks' \in 0 .. MaxChunks,
             \/ threshold' = threshold /\ chunks <= chunks'
             \/ \E t \in Threads :
                   /\ chunks' = chunks + 1
                   /\ threshold' = [threshold EXCEPT ![t] = @ + SlabsPerChunk]
      PROVE  /\ threshold' \in [Threads -> Nat]
             /\ \A t \in Threads :
                   /\ threshold'[t] >= 1
                   /\ threshold'[t] <= (chunks' + 1) * SlabsPerChunk
  BY ONLY <1>1, <1>5, ThresholdKept
<1>6. CASE SemiLockFreeStep
  <2>1. /\ allocator = "semi_lock_free" /\ allocator' = allocator
        /\ SemiLockFree!Next
        /\ UNCHANGED <<list, count, threshold, central, ended, lost, outcome>>
    BY <1>6 DEF SemiLockFreeStep, threadLocalVars, stringVars
  <2>2. CallBound = MaxLockFreeCalls /\ CallBound' = MaxLockFreeCalls
    BY <2>1 DEF CallBound
  <2>3. /\ IsFiniteSet(Busy') /\ calls' \in 0 .. MaxLockFreeCalls
        /\ head'.tag + Cardinality(Busy') <= calls'
    <3>1. calls \in 0 .. MaxLockFreeCalls
      BY <1>2, <2>2
    <3> QED
      BY ONLY <1>1, <2>1, <3>1, BusyKept
  <2>4. chunks' \in 0 .. MaxChunks /\ HeadTypes'
    BY <1>0, <2>1 DEF SlabInv, UsersInv, SemiLockFreeInv
  <2>5. chunks <= chunks'
    <3>1. chunks' = chunks \/ chunks' = chunks + 1
      BY <2>1 DEF SemiLockFree!Next, SemiLockFree!Allocate,
            SemiLockFree!Deallocate, SemiLockFree!LoadHead,
            SemiLockFree!ReadNext, SemiLockFree!Pop, SemiLockFree!PopFails,
            SemiLockFree!AllocateOneChunk, SemiLockFree!BeginDeallocate,
            SemiLockFree!LinkTail, SemiLockFree!Push, SemiLockFree!PushFails
    <3>2. chunks \in Nat
      BY <1>1, SlabAssumption DEF SlabAssumption
    <3> QED
      BY <3>1, <3>2
  <2>6. /\ threshold' \in [Threads -> Nat]
        /\ \A t \in Threads :
              /\ threshold'[t] >= 1
              /\ threshold'[t] <= (chunks' + 1) * SlabsPerChunk
    BY <1>5, <2>1, <2>4, <2>5
  <2> QED
    BY <1>0, <1>1, <2>1, <2>2, <2>3, <2>4, <2>6 DEF TypeInv
<1>7. CASE ThreadLocalStep \/ SimpleStep
  <2>1. /\ allocator \in {"thread_local", "simple"} /\ allocator' = allocator
        /\ ThreadLocal!Next \/ ThreadLocal!SimpleNext
        /\ allocator # "thread_local" => ThreadLocal!SimpleNext
        /\ UNCHANGED <<head, next, pc, old, new, tail, chosen, outcome>>
    BY <1>7 DEF ThreadLocalStep, SimpleStep, semiLockFreeVars, stringVars
  <2>2. CallBound = MaxCalls /\ CallBound' = MaxCalls
    BY <2>1 DEF CallBound
  <2>3. /\ calls' \in 0 .. MaxCalls /\ calls <= calls'
        /\ ended' \subseteq Threads \ {Main}
        /\ \/ threshold' = threshold /\ chunks <= chunks'
           \/ \E t \in Threads :
                 /\ chunks' = chunks + 1
                 /\ threshold' = [threshold EXCEPT ![t] = @ + SlabsPerChunk]
        /\ ThreadLocal!SimpleNext => count' = count
    <3>1. calls \in 0 .. MaxCalls
      BY <1>2, <2>2
    <3> QED
      BY ONLY <1>1, <2>1, <3>1, ThreadLocalCounts
  <2>4. /\ chunks' \in 0 .. MaxChunks /\ list' \in [Threads -> Seq(Slabs)]
        /\ central' \in Seq(Seq(Slabs)) /\ lost' \subseteq Slabs
    BY <1>0, <2>1 DEF SlabInv, UsersInv, PlacesInv, AccountInv, CoverInv
  <2>5. /\ HeadTypes' /\ IsFiniteSet(Busy')
        /\ head'.tag + Cardinality(Busy') <= calls'
    <3>1. calls \in Nat /\ calls' \in Nat
      BY <1>2, <2>2, <2>3, SlabAssumption DEF SlabAssumption
    <3> QED
      BY <1>4, <2>1, <2>3, <3>1
  <2>6. /\ threshold' \in [Threads -> Nat]
        /\ \A t \in Threads :
              /\ threshold'[t] >= 1
              /\ threshold'[t] <= (chunks' + 1) * SlabsPerChunk
    BY ONLY <1>5, <2>3, <2>4
  <2>7. allocator' # "thread_local" => \A t \in Threads : count'[t] = 0
    BY <1>1, <2>1, <2>3
  <2>8. outcome' \in {"ok", "corrupted"}
    BY <1>1, <2>1
  <2> QED
    BY <1>0, <2>2, <2>3, <2>4, <2>5, <2>6, <2>7, <2>8 DEF TypeInv
<1>8. CASE StringStep
  <2>1. /\ allocator = "string" /\ allocator' = allocator /\ String!Next
        /\ UNCHANGED <<head, next, pc, old, new, tail, chosen>>
        /\ UNCHANGED <<list, count, threshold, central, ended, lost>>
    BY <1>8 DEF StringStep, semiLockFreeVars, threadLocalVars
  <2>2. CallBound = MaxStringCalls /\ CallBound' = MaxStringCalls
    BY <2>1 DEF CallBound
  <2>3. /\ chunks' \in 0 .. MaxChunks /\ calls' \in 0 .. MaxStringCalls
        /\ outcome' \in {"ok", "corrupted"}
    BY <1>0, <2>1 DEF AccountInv, StringInv
  <2>4. calls' = calls + 1 /\ (chunks' = chunks \/ chunks' = chunks + 1)
    BY <2>1 DEF String!Next, String!AllocateNothing, String!AllocateLong,
          String!AllocateFromList, String!AllocateFromChunk,
          String!Corrupted, String!Deallocate,
          String!Call
  <2>5. calls \in Nat /\ calls' \in Nat /\ calls <= calls' /\ chunks <= chunks'
    <3>1. MaxStringCalls \in Nat /\ MaxChunks \in Nat
      BY StringNames
    <3>2. calls \in Nat /\ chunks \in Nat
      BY ONLY <1>1, <1>2, <2>2, <3>1
    <3> QED
      BY ONLY <2>4, <3>2
  <2>6. /\ HeadTypes' /\ IsFiniteSet(Busy')
        /\ head'.tag + Cardinality(Busy') <= calls'
    BY <1>4, <2>1, <2>5
  <2>7. /\ threshold' \in [Threads -> Nat]
        /\ \A t \in Threads :
              /\ threshold'[t] >= 1
              /\ threshold'[t] <= (chunks' + 1) * SlabsPerChunk
    BY <1>5, <2>1, <2>3, <2>5
  <2> QED
    BY <1>0, <1>1, <2>1, <2>2, <2>3, <2>6, <2>7 DEF TypeInv
<1>9. CASE UNCHANGED vars
  <2>1. /\ UNCHANGED <<allocator, users, chunks, calls>>
        /\ UNCHANGED <<head, next, pc, old, new, tail, chosen>>
        /\ UNCHANGED <<list, count, threshold, central, ended, lost>>
        /\ UNCHANGED <<lists, live, outcome>>
    BY <1>9 DEF vars, semiLockFreeVars, threadLocalVars, stringVars
  <2>2. HeadTypes' /\ Busy' = Busy /\ CallBound' = CallBound
    BY <1>1, <2>1 DEF HeadTypes, Busy, CallBound
  <2> QED
    BY <1>0, <1>1, <1>2, <2>1, <2>2 DEF TypeInv
<1> QED
  BY <1>6, <1>7, <1>8, <1>9 DEF Next

\* Every variable of every allocator has its type, whichever allocator it is: in
\* particular a call changes the head of the semi-lock-free list, and so its
\* tag, at most once, and a thread has no more free slabs than there are.
THEOREM SlabTypes == Spec => []TypeOK
<1>1. TypeInv => TypeOK
  <2> SUFFICES ASSUME TypeInv PROVE TypeOK
    OBVIOUS
  <2>0. /\ SlabInv /\ AccountInv
        /\ chunks \in 0 .. MaxChunks /\ calls \in 0 .. CallBound
        /\ HeadTypes /\ IsFiniteSet(Busy)
        /\ head.tag + Cardinality(Busy) <= calls
        /\ list \in [Threads -> Seq(Slabs)] /\ central \in Seq(Seq(Slabs))
        /\ threshold \in [Threads -> Nat]
        /\ ended \subseteq Threads \ {Main} /\ lost \subseteq Slabs
        /\ outcome \in {"ok", "corrupted"}
    BY DEF TypeInv, AccountInv
  <2>1. MaxChunks \in Nat /\ SlabsPerChunk \in Nat /\ chunks \in Nat
    BY <2>0, SlabAssumption DEF SlabAssumption
  <2>2. SemiLockFree!TypeOK
    <3>1. /\ head.node \in Links /\ head.tag \in Nat
          /\ Cardinality(Busy) \in Nat
      BY <2>0, FS_CardinalityType DEF HeadTypes, Heads
    <3>2. calls \in Nat
      <4>1. CallBound \in Nat
        BY SlabAssumption DEF SlabAssumption, CallBound
      <4> QED
        BY <2>0, <4>1
    <3>3. head.tag \in 0 .. calls
      BY <2>0, <3>1, <3>2
    <3>4. \A s \in Slabs : next[s] \in Words
      BY <2>0 DEF HeadTypes
    <3>5. \A t \in Threads :
             /\ pc[t] \in {"idle", "allocate", "pop", "link", "push"}
             /\ old[t].node \in Links /\ new[t] \in Words
             /\ tail[t] \in Links /\ chosen[t] \in Links
      BY <2>0 DEF HeadTypes, Heads
    <3>6. /\ SemiLockFree!Slabs = Slabs /\ SemiLockFree!Null = Null
          /\ SemiLockFree!Garbage = <<0, 1>>
      BY SlabNames
    <3> QED
      BY ONLY <3>1, <3>3, <3>4, <3>5, <3>6
         DEF SemiLockFree!TypeOK, Links, Words
  <2>3. ThreadLocal!TypeOK
    <3>1. \A t \in Threads : Elems(list[t]) \subseteq Slabs
      <4> SUFFICES ASSUME NEW t \in Threads, NEW l, l = list[t]
                   PROVE  Elems(l) \subseteq Slabs
        BY Zenon
      <4>1. l \in Seq(Slabs)
        BY <2>0
      <4> QED
        BY <4>1 DEF Elems
    <3>2. \A i \in DOMAIN central : Elems(central[i]) \subseteq Slabs
      <4> SUFFICES ASSUME NEW i \in DOMAIN central, NEW l, l = central[i]
                   PROVE  Elems(l) \subseteq Slabs
        BY Zenon
      <4>1. l \in Seq(Slabs)
        BY <2>0
      <4> QED
        BY <4>1 DEF Elems
    <3>x. PICK x, y : /\ x = MaxChunks * SlabsPerChunk
                      /\ y = (MaxChunks + 1) * SlabsPerChunk
      BY ONLY TRUE
    <3>3. x \in Nat /\ y \in Nat
      BY <2>1, <3>x
    <3>4. \A t \in Threads : count[t] \in 0 .. x
      <4>1. CASE allocator # "thread_local"
        <5>1. \A t \in Threads : count[t] = 0
          BY <4>1 DEF TypeInv
        <5>2. 0 \in 0 .. x
          BY ONLY <3>3
        <5> QED
          BY ONLY <5>1, <5>2, Zenon
      <4>2. CASE allocator = "thread_local"
        <5>1. PlacesInv /\ CountsInv
          BY <2>0, <4>2 DEF SlabInv
        <5>2. ASSUME NEW t \in Threads
              PROVE  count[t] \in 0 .. x
          <6>1. /\ list[t] \in Seq(Slabs) /\ NoRepeat(list[t])
                /\ count[t] = Len(list[t]) /\ count[t] \in Nat
            BY <5>1 DEF PlacesInv, CountsInv
          <6>2. Len(list[t]) <= x
            BY ONLY <3>x, <6>1, SlabNumber
          <6> QED
            BY <3>3, <6>1, <6>2
        <5> QED
          BY <5>2
      <4> QED
        BY <4>1, <4>2
    <3>5. \A t \in Threads : threshold[t] \in 1 .. y
      <4>1. (chunks + 1) * SlabsPerChunk <= y
        <5>1. \A a, b \in Nat :
                 a <= b => (a + 1) * SlabsPerChunk <= (b + 1) * SlabsPerChunk
          BY ONLY <2>1
        <5>2. chunks <= MaxChunks
          BY <2>0, <2>1
        <5> QED
          BY ONLY <2>1, <3>x, <5>1, <5>2
      <4>z. PICK z : z = (chunks + 1) * SlabsPerChunk
        BY ONLY TRUE
      <4>2. z \in Nat /\ z <= y
        BY <2>1, <4>1, <4>z
      <4>3. \A t \in Threads :
               threshold[t] \in Nat /\ threshold[t] >= 1 /\ threshold[t] <= z
        BY <2>0, <4>z DEF TypeInv
      <4> QED
        <5>1. \A n \in Nat : n >= 1 /\ n <= z => n \in 1 .. y
          BY ONLY <3>3, <4>2
        <5> QED
          BY ONLY <4>3, <5>1, Zenon
    <3>7. \A t \in Threads : ThreadLocal!ToSet(list[t]) \subseteq Slabs
      BY <2>0, <3>1, ListSet
    <3>8. \A i \in DOMAIN central :
             ThreadLocal!ToSet(central[i]) \subseteq Slabs
      BY <2>0, <3>2, ListSet
    <3> QED
      BY ONLY <2>0, <3>4, <3>5, <3>7, <3>8, <3>x, SlabNames
         DEF ThreadLocal!TypeOK
  <2>4. users \in [ThreadLocal!Slabs -> 0 .. 1]
    BY <2>0, SlabNames DEF SlabInv
  <2> QED
    BY <2>0, <2>2, <2>3, <2>4 DEF TypeOK
<1>2. Spec => []TypeInv
  BY TypeInit, TypeStep, PTL DEF Spec
<1> QED
  BY <1>1, <1>2, PTL
=============================================================================
