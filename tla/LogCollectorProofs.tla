------------------------- MODULE LogCollectorProofs -------------------------
(***************************************************************************)
(* The logger, for any number of threads and entries, any chunk size above *)
(* one and any drop threshold of at least two: its background thread never *)
(* crashes, the log is in the order in which the entries were taken, and   *)
(* what was taken before the stop is on the disk when the process ends.    *)
(*                                                                         *)
(* NeverCrashes is not inductive.  What carries it is that the spare is    *)
(* present exactly while no full buffer waits (ExchangeInv): the first     *)
(* full buffer takes the spare and only the background thread, which takes *)
(* all full buffers, gives a spare back.                                   *)
(*                                                                         *)
(* For the order, the pipeline (the file, the buffers being written, the   *)
(* full ones and the current one, joined) changes in three ways only: an   *)
(* entry is appended, a mark is put into it, a part of it is dropped.  The *)
(* lemmas on FlattenSeq and LogOK say what each of them does.              *)
(***************************************************************************)
EXTENDS LogCollector, TLAPS, NaturalsInduction, WellFoundedInduction

\* The types of the buffers that change hands.
BuffersOK ==
    /\ current \in Buffers
    /\ fulled \in Seq(Buffers)
    /\ to_be_written \in Seq(Buffers)
    /\ bg_pc \in {"lock", "waiting", "woken", "write", "flush", "stopped",
                  "crashed"}
    /\ logged \in [Threads -> 0 .. MaxEntries]

ExchangeInv ==
    /\ spare \in {<<>>, Null}
    /\ fulled = <<>> <=> spare # Null
    /\ bg_pc = "write" => /\ spare_for_current = Null
                          /\ spare_for_spare = Null
                          /\ Len(to_be_written) >= 2
    /\ bg_pc # "write" => /\ spare_for_current = <<>>
                          /\ spare_for_spare = <<>>
                          /\ to_be_written = <<>>

CrashInv == BuffersOK /\ ExchangeInv /\ NeverCrashes

\* A null pointer is not a buffer; an empty buffer is one.
LEMMA NullFacts == <<>> # Null /\ <<>> \in Buffers
<1>1. <<>> \in Buffers
  BY DEF Buffers
<1> QED
  BY <1>1, CollectorAssumption DEF CollectorAssumption

\* Appending an entry to a buffer gives a buffer (LogBuffer::append).
LEMMA AppendToBuffer ==
    ASSUME NEW b \in Buffers, NEW e \in Entries \cup {FlushMark, DropMark}
    PROVE  Append(b, e) \in Buffers
BY DEF Buffers

\* The logger starts with a current buffer, a spare and two clean buffers.
LEMMA CrashInit == Init => CrashInv
<1> SUFFICES ASSUME Init PROVE CrashInv
  OBVIOUS
<1>1. 0 \in 0 .. MaxEntries
  BY CollectorAssumption DEF CollectorAssumption
<1>2. BuffersOK
  BY <1>1, NullFacts DEF Init, BuffersOK
<1>3. ExchangeInv /\ NeverCrashes
  BY NullFacts DEF Init, ExchangeInv, NeverCrashes
<1> QED
  BY <1>2, <1>3 DEF CrashInv

\* A collection that starts from a full buffer, with the spare used up, leaves
\* the background thread writing at least two buffers.
LEMMA CollectStep ==
    ASSUME CrashInv, NEW full \in Seq(Buffers), full # <<>>, bg_pc # "write",
           Collect(full, Null), UNCHANGED logged
    PROVE  CrashInv'
<1>1. /\ current \in Buffers
      /\ spare_for_current = <<>> /\ spare_for_spare = <<>>
      /\ to_be_written = <<>>
  BY DEF CrashInv, BuffersOK, ExchangeInv
<1>2. Append(full, current) \in Seq(Buffers) /\ Len(Append(full, current)) >= 2
  <2>1. Len(full) \in Nat /\ Len(full) # 0
    OBVIOUS
  <2> QED
    BY <1>1, <2>1
<1>3. /\ to_be_written' = Append(full, current)
      /\ fulled' = <<>>
      /\ current' = <<>>
      /\ spare' = <<>>
      /\ spare_for_current' = Null
      /\ spare_for_spare' = Null
      /\ bg_pc' = "write"
  BY <1>1 DEF Collect
<1>4. BuffersOK'
  BY <1>2, <1>3, NullFacts DEF BuffersOK, CrashInv
<1>5. ExchangeInv'
  BY <1>2, <1>3, NullFacts DEF ExchangeInv
<1> QED
  BY <1>3, <1>4, <1>5 DEF CrashInv, NeverCrashes

\* Every critical section of the loggers and of the background thread keeps
\* the exchange of buffers in balance.
LEMMA CrashStep == CrashInv /\ [Next]_vars => CrashInv'
<1> SUFFICES ASSUME CrashInv, [Next]_vars PROVE CrashInv'
  OBVIOUS
<1> USE DEF bufferVars, threadVars
<1>a. BuffersOK /\ ExchangeInv /\ NeverCrashes
  BY DEF CrashInv
<1>b. UNCHANGED <<bufferVars, to_be_written, bg_pc, spare_for_current,
                  spare_for_spare, logged>> => CrashInv'
  BY <1>a DEF CrashInv, BuffersOK, ExchangeInv, NeverCrashes
<1>c. ASSUME UNCHANGED <<bufferVars, to_be_written, spare_for_current,
                         spare_for_spare, logged>>,
             bg_pc # "write",
             bg_pc' \in {"lock", "waiting", "woken", "stopped"}
      PROVE  CrashInv'
  BY <1>a, <1>c DEF CrashInv, BuffersOK, ExchangeInv, NeverCrashes
<1>1. ASSUME NEW t \in Threads, NEW is_fatal \in BOOLEAN,
             TakeThisLog(t, is_fatal)
      PROVE  CrashInv'
  <2> DEFINE entry == <<t, logged[t] + 1>>
  <2>1. logged[t] + 1 \in 1 .. MaxEntries /\ logged[t] + 1 \in 0 .. MaxEntries
    BY <1>1, <1>a, CollectorAssumption, SMTT(40)
       DEF TakeThisLog, BuffersOK, CollectorAssumption
  <2>2. entry \in Entries \cup {FlushMark, DropMark}
    BY <2>1 DEF Entries
  <2>3. logged' \in [Threads -> 0 .. MaxEntries]
    BY <1>1, <1>a, <2>1 DEF TakeThisLog, BuffersOK
  <2>4. UNCHANGED <<bg_pc, spare_for_current, spare_for_spare, to_be_written>>
    BY <1>1 DEF TakeThisLog, bgVars
  <2>5. Append(current, entry) \in Buffers /\ Append(<<>>, entry) \in Buffers
    BY <1>a, <2>2, NullFacts, AppendToBuffer DEF BuffersOK
  <2>6. CASE HasRoom(current)
    <3>1. current' = Append(current, entry) /\ UNCHANGED <<spare, fulled>>
      BY <1>1, <2>6 DEF TakeThisLog
    <3> QED
      BY <1>a, <2>3, <2>4, <2>5, <3>1
         DEF CrashInv, BuffersOK, ExchangeInv, NeverCrashes
  <2>7. CASE ~ HasRoom(current)
    <3>1. fulled' = Append(fulled, current) /\ spare' = Null
      BY <1>1, <2>7 DEF TakeThisLog
    <3>2. current' = Append(<<>>, entry)
      BY <1>1, <1>a, <2>7 DEF TakeThisLog, ExchangeInv
    <3>3. fulled' \in Seq(Buffers) /\ fulled' # <<>>
      BY <1>a, <3>1 DEF BuffersOK
    <3> QED
      BY <1>a, <2>3, <2>4, <2>5, <3>1, <3>2, <3>3
         DEF CrashInv, BuffersOK, ExchangeInv, NeverCrashes
  <2> QED
    BY <2>6, <2>7
<1>2. ASSUME NEW t \in Threads, Notify(t) PROVE CrashInv'
  BY <1>2, <1>b, <1>c DEF Notify
<1>3. ASSUME NEW t \in Threads, Flush(t) \/ Finish(t) \/ Stop(t) \/ Join(t)
      PROVE  CrashInv'
  BY <1>3, <1>b DEF Flush, Finish, Stop, Join, bgVars
<1>4. CASE ExitMain
  BY <1>4, <1>b DEF ExitMain, bgVars
<1>5. CASE BgLock
  <2>1. CASE fulled = <<>>
    BY <1>5, <2>1, <1>c DEF BgLock
  <2>2. CASE fulled # <<>>
    BY <1>5, <2>2, <1>a, CollectStep DEF BgLock, BuffersOK, ExchangeInv
  <2> QED
    BY <2>1, <2>2
<1>6. CASE BgTimeout
  BY <1>6, <1>c DEF BgTimeout
<1>7. CASE BgCollect
  BY <1>7, <1>a, CollectStep DEF BgCollect, BuffersOK, ExchangeInv
<1>8. CASE BgStop
  BY <1>8, <1>c DEF BgStop
<1>9. CASE BgFlush
  <2>1. spare = <<>> /\ spare # Null
    BY <1>9, <1>a DEF BgFlush, ExchangeInv
  <2>2. Append(spare, FlushMark) \in Buffers
    BY <2>1, NullFacts, AppendToBuffer
  <2>3. <<Append(spare, FlushMark)>> \in Seq(Buffers)
    BY <2>2
  <2>4. <<Append(spare, FlushMark)>> # <<>>
    OBVIOUS
  <2> QED
    BY <1>9, <1>a, <2>1, <2>3, <2>4, CollectStep DEF BgFlush
<1>10. CASE BgContinue
  BY <1>10, <1>c DEF BgContinue
<1>11. CASE BgWrite
  <2> DEFINE n == Len(to_be_written)
             kept == SubSeq(to_be_written, 1,
                            IF n > DropThreshold THEN DropThreshold ELSE n)
  <2>1. n \in Nat /\ n >= 2 /\ DropThreshold \in Nat /\ DropThreshold >= 2
    BY <1>11, <1>a, CollectorAssumption
       DEF BgWrite, BuffersOK, ExchangeInv, CollectorAssumption
  <2>2. Len(kept) >= 2
    BY <2>1, <1>a DEF BuffersOK
  <2>3. spare_for_current = Null /\ spare_for_spare = Null
    BY <1>11, <1>a DEF BgWrite, ExchangeInv
  <2>4. /\ bg_pc' = "flush"
        /\ spare_for_current' = <<>>
        /\ spare_for_spare' = <<>>
        /\ to_be_written' = <<>>
        /\ UNCHANGED <<current, spare, fulled, logged>>
    <3> HIDE DEF kept
    <3>1. ~ (spare_for_current # Null \/ spare_for_spare # Null \/ Len(kept) < 2)
      <4>1. Len(kept) >= 2 => ~ (Len(kept) < 2)
        BY <2>1, <1>a DEF BuffersOK, kept
      <4> QED
        BY <2>2, <2>3, <4>1
    <3> QED
      BY <1>11, <3>1 DEF BgWrite, Reset, kept
  <2> QED
    BY <1>a, <2>4, NullFacts DEF CrashInv, BuffersOK, ExchangeInv, NeverCrashes
<1>12. CASE BgFlushToDisk
  BY <1>12, <1>c DEF BgFlushToDisk
<1>13. CASE UNCHANGED vars
  BY <1>13, <1>b DEF vars, bgVars
<1> QED
  BY <1>1, <1>2, <1>3, <1>4, <1>5, <1>6, <1>7, <1>8, <1>9, <1>10, <1>11,
     <1>12, <1>13 DEF Next, Background, Proceed

\* Neither "never reaches here" of the background thread is reached, a flush
\* never meets a null spare, and two buffers are always left to be recycled.
THEOREM BackgroundNeverCrashes == Spec => []NeverCrashes
<1>1. CrashInv => NeverCrashes
  BY DEF CrashInv
<1> QED
  BY <1>1, CrashInit, CrashStep, PTL DEF Spec

-----------------------------------------------------------------------------
(* Induction over sequences *)

\* Induction over sequences, for a set of them.
LEMMA SeqInduction ==
    ASSUME NEW X, NEW T, <<>> \in T,
           \A s \in Seq(X), x \in X : s \in T => Append(s, x) \in T
    PROVE  Seq(X) \subseteq T
<1> DEFINE Bad == {n \in Nat : \E s \in Seq(X) : Len(s) = n /\ s \notin T}
<1>1. SUFFICES ASSUME Bad # {} PROVE FALSE
  OBVIOUS
<1>2. PICK n \in Bad : \A m \in Bad : ~ (<<m, n>> \in OpToRel(<, Nat))
  <2>1. Bad \subseteq Nat
    OBVIOUS
  <2> HIDE DEF Bad
  <2> QED
    BY <1>1, <2>1, NatLessThanWellFounded, WFMin
<1>3. PICK s \in Seq(X) : Len(s) = n /\ s \notin T
  BY <1>2
<1>4. n # 0
  BY <1>3
<1>5. PICK r : r = SubSeq(s, 1, n - 1)
  OBVIOUS
<1>6. r \in Seq(X) /\ Len(r) = n - 1
  BY <1>3, <1>4, <1>5
<1>7. s[n] \in X /\ s = Append(r, s[n])
  BY <1>3, <1>4, <1>5, <1>6
<1>8. r \in T
  <2>1. n - 1 \in Nat /\ n \in Nat /\ n - 1 < n
    BY <1>3, <1>4
  <2>2. n - 1 \notin Bad
    BY <1>2, <2>1 DEF OpToRel
  <2> QED
    BY <1>6, <2>1, <2>2
<1> QED
  BY <1>3, <1>6, <1>7, <1>8

-----------------------------------------------------------------------------
(* FlattenSeq *)

\* f is the function by which FlattenSeq(s) is defined.
IsFlat(s, f) == f = [i \in 1 .. Len(s) |->
                       IF i = 1 THEN s[i] ELSE f[i - 1] \o s[i]]

LEMMA FlatUnique ==
    ASSUME NEW s, Len(s) \in Nat, NEW f, NEW g, IsFlat(s, f), IsFlat(s, g)
    PROVE  f = g
<1> DEFINE Bad == {i \in 1 .. Len(s) : f[i] # g[i]}
<1>0. /\ f = [i \in 1 .. Len(s) |-> f[i]]
      /\ g = [i \in 1 .. Len(s) |-> g[i]]
      /\ \A i \in 1 .. Len(s) : f[i] = IF i = 1 THEN s[i] ELSE f[i - 1] \o s[i]
      /\ \A i \in 1 .. Len(s) : g[i] = IF i = 1 THEN s[i] ELSE g[i - 1] \o s[i]
  BY Zenon DEF IsFlat
<1>1. SUFFICES ASSUME Bad # {} PROVE FALSE
  BY <1>0, ZenonT(60)
<1>2. PICK n \in Bad : \A m \in Bad : ~ (<<m, n>> \in OpToRel(<, Nat))
  <2>1. Bad \subseteq Nat
    OBVIOUS
  <2> HIDE DEF Bad
  <2> QED
    BY <1>1, <2>1, NatLessThanWellFounded, WFMin
<1>3. n \in 1 .. Len(s) /\ n # 1
  BY <1>0, <1>2
<1>4. n - 1 \in 1 .. Len(s) /\ n - 1 \in Nat /\ n \in Nat /\ n - 1 < n
  BY <1>3
<1>5. n - 1 \notin Bad
  BY <1>2, <1>4 DEF OpToRel
<1> QED
  BY <1>0, <1>2, <1>3, <1>4, <1>5, ZenonT(60)

LEMMA FlatAppend ==
    ASSUME NEW X, NEW s \in Seq(X), NEW b \in X, NEW f, IsFlat(s, f)
    PROVE  \E g : /\ IsFlat(Append(s, b), g)
                  /\ g[Len(s) + 1] = IF Len(s) = 0 THEN b ELSE f[Len(s)] \o b
<1> DEFINE n == Len(s)
           r == Append(s, b)
           last == IF n = 0 THEN b ELSE f[n] \o b
           g == [i \in 1 .. n + 1 |-> IF i = n + 1 THEN last ELSE f[i]]
<1>1. n \in Nat /\ Len(r) = n + 1 /\ r[n + 1] = b
      /\ \A i \in 1 .. n : r[i] = s[i]
  OBVIOUS
<1>2. \A i \in 1 .. n : f[i] = IF i = 1 THEN s[i] ELSE f[i - 1] \o s[i]
  BY Zenon DEF IsFlat
<1>3. \A i \in 1 .. n + 1 : g[i] = IF i = n + 1 THEN last ELSE f[i]
  OBVIOUS
<1>4. ASSUME NEW i \in 1 .. n + 1
      PROVE  g[i] = IF i = 1 THEN r[i] ELSE g[i - 1] \o r[i]
  <2> HIDE DEF r, g
  <2>1. CASE i = n + 1
    BY <1>1, <1>3, <2>1
  <2>2. CASE i # n + 1
    <3>1. i \in 1 .. n
      BY <1>1, <2>2
    <3>2. g[i] = f[i]
      BY <1>3, <2>2
    <3>3. CASE i = 1
      BY <1>1, <1>2, <3>1, <3>2, <3>3
    <3>4. CASE i # 1
      <4>1. i - 1 \in 1 .. n + 1 /\ i - 1 # n + 1
        BY <1>1, <3>1, <3>4
      <4>2. g[i - 1] = f[i - 1]
        BY <1>3, <4>1
      <4> QED
        BY <1>1, <1>2, <3>1, <3>2, <3>4, <4>2
    <3> QED
      BY <3>3, <3>4
  <2> QED
    BY <2>1, <2>2
<1>5. IsFlat(r, g)
  <2>1. g = [i \in 1 .. n + 1 |-> g[i]]
    OBVIOUS
  <2>2. [i \in 1 .. n + 1 |-> g[i]]
          = [i \in 1 .. n + 1 |-> IF i = 1 THEN r[i] ELSE g[i - 1] \o r[i]]
    <3> HIDE DEF g, r, n
    <3> QED
      BY <1>4, Zenon
  <2> HIDE DEF g, r
  <2> QED
    BY <1>1, <2>1, <2>2 DEF IsFlat
<1>6. g[n + 1] = last
  BY <1>1
<1> HIDE DEF g
<1> QED
  BY <1>5, <1>6

LEMMA FlatExists ==
    ASSUME NEW X, NEW s \in Seq(X)
    PROVE  \E f : IsFlat(s, f)
<1> DEFINE T == {r \in Seq(X) : \E f : IsFlat(r, f)}
<1>1. <<>> \in T
  <2>1. IsFlat(<<>>, [i \in 1 .. 0 |-> 0])
    BY DEF IsFlat
  <2> QED
    BY <2>1
<1>2. \A r \in Seq(X), x \in X : r \in T => Append(r, x) \in T
  BY FlatAppend
<1> HIDE DEF T
<1>3. s \in T
  BY <1>1, <1>2, SeqInduction
<1> QED
  BY <1>3 DEF T

LEMMA FlatValue ==
    ASSUME NEW X, NEW s \in Seq(X), Len(s) # 0, NEW f, IsFlat(s, f)
    PROVE  FlattenSeq(s) = f[Len(s)]
<1>1. FlattenSeq(s) = (CHOOSE g : IsFlat(s, g))[Len(s)]
  BY DEF FlattenSeq, IsFlat
<1>2. PICK h : h = CHOOSE g : IsFlat(s, g)
  OBVIOUS
<1>3. IsFlat(s, h)
  BY <1>2, FlatExists
<1>4. f = h
  BY <1>3, FlatUnique
<1> QED
  BY <1>1, <1>2, <1>4

\* Flattening no buffers gives no entries; flattening with one more buffer
\* appends its entries.
LEMMA FlattenEmpty == FlattenSeq(<<>>) = <<>>
BY DEF FlattenSeq

LEMMA FlattenAppend ==
    ASSUME NEW S, NEW s \in Seq(Seq(S)), NEW b \in Seq(S)
    PROVE  FlattenSeq(Append(s, b)) = FlattenSeq(s) \o b
<1>1. PICK f : IsFlat(s, f)
  BY FlatExists
<1>2. PICK g : /\ IsFlat(Append(s, b), g)
               /\ g[Len(s) + 1] = IF Len(s) = 0 THEN b ELSE f[Len(s)] \o b
  BY <1>1, FlatAppend
<1>3. /\ Append(s, b) \in Seq(Seq(S))
      /\ Len(Append(s, b)) = Len(s) + 1
      /\ Len(s) + 1 # 0
  OBVIOUS
<1>4. FlattenSeq(Append(s, b)) = g[Len(s) + 1]
  BY <1>2, <1>3, FlatValue
<1>5. CASE Len(s) = 0
  <2>1. s = <<>>
    BY <1>5
  <2>2. <<>> \o b = b
    OBVIOUS
  <2> QED
    BY <1>2, <1>4, <1>5, <2>1, <2>2, FlattenEmpty
<1>6. CASE Len(s) # 0
  <2>1. FlattenSeq(s) = f[Len(s)]
    BY <1>1, <1>6, FlatValue
  <2> QED
    BY <1>2, <1>4, <1>6, <2>1
<1> QED
  BY <1>5, <1>6

LEMMA FlattenType ==
    ASSUME NEW S, NEW s \in Seq(Seq(S))
    PROVE  FlattenSeq(s) \in Seq(S)
<1> DEFINE T == {r \in Seq(Seq(S)) : FlattenSeq(r) \in Seq(S)}
<1>1. <<>> \in T
  <2>1. <<>> \in Seq(Seq(S)) /\ <<>> \in Seq(S)
    OBVIOUS
  <2> QED
    BY <2>1, FlattenEmpty, Zenon
<1>2. ASSUME NEW r \in Seq(Seq(S)), NEW x \in Seq(S), FlattenSeq(r) \in Seq(S)
      PROVE  Append(r, x) \in Seq(Seq(S)) /\ FlattenSeq(Append(r, x)) \in Seq(S)
  <2>1. Append(r, x) \in Seq(Seq(S))
    OBVIOUS
  <2>2. FlattenSeq(Append(r, x)) = FlattenSeq(r) \o x
    BY FlattenAppend
  <2>3. \A p \in Seq(S) : p \o x \in Seq(S)
    OBVIOUS
  <2> QED
    BY <1>2, <2>1, <2>2, <2>3, Zenon
<1>3. \A r \in Seq(Seq(S)), x \in Seq(S) : r \in T => Append(r, x) \in T
  BY <1>2
<1> HIDE DEF T
<1>4. s \in T
  BY <1>1, <1>3, SeqInduction
<1> QED
  BY <1>4 DEF T

LEMMA FlattenConcat ==
    ASSUME NEW S, NEW a \in Seq(Seq(S)), NEW b \in Seq(Seq(S))
    PROVE  FlattenSeq(a \o b) = FlattenSeq(a) \o FlattenSeq(b)
<1> DEFINE T == {r \in Seq(Seq(S)) :
                   FlattenSeq(a \o r) = FlattenSeq(a) \o FlattenSeq(r)}
<1>0. FlattenSeq(a) \in Seq(S)
  BY FlattenType
<1>1. <<>> \in T
  <2>1. a \o <<>> = a /\ FlattenSeq(a) \o <<>> = FlattenSeq(a)
    BY <1>0
  <2>2. <<>> \in Seq(Seq(S))
    OBVIOUS
  <2> QED
    BY <2>1, <2>2, FlattenEmpty, Zenon
<1>2. ASSUME NEW r \in Seq(Seq(S)), NEW x \in Seq(S),
             FlattenSeq(a \o r) = FlattenSeq(a) \o FlattenSeq(r)
      PROVE  /\ Append(r, x) \in Seq(Seq(S))
             /\ FlattenSeq(a \o Append(r, x))
                  = FlattenSeq(a) \o FlattenSeq(Append(r, x))
  <2>1. a \o Append(r, x) = Append(a \o r, x) /\ a \o r \in Seq(Seq(S))
    BY SMTT(40)
  <2>2. FlattenSeq(Append(a \o r, x)) = FlattenSeq(a \o r) \o x
    BY <2>1, FlattenAppend
  <2>3. FlattenSeq(Append(r, x)) = FlattenSeq(r) \o x
    BY FlattenAppend
  <2>4. FlattenSeq(r) \in Seq(S)
    BY FlattenType
  <2>5. \A p, q \in Seq(S) : (p \o q) \o x = p \o (q \o x)
    BY SMTT(40)
  <2>6. Append(r, x) \in Seq(Seq(S))
    OBVIOUS
  <2> QED
    BY <1>0, <1>2, <2>1, <2>2, <2>3, <2>4, <2>5, <2>6, Zenon
<1>3. \A r \in Seq(Seq(S)), x \in Seq(S) : r \in T => Append(r, x) \in T
  BY <1>2
<1> HIDE DEF T
<1>4. b \in T
  BY <1>1, <1>3, SeqInduction
<1> QED
  BY <1>4 DEF T

-----------------------------------------------------------------------------
(* Logs and the order of their entries *)

\* What a buffer may hold.
Items == Entries \cup {FlushMark, DropMark}

\* The marks of the background thread are not entries of a thread.
LEMMA MarkFacts == FlushMark \notin Entries /\ DropMark \notin Entries
BY CollectorAssumption DEF CollectorAssumption, Entries, FlushMark, DropMark

\* The elements of two sequences joined.
LEMMA JoinFacts ==
    ASSUME NEW S, NEW a \in Seq(S), NEW b \in Seq(S)
    PROVE  /\ a \o b \in Seq(S)
           /\ Len(a \o b) = Len(a) + Len(b)
           /\ \A i \in 1 .. Len(a) : (a \o b)[i] = a[i]
           /\ \A i \in 1 .. Len(b) : (a \o b)[Len(a) + i] = b[i]
           /\ \A i \in Len(a) + 1 .. Len(a) + Len(b) : (a \o b)[i] = b[i - Len(a)]
OBVIOUS

LEMMA ToSetJoin ==
    ASSUME NEW S, NEW a \in Seq(S), NEW b \in Seq(S)
    PROVE  ToSet(a \o b) = ToSet(a) \cup ToSet(b)
<1>1. ASSUME NEW x \in ToSet(a \o b) PROVE x \in ToSet(a) \cup ToSet(b)
  <2>1. PICK i \in DOMAIN (a \o b) : (a \o b)[i] = x
    BY DEF ToSet
  <2>2. CASE i <= Len(a)
    <3>1. i \in DOMAIN a /\ a[i] = x
      BY <2>1, <2>2
    <3> QED
      BY <3>1 DEF ToSet
  <2>3. CASE i > Len(a)
    <3>1. i - Len(a) \in DOMAIN b /\ b[i - Len(a)] = x
      BY <2>1, <2>3
    <3> QED
      BY <3>1 DEF ToSet
  <2> QED
    BY <2>2, <2>3
<1>2. ASSUME NEW x \in ToSet(a) PROVE x \in ToSet(a \o b)
  <2>1. PICK i \in DOMAIN a : a[i] = x
    BY DEF ToSet
  <2>2. i \in DOMAIN (a \o b) /\ (a \o b)[i] = x
    BY <2>1
  <2> QED
    BY <2>2 DEF ToSet
<1>3. ASSUME NEW x \in ToSet(b) PROVE x \in ToSet(a \o b)
  <2>1. PICK i \in DOMAIN b : b[i] = x
    BY DEF ToSet
  <2>2. Len(a) + i \in DOMAIN (a \o b) /\ (a \o b)[Len(a) + i] = x
    BY <2>1
  <2> QED
    BY <2>2 DEF ToSet
<1> QED
  BY <1>1, <1>2, <1>3

LEMMA ToSetAppend ==
    ASSUME NEW S, NEW a \in Seq(S), NEW e \in S
    PROVE  ToSet(Append(a, e)) = ToSet(a) \cup {e}
<1>1. Append(a, e) = a \o <<e>> /\ <<e>> \in Seq(S)
  OBVIOUS
<1>2. ToSet(<<e>>) = {e}
  BY DEF ToSet
<1>3. ToSet(a \o <<e>>) = ToSet(a) \cup ToSet(<<e>>)
  BY <1>1, ToSetJoin, SMTT(40)
<1> QED
  BY <1>1, <1>2, <1>3, Zenon

\* A log whose entries are found, in the same order, in a log that is in
\* order is in order too.
LEMMA OrderInherited ==
    ASSUME NEW p, NEW q, NEW order, InOrder(q, order),
           \A i \in DOMAIN p : p[i] \in Entries => p[i] \in ToSet(q),
           \A i, j \in DOMAIN p :
              p[i] \in Entries /\ p[j] \in Entries /\ i < j =>
                 \E k, m \in DOMAIN q : k < m /\ q[k] = p[i] /\ q[m] = p[j]
    PROVE  InOrder(p, order)
<1> SUFFICES ASSUME NEW i \in DOMAIN p, NEW j \in DOMAIN p,
                    p[i] \in Entries, p[j] \in Entries
             PROVE  /\ p[i] \in ToSet(order)
                    /\ i < j => /\ p[i] # p[j]
                                /\ \E k, m \in DOMAIN order :
                                     k < m /\ order[k] = p[i] /\ order[m] = p[j]
  BY DEF InOrder
<1>1. p[i] \in ToSet(order)
  <2>1. PICK k \in DOMAIN q : q[k] = p[i]
    BY DEF ToSet
  <2> QED
    BY <2>1 DEF InOrder
<1>2. ASSUME i < j
      PROVE  /\ p[i] # p[j]
             /\ \E k, m \in DOMAIN order :
                   k < m /\ order[k] = p[i] /\ order[m] = p[j]
  <2>1. PICK k, m \in DOMAIN q : k < m /\ q[k] = p[i] /\ q[m] = p[j]
    BY <1>2
  <2> QED
    BY <2>1 DEF InOrder
<1> QED
  BY <1>1, <1>2

\* Where an element of a \o m \o c that is not in m is in a \o b \o c.
LEMMA Moved ==
    ASSUME NEW S, NEW a \in Seq(S), NEW b \in Seq(S), NEW c \in Seq(S),
           NEW m \in Seq(S), \A i \in DOMAIN m : m[i] \notin Entries,
           NEW i \in DOMAIN ((a \o m) \o c), ((a \o m) \o c)[i] \in Entries
    PROVE  \E k \in DOMAIN ((a \o b) \o c) :
              /\ ((a \o b) \o c)[k] = ((a \o m) \o c)[i]
              /\ \/ i <= Len(a) /\ k = i
                 \/ i > Len(a) + Len(m) /\ k = (i - Len(m)) + Len(b)
<1>1. /\ Len(a) \in Nat /\ Len(b) \in Nat /\ Len(c) \in Nat /\ Len(m) \in Nat
      /\ i \in 1 .. (Len(a) + Len(m)) + Len(c)
      /\ DOMAIN ((a \o b) \o c) = 1 .. (Len(a) + Len(b)) + Len(c)
  OBVIOUS
<1>2. a \o m \in Seq(S) /\ a \o b \in Seq(S)
  OBVIOUS
<1>3. CASE i <= Len(a)
  <2>1. ((a \o m) \o c)[i] = a[i] /\ ((a \o b) \o c)[i] = a[i]
    BY <1>1, <1>3
  <2>2. i \in DOMAIN ((a \o b) \o c)
    BY <1>1, <1>3
  <2> QED
    BY <1>3, <2>1, <2>2
<1>4. CASE i > Len(a) /\ i <= Len(a) + Len(m)
  <2>1. ((a \o m) \o c)[i] = m[i - Len(a)] /\ i - Len(a) \in DOMAIN m
    BY <1>1, <1>4
  <2> QED
    BY <2>1
<1>5. CASE i > Len(a) + Len(m)
  <2>1. ((a \o m) \o c)[i] = c[i - (Len(a) + Len(m))]
    BY <1>1, <1>5
  <2>2. PICK k : k = (i - Len(m)) + Len(b)
    OBVIOUS
  <2>3. k \in 1 .. (Len(a) + Len(b)) + Len(c) /\ k > Len(a) + Len(b)
        /\ k - (Len(a) + Len(b)) = i - (Len(a) + Len(m))
    BY <1>1, <1>5, <2>2, SMTT(40)
  <2>4. ((a \o b) \o c)[k] = c[k - (Len(a) + Len(b))]
    BY <1>1, <2>3, SMTT(40)
  <2> QED
    BY <1>1, <1>5, <2>1, <2>2, <2>3, <2>4
<1> QED
  BY <1>1, <1>3, <1>4, <1>5, SMTT(40)

\* A part of a log may be replaced by something without entries.
LEMMA OrderReplace ==
    ASSUME NEW S, NEW a \in Seq(S), NEW b \in Seq(S), NEW c \in Seq(S),
           NEW m \in Seq(S), \A i \in DOMAIN m : m[i] \notin Entries,
           NEW order, InOrder((a \o b) \o c, order)
    PROVE  InOrder((a \o m) \o c, order)
<1>1. PICK p : p = (a \o m) \o c
  OBVIOUS
<1>2. PICK q : q = (a \o b) \o c
  OBVIOUS
<1>3. ASSUME NEW i \in DOMAIN p, p[i] \in Entries
      PROVE  \E k \in DOMAIN q :
                /\ q[k] = p[i]
                /\ \/ i <= Len(a) /\ k = i
                   \/ i > Len(a) + Len(m) /\ k = (i - Len(m)) + Len(b)
  <2>1. i \in DOMAIN ((a \o m) \o c) /\ ((a \o m) \o c)[i] \in Entries
    BY <1>1, <1>3, Zenon
  <2>2. \E k \in DOMAIN ((a \o b) \o c) :
           /\ ((a \o b) \o c)[k] = ((a \o m) \o c)[i]
           /\ \/ i <= Len(a) /\ k = i
              \/ i > Len(a) + Len(m) /\ k = (i - Len(m)) + Len(b)
    BY <2>1, Moved, Zenon
  <2> QED
    BY <1>1, <1>2, <2>2, Zenon
<1>4. DOMAIN p \subseteq Int /\ Len(a) \in Nat /\ Len(b) \in Nat /\ Len(m) \in Nat
  BY <1>1
<1>5. \A i \in DOMAIN p : p[i] \in Entries => p[i] \in ToSet(q)
  BY <1>3 DEF ToSet
<1>6. ASSUME NEW i \in DOMAIN p, NEW j \in DOMAIN p,
             p[i] \in Entries, p[j] \in Entries, i < j
      PROVE  \E k, l \in DOMAIN q : k < l /\ q[k] = p[i] /\ q[l] = p[j]
  <2>1. PICK k \in DOMAIN q : /\ q[k] = p[i]
                              /\ \/ i <= Len(a) /\ k = i
                                 \/ /\ i > Len(a) + Len(m)
                                    /\ k = (i - Len(m)) + Len(b)
    BY <1>3, <1>6
  <2>2. PICK l \in DOMAIN q : /\ q[l] = p[j]
                              /\ \/ j <= Len(a) /\ l = j
                                 \/ /\ j > Len(a) + Len(m)
                                    /\ l = (j - Len(m)) + Len(b)
    BY <1>3, <1>6
  <2>3. k < l
    BY <1>4, <1>6, <2>1, <2>2
  <2> QED
    BY <2>1, <2>2, <2>3
<1>7. InOrder(p, order)
  <2>1. InOrder(q, order)
    BY <1>2, Zenon
  <2> QED
    BY <1>5, <1>6, <2>1, OrderInherited, ZenonT(60)
<1> QED
  BY <1>1, <1>7

\* An entry of the middle part is in neither of the others.
LEMMA MiddleDisjoint ==
    ASSUME NEW S, NEW a \in Seq(S), NEW b \in Seq(S), NEW c \in Seq(S),
           NEW order, InOrder((a \o b) \o c, order),
           NEW e \in Entries, e \in ToSet(b)
    PROVE  e \notin ToSet(a) /\ e \notin ToSet(c)
<1>1. PICK q : q = (a \o b) \o c
  OBVIOUS
<1>2. PICK k \in DOMAIN b : b[k] = e
  BY DEF ToSet
<1>3. Len(a) + k \in DOMAIN q /\ q[Len(a) + k] = e
  BY <1>1, <1>2
<1>d. \A i, j \in DOMAIN q : q[i] = e /\ q[j] = e => ~ (i < j)
  <2>1. InOrder(q, order)
    BY <1>1, Zenon
  <2> QED
    BY <2>1 DEF InOrder
<1>4. ASSUME NEW i \in DOMAIN a, a[i] = e PROVE FALSE
  <2>1. i \in DOMAIN q /\ q[i] = e
    BY <1>1, <1>4
  <2>2. i < Len(a) + k
    BY <1>2
  <2> QED
    BY <1>3, <1>d, <2>1, <2>2, Zenon
<1>5. ASSUME NEW i \in DOMAIN c, c[i] = e PROVE FALSE
  <2>1. (Len(a) + Len(b)) + i \in DOMAIN q /\ q[(Len(a) + Len(b)) + i] = e
    BY <1>1, <1>5
  <2>2. Len(a) + k < (Len(a) + Len(b)) + i
    BY <1>2
  <2> QED
    BY <1>3, <1>d, <2>1, <2>2, Zenon
<1> QED
  BY <1>4, <1>5 DEF ToSet

\* A new entry is appended to both.
LEMMA OrderAppend ==
    ASSUME NEW S, NEW log \in Seq(S), NEW order \in Seq(Entries),
           NEW e \in Entries, e \in S, e \notin ToSet(order),
           InOrder(log, order)
    PROVE  InOrder(Append(log, e), Append(order, e))
<1>1. PICK p : p = Append(log, e)
  OBVIOUS
<1>2. PICK o : o = Append(order, e)
  OBVIOUS
<1>3. /\ DOMAIN p = 1 .. Len(log) + 1 /\ DOMAIN log = 1 .. Len(log)
      /\ Len(log) \in Nat
      /\ p[Len(log) + 1] = e /\ \A i \in DOMAIN log : p[i] = log[i]
  BY <1>1
<1>4. /\ DOMAIN o = 1 .. Len(order) + 1 /\ DOMAIN order = 1 .. Len(order)
      /\ Len(order) \in Nat
      /\ o[Len(order) + 1] = e /\ \A i \in DOMAIN order : o[i] = order[i]
  BY <1>2
<1>5. ToSet(o) = ToSet(order) \cup {e}
  BY <1>2, ToSetAppend
<1>6. ASSUME NEW i \in DOMAIN p, NEW j \in DOMAIN p,
             p[i] \in Entries, p[j] \in Entries
      PROVE  /\ p[i] \in ToSet(o)
             /\ i < j => /\ p[i] # p[j]
                         /\ \E k, m \in DOMAIN o :
                              k < m /\ o[k] = p[i] /\ o[m] = p[j]
  <2>1. i \in DOMAIN log => p[i] \in ToSet(order)
    BY <1>3, <1>6 DEF InOrder
  <2>2. p[i] \in ToSet(o)
    BY <1>3, <1>5, <2>1
  <2>3. ASSUME i < j, j \in DOMAIN log
        PROVE  /\ p[i] # p[j]
               /\ \E k, m \in DOMAIN o : k < m /\ o[k] = p[i] /\ o[m] = p[j]
    <3>1. i \in DOMAIN log /\ p[i] = log[i] /\ p[j] = log[j]
      BY <1>3, <2>3
    <3>2. /\ log[i] # log[j]
          /\ \E k, m \in DOMAIN order :
                k < m /\ order[k] = log[i] /\ order[m] = log[j]
      BY <1>6, <2>3, <3>1 DEF InOrder
    <3> QED
      BY <1>4, <3>1, <3>2
  <2>4. ASSUME i < j, j \notin DOMAIN log
        PROVE  /\ p[i] # p[j]
               /\ \E k, m \in DOMAIN o : k < m /\ o[k] = p[i] /\ o[m] = p[j]
    <3>1. i \in DOMAIN log /\ j = Len(log) + 1 /\ p[j] = e
      BY <1>3, <2>4
    <3>2. PICK k \in DOMAIN order : order[k] = p[i]
      BY <2>1, <3>1 DEF ToSet
    <3>3. k \in DOMAIN o /\ o[k] = p[i] /\ Len(order) + 1 \in DOMAIN o
          /\ k < Len(order) + 1
      BY <1>4, <3>2
    <3>4. p[i] # e
      BY <2>1, <3>1
    <3> QED
      BY <1>4, <3>1, <3>3, <3>4
  <2> QED
    BY <2>2, <2>3, <2>4
<1>7. InOrder(p, o)
  BY <1>6 DEF InOrder
<1> QED
  BY <1>1, <1>2, <1>7

\* The order may grow at its end.
LEMMA OrderGrows ==
    ASSUME NEW log, NEW order \in Seq(Entries), NEW e \in Entries,
           InOrder(log, order)
    PROVE  InOrder(log, Append(order, e))
<1>1. PICK o : o = Append(order, e)
  OBVIOUS
<1>2. DOMAIN order \subseteq DOMAIN o /\ \A i \in DOMAIN order : o[i] = order[i]
  BY <1>1
<1>3. ToSet(order) \subseteq ToSet(o)
  BY <1>2 DEF ToSet
<1>4. InOrder(log, o)
  BY <1>2, <1>3 DEF InOrder
<1> QED
  BY <1>1, <1>4

\* The three parts of EntriesInOrder, of a log, the entries taken, the entries
\* gone with a dropped buffer, and whether the background thread has stopped.
LogOK(log, order, gone, stopped) ==
    /\ InOrder(log, order)
    /\ ToSet(log) \cap gone \cap Entries = {}
    /\ \A k \in DOMAIN order :
          \/ order[k] \in ToSet(log) \cup gone
          \/ stopped /\ \A m \in k .. Len(order) : order[m] \notin ToSet(log)

LEMMA LogStops ==
    ASSUME NEW log, NEW order, NEW gone, LogOK(log, order, gone, FALSE)
    PROVE  LogOK(log, order, gone, TRUE)
BY DEF LogOK

\* A new entry goes to the end of the log ...
LEMMA LogAppend ==
    ASSUME NEW log \in Seq(Items), NEW order \in Seq(Entries), NEW gone,
           NEW e \in Entries, e \notin ToSet(order), e \notin gone,
           LogOK(log, order, gone, FALSE)
    PROVE  LogOK(Append(log, e), Append(order, e), gone, FALSE)
<1>1. InOrder(Append(log, e), Append(order, e))
  <2>1. e \in Items /\ InOrder(log, order)
    BY DEF Items, LogOK
  <2> QED
    BY <2>1, OrderAppend
<1>2. ToSet(Append(log, e)) = ToSet(log) \cup {e}
  <2>1. e \in Items
    BY DEF Items
  <2> QED
    BY <2>1, ToSetAppend
<1>3. ASSUME NEW k \in DOMAIN Append(order, e)
      PROVE  Append(order, e)[k] \in ToSet(log) \cup {e} \cup gone
  <2>1. CASE k = Len(order) + 1
    BY <2>1
  <2>2. CASE k # Len(order) + 1
    <3>1. k \in DOMAIN order /\ Append(order, e)[k] = order[k]
      BY <2>2
    <3>2. order[k] \in ToSet(log) \cup gone
      BY <3>1 DEF LogOK
    <3> QED
      BY <3>1, <3>2
  <2> QED
    BY <2>1, <2>2
<1>4. (ToSet(log) \cup {e}) \cap gone \cap Entries = {}
  BY DEF LogOK
<1> QED
  BY <1>1, <1>2, <1>3, <1>4, Zenon DEF LogOK

\* ... unless nobody writes the log any more.
LEMMA LogIgnores ==
    ASSUME NEW log \in Seq(Items), NEW order \in Seq(Entries), NEW gone,
           NEW e \in Entries, e \notin ToSet(order), e \notin gone,
           LogOK(log, order, gone, TRUE)
    PROVE  LogOK(log, Append(order, e), gone, TRUE)
<1>1. InOrder(log, Append(order, e))
  <2>1. InOrder(log, order)
    BY DEF LogOK
  <2> QED
    BY <2>1, OrderGrows
<1>2. e \notin ToSet(log)
  <2>1. ASSUME NEW i \in DOMAIN log, log[i] = e PROVE FALSE
    BY <2>1 DEF LogOK, InOrder
  <2> QED
    BY <2>1 DEF ToSet
<1>3. PICK o : o = Append(order, e)
  OBVIOUS
<1>4. /\ DOMAIN o = 1 .. Len(order) + 1 /\ DOMAIN order = 1 .. Len(order)
      /\ Len(order) \in Nat /\ Len(o) = Len(order) + 1
      /\ o[Len(order) + 1] = e /\ \A i \in DOMAIN order : o[i] = order[i]
  BY <1>3
<1>5. ASSUME NEW k \in DOMAIN o, o[k] \notin ToSet(log) \cup gone,
             NEW m \in k .. Len(o)
      PROVE  o[m] \notin ToSet(log)
  <2>1. CASE m = Len(order) + 1
    BY <1>2, <1>4, <2>1
  <2>2. CASE m # Len(order) + 1
    <3>1. m \in DOMAIN order /\ k \in DOMAIN order /\ m \in k .. Len(order)
      BY <1>4, <2>2
    <3>2. o[k] = order[k] /\ o[m] = order[m]
      BY <1>4, <3>1
    <3> QED
      BY <1>5, <3>1, <3>2 DEF LogOK
  <2> QED
    BY <2>1, <2>2
<1>6. LogOK(log, o, gone, TRUE)
  <2>1. InOrder(log, o) /\ ToSet(log) \cap gone \cap Entries = {}
    BY <1>1, <1>3 DEF LogOK
  <2> QED
    BY <1>5, <2>1, Zenon DEF LogOK
<1> QED
  BY <1>3, <1>6

\* A part of the log is dropped, or a mark put into it.
LEMMA LogReplace ==
    ASSUME NEW a \in Seq(Items), NEW b \in Seq(Items), NEW c \in Seq(Items),
           NEW m \in Seq(Items), \A i \in DOMAIN m : m[i] \notin Entries,
           NEW order \in Seq(Entries), NEW gone,
           LogOK((a \o b) \o c, order, gone, FALSE)
    PROVE  LogOK((a \o m) \o c, order, gone \cup ToSet(b), FALSE)
<1>0. InOrder((a \o b) \o c, order)
  BY DEF LogOK
<1>1. InOrder((a \o m) \o c, order)
  BY <1>0, OrderReplace
<1>2. a \o b \in Seq(Items) /\ a \o m \in Seq(Items)
  OBVIOUS
<1>3. ToSet((a \o b) \o c) = ToSet(a) \cup ToSet(b) \cup ToSet(c)
  <2>1. \A p \in Seq(Items) : ToSet(p \o c) = ToSet(p) \cup ToSet(c)
    BY ToSetJoin
  <2>2. ToSet(a \o b) = ToSet(a) \cup ToSet(b)
    BY ToSetJoin
  <2> QED
    BY <1>2, <2>1, <2>2, Zenon
<1>4. ToSet((a \o m) \o c) = ToSet(a) \cup ToSet(m) \cup ToSet(c)
  <2>1. \A p \in Seq(Items) : ToSet(p \o c) = ToSet(p) \cup ToSet(c)
    BY ToSetJoin
  <2>2. ToSet(a \o m) = ToSet(a) \cup ToSet(m)
    BY ToSetJoin
  <2> QED
    BY <1>2, <2>1, <2>2, Zenon
<1>5. ToSet(m) \cap Entries = {}
  BY DEF ToSet
<1>6. \A e \in Entries : e \in ToSet(b) => e \notin ToSet(a) /\ e \notin ToSet(c)
  BY <1>0, MiddleDisjoint
<1>7. ToSet((a \o b) \o c) \cap gone \cap Entries = {}
  BY DEF LogOK
<1>8. ToSet((a \o m) \o c) \cap (gone \cup ToSet(b)) \cap Entries = {}
  BY <1>3, <1>4, <1>5, <1>6, <1>7
<1>9. \A k \in DOMAIN order : order[k] \in ToSet((a \o b) \o c) \cup gone
  BY DEF LogOK
<1>10. \A k \in DOMAIN order :
          order[k] \in ToSet((a \o m) \o c) \cup (gone \cup ToSet(b))
  BY <1>3, <1>4, <1>9
<1> QED
  BY <1>1, <1>8, <1>10, Zenon DEF LogOK

-----------------------------------------------------------------------------
(* The entries are written in the order in which they were taken *)

\* What the history variables say of the entries: a taken entry was counted,
\* and what is lost was taken.
HistoryInv ==
    /\ taken \in Seq(Entries)
    /\ \A k \in DOMAIN taken : taken[k][2] <= logged[taken[k][1]]
    /\ file \in Seq(Items)
    /\ lost \subseteq Items
    /\ lost \cap Entries \subseteq ToSet(taken)

LogInv == CrashInv /\ HistoryInv /\ EntriesInOrder

\* The buffers of the pipeline, flattened.
LEMMA PipelineParts ==
    ASSUME CrashInv, HistoryInv
    PROVE  /\ FlattenSeq(to_be_written) \in Seq(Items)
           /\ FlattenSeq(fulled) \in Seq(Items)
           /\ current \in Seq(Items)
           /\ Pipeline \in Seq(Items)
           /\ bg_pc # "stopped" =>
                Pipeline = file \o ((FlattenSeq(to_be_written)
                                       \o FlattenSeq(fulled)) \o current)
           /\ bg_pc = "stopped" => Pipeline = file
<1>1. /\ current \in Seq(Items) /\ fulled \in Seq(Seq(Items))
      /\ to_be_written \in Seq(Seq(Items)) /\ file \in Seq(Items)
  BY DEF CrashInv, BuffersOK, HistoryInv, Buffers, Items
<1>2. FlattenSeq(to_be_written) \in Seq(Items) /\ FlattenSeq(fulled) \in Seq(Items)
  BY <1>1, FlattenType
<1>3. \A f, t, u, c \in Seq(Items) : /\ f \o ((t \o u) \o c) \in Seq(Items)
                                     /\ f \o <<>> = f
  OBVIOUS
<1>4. bg_pc # "stopped" =>
         Pipeline = file \o ((FlattenSeq(to_be_written)
                                \o FlattenSeq(fulled)) \o current)
  BY DEF Pipeline
<1>5. bg_pc = "stopped" => Pipeline = file
  <2>1. bg_pc = "stopped" => Pipeline = file \o <<>>
    BY DEF Pipeline
  <2> QED
    BY <1>1, <1>3, <2>1
<1>6. Pipeline \in Seq(Items)
  <2>1. CASE bg_pc = "stopped"
    BY <1>1, <1>5, <2>1
  <2>2. CASE bg_pc # "stopped"
    <3>1. PICK t, u : t = FlattenSeq(to_be_written) /\ u = FlattenSeq(fulled)
      OBVIOUS
    <3>2. t \in Seq(Items) /\ u \in Seq(Items)
      BY <1>2, <3>1
    <3>3. file \o ((t \o u) \o current) \in Seq(Items)
      BY <1>1, <1>3, <3>2
    <3> QED
      BY <1>4, <2>2, <3>1, <3>3
  <2> QED
    BY <2>1, <2>2
<1> QED
  BY <1>1, <1>2, <1>4, <1>5, <1>6

LEMMA StoppedPipeline ==
    CrashInv /\ HistoryInv /\ bg_pc = "stopped" => Pipeline = file
BY PipelineParts

LEMMA OrderIsLogOK ==
    /\ EntriesInOrder /\ bg_pc = "stopped" => LogOK(Pipeline, taken, lost, TRUE)
    /\ EntriesInOrder /\ bg_pc # "stopped" => LogOK(Pipeline, taken, lost, FALSE)
BY DEF EntriesInOrder, LogOK

LEMMA LogOKIsOrder ==
    LogOK(Pipeline, taken, lost, bg_pc = "stopped") => EntriesInOrder
BY DEF EntriesInOrder, LogOK

\* The log, the history and the background thread's state after a step decide
\* whether it is still in order.
LEMMA OrderNext ==
    ASSUME \/ bg_pc' = "stopped" /\ LogOK(Pipeline', taken', lost', TRUE)
           \/ bg_pc' # "stopped" /\ LogOK(Pipeline', taken', lost', FALSE)
    PROVE  EntriesInOrder'
<1>1. LogOK(Pipeline', taken', lost', bg_pc' = "stopped")
  BY DEF LogOK
<1>2. (LogOK(Pipeline, taken, lost, bg_pc = "stopped") => EntriesInOrder)'
  BY LogOKIsOrder, PTL
<1> QED
  BY <1>1, <1>2

\* Nothing that the log depends on changes.
LEMMA OrderStays ==
    ASSUME EntriesInOrder, Pipeline' = Pipeline, taken' = taken, lost' = lost,
           bg_pc = "stopped" => bg_pc' = "stopped"
    PROVE  EntriesInOrder'
<1>1. CASE bg_pc = "stopped"
  BY <1>1, OrderIsLogOK, OrderNext
<1>2. CASE bg_pc # "stopped"
  <2>1. LogOK(Pipeline, taken, lost, FALSE)
    BY <1>2, OrderIsLogOK
  <2>2. LogOK(Pipeline, taken, lost, TRUE)
    BY <2>1, LogStops
  <2> QED
    BY <2>1, <2>2, OrderNext
<1> QED
  BY <1>1, <1>2

\* A thread's next entry is a new one.
LEMMA FreshEntry ==
    ASSUME CrashInv, HistoryInv, NEW t \in Threads, logged[t] < MaxEntries
    PROVE  /\ <<t, logged[t] + 1>> \in Entries
           /\ <<t, logged[t] + 1>> \notin ToSet(taken)
           /\ <<t, logged[t] + 1>> \notin lost
<1>1. logged \in [Threads -> 0 .. MaxEntries] /\ MaxEntries \in Nat
  BY CollectorAssumption DEF CrashInv, BuffersOK, CollectorAssumption
<1>2. logged[t] + 1 \in 1 .. MaxEntries /\ ~ (logged[t] + 1 <= logged[t])
  BY <1>1
<1>3. <<t, logged[t] + 1>> \in Entries
  BY <1>2 DEF Entries
<1>4. <<t, logged[t] + 1>> \notin ToSet(taken)
  <2>1. ASSUME NEW k \in DOMAIN taken, taken[k] = <<t, logged[t] + 1>>
        PROVE  FALSE
    <3>1. taken[k][1] = t /\ taken[k][2] = logged[t] + 1
      BY <2>1
    <3> QED
      BY <1>2, <3>1 DEF HistoryInv
  <2> QED
    BY <2>1 DEF ToSet
<1> QED
  BY <1>3, <1>4 DEF HistoryInv

\* take_this_log() keeps the log in order.
LEMMA TakeOrder ==
    ASSUME LogInv, NEW t \in Threads, NEW is_fatal \in BOOLEAN,
           TakeThisLog(t, is_fatal)
    PROVE  HistoryInv' /\ EntriesInOrder'
<1>0. CrashInv /\ HistoryInv /\ EntriesInOrder
  BY DEF LogInv
<1>e. PICK e : e = <<t, logged[t] + 1>>
  OBVIOUS
<1>1. e \in Entries /\ e \notin ToSet(taken) /\ e \notin lost /\ e \in Items
  <2>1. logged[t] < MaxEntries
    BY DEF TakeThisLog
  <2> QED
    BY <1>0, <1>e, <2>1, FreshEntry, Zenon DEF Items
<1>2. /\ taken' = Append(taken, e)
      /\ logged' = [logged EXCEPT ![t] = @ + 1]
      /\ UNCHANGED <<bg_pc, to_be_written, file, lost>>
  BY <1>e DEF TakeThisLog, bgVars
<1>3. HistoryInv'
  <2>1. /\ taken \in Seq(Entries)
        /\ \A k \in DOMAIN taken : taken[k][2] <= logged[taken[k][1]]
        /\ logged \in [Threads -> 0 .. MaxEntries]
    BY <1>0 DEF HistoryInv, CrashInv, BuffersOK
  <2>2. taken' \in Seq(Entries)
    BY <1>1, <1>2, <2>1
  <2>3. ASSUME NEW k \in DOMAIN taken'
        PROVE  taken'[k][2] <= logged'[taken'[k][1]]
    <3>1. CASE k = Len(taken) + 1
      <4>1. taken'[k] = e
        BY <1>2, <2>1, <3>1
      <4>2. e[1] = t /\ e[2] = logged[t] + 1 /\ logged'[t] = logged[t] + 1
        BY <1>2, <1>e, <2>1
      <4>3. logged[t] + 1 <= logged[t] + 1
        BY <2>1
      <4> QED
        BY <4>1, <4>2, <4>3, Zenon
    <3>2. CASE k # Len(taken) + 1
      <4>1. k \in DOMAIN taken /\ taken'[k] = taken[k]
        BY <1>2, <2>1, <3>2
      <4>2. PICK u, n : u = taken[k][1] /\ n = taken[k][2]
        OBVIOUS
      <4>3. u \in Threads /\ n \in Nat
        BY <2>1, <4>1, <4>2 DEF Entries
      <4>4. n <= logged[u]
        BY <2>1, <4>1, <4>2
      <4>5. logged'[u] \in Nat /\ logged[u] \in Nat /\ logged[u] <= logged'[u]
        BY <1>2, <2>1, <4>3, CollectorAssumption DEF CollectorAssumption
      <4>6. n <= logged'[u]
        BY <4>3, <4>4, <4>5
      <4> QED
        BY <4>1, <4>2, <4>6
    <3> QED
      BY <3>1, <3>2
  <2>4. ToSet(taken') = ToSet(taken) \cup {e}
    BY <1>1, <1>2, <2>1, ToSetAppend
  <2>5. /\ file' \in Seq(Items) /\ lost' \subseteq Items
        /\ lost' \cap Entries \subseteq ToSet(taken')
    BY <1>0, <1>2, <2>4 DEF HistoryInv
  <2> QED
    BY <2>2, <2>3, <2>5 DEF HistoryInv
<1>4. CrashInv'
  <2>1. Next
    BY DEF Next
  <2> QED
    BY <1>0, <2>1, CrashStep
<1>p. PICK P : P = Pipeline
  OBVIOUS
<1>5. P \in Seq(Items) /\ taken \in Seq(Entries)
  BY <1>0, <1>p, PipelineParts DEF HistoryInv
<1>6. CASE bg_pc = "stopped"
  <2>1. Pipeline' = P
    <3>1. (CrashInv /\ HistoryInv /\ bg_pc = "stopped" => Pipeline = file)'
      BY StoppedPipeline, PTL
    <3>2. Pipeline = file
      BY <1>0, <1>6, PipelineParts
    <3> QED
      BY <1>2, <1>3, <1>4, <1>6, <1>p, <3>1, <3>2
  <2>2. LogOK(P, taken, lost, TRUE)
    BY <1>0, <1>6, <1>p, OrderIsLogOK
  <2>3. LogOK(P, Append(taken, e), lost, TRUE)
    BY <1>1, <1>5, <2>2, LogIgnores
  <2>4. bg_pc' = "stopped" /\ LogOK(Pipeline', taken', lost', TRUE)
    BY <1>2, <1>6, <2>1, <2>3
  <2> QED
    BY <1>3, <2>4, OrderNext
<1>7. CASE bg_pc # "stopped"
  <2>0. /\ file \in Seq(Items) /\ FlattenSeq(to_be_written) \in Seq(Items)
        /\ FlattenSeq(fulled) \in Seq(Items) /\ current \in Seq(Items)
        /\ Pipeline = file \o ((FlattenSeq(to_be_written)
                                  \o FlattenSeq(fulled)) \o current)
    BY <1>0, <1>7, PipelineParts DEF HistoryInv
  <2>1. Pipeline' = file \o ((FlattenSeq(to_be_written)
                                \o FlattenSeq(fulled')) \o current')
    BY <1>2, <1>7 DEF Pipeline
  <2>a. PICK f, w, u, c : /\ f = file /\ w = FlattenSeq(to_be_written)
                          /\ u = FlattenSeq(fulled) /\ c = current
    OBVIOUS
  <2>b. /\ f \o ((w \o u) \o Append(c, e)) = Append(f \o ((w \o u) \o c), e)
        /\ f \o ((w \o (u \o c)) \o Append(<<>>, e))
             = Append(f \o ((w \o u) \o c), e)
    <3>1. f \in Seq(Items) /\ w \in Seq(Items) /\ u \in Seq(Items)
          /\ c \in Seq(Items)
      BY <2>0, <2>a
    <3>2. e \in Items
      BY <1>1
    <3>3. \A p \in Seq(Items) : /\ p \o Append(c, e) = Append(p \o c, e)
                                /\ f \o Append(p, e) = Append(f \o p, e)
                                /\ p \o Append(<<>>, e) = Append(p, e)
      BY ONLY <3>1, <3>2, SMTT(40)
    <3>4. /\ w \o u \in Seq(Items) /\ (w \o u) \o c \in Seq(Items)
          /\ w \o (u \o c) = (w \o u) \o c
      BY ONLY <3>1, SMTT(40)
    <3> QED
      BY <3>3, <3>4, Zenon
  <2>2. Pipeline' = Append(P, e)
    <3>1. CASE HasRoom(current)
      <4>1. current' = Append(current, e) /\ fulled' = fulled
        BY <1>e, <3>1 DEF TakeThisLog
      <4> QED
        BY <1>p, <2>0, <2>1, <2>a, <2>b, <4>1, Zenon
    <3>2. CASE ~ HasRoom(current)
      <4>1. fulled' = Append(fulled, current) /\ current' = Append(<<>>, e)
        BY <1>0, <1>e, <3>2 DEF TakeThisLog, CrashInv, ExchangeInv
      <4>2. FlattenSeq(fulled') = FlattenSeq(fulled) \o current
        <5>1. fulled \in Seq(Seq(Items)) /\ current \in Seq(Items)
          BY <1>0 DEF CrashInv, BuffersOK, Buffers, Items
        <5> QED
          BY <4>1, <5>1, FlattenAppend
      <4> QED
        BY <1>p, <2>0, <2>1, <2>a, <2>b, <4>1, <4>2, Zenon
    <3> QED
      BY <3>1, <3>2
  <2>3. LogOK(P, taken, lost, FALSE)
    BY <1>0, <1>7, <1>p, OrderIsLogOK
  <2>4. LogOK(Append(P, e), Append(taken, e), lost, FALSE)
    BY <1>1, <1>5, <2>3, LogAppend
  <2>5. bg_pc' # "stopped" /\ LogOK(Pipeline', taken', lost', FALSE)
    BY <1>2, <1>7, <2>2, <2>4
  <2> QED
    BY <1>3, <2>5, OrderNext
<1> QED
  BY <1>6, <1>7

\* A collection changes nothing in the pipeline but what is put before it.
LEMMA CollectPipeline ==
    ASSUME LogInv, NEW full \in Seq(Buffers), bg_pc \in {"lock", "woken"},
           Collect(full, Null)
    PROVE  /\ bg_pc' # "stopped" /\ UNCHANGED <<file, lost>>
           /\ Pipeline = (file \o FlattenSeq(fulled)) \o current
           /\ Pipeline' = (file \o FlattenSeq(full)) \o current
<1>0. CrashInv /\ HistoryInv /\ bg_pc # "stopped" /\ bg_pc # "write"
  BY DEF LogInv
<1>1. /\ to_be_written = <<>> /\ spare_for_current = <<>>
      /\ current \in Seq(Items) /\ file \in Seq(Items)
      /\ full \in Seq(Seq(Items)) /\ fulled \in Seq(Seq(Items))
  BY <1>0 DEF CrashInv, BuffersOK, ExchangeInv, HistoryInv, Buffers, Items
<1>2. /\ to_be_written' = Append(full, current)
      /\ fulled' = <<>> /\ current' = <<>>
      /\ bg_pc' = "write" /\ file' = file /\ lost' = lost
  BY <1>1 DEF Collect
<1>3. FlattenSeq(full) \in Seq(Items) /\ FlattenSeq(fulled) \in Seq(Items)
  BY <1>1, FlattenType
<1>4. FlattenSeq(to_be_written') = FlattenSeq(full) \o current
  BY <1>1, <1>2, FlattenAppend
<1>5. Pipeline = file \o ((<<>> \o FlattenSeq(fulled)) \o current)
  <2>1. Pipeline = file \o ((FlattenSeq(to_be_written)
                               \o FlattenSeq(fulled)) \o current)
    BY <1>0, PipelineParts
  <2> QED
    BY <1>1, <2>1, FlattenEmpty
<1>6. Pipeline' = file \o (((FlattenSeq(full) \o current) \o <<>>) \o <<>>)
  <2>1. Pipeline' = file' \o ((FlattenSeq(to_be_written')
                                 \o FlattenSeq(fulled')) \o current')
    BY <1>2 DEF Pipeline
  <2> QED
    BY <1>2, <1>4, <2>1, FlattenEmpty
<1>7. PICK f, a, b, c : /\ f = file /\ a = FlattenSeq(full)
                        /\ b = FlattenSeq(fulled) /\ c = current
  OBVIOUS
<1>8. /\ f \o ((<<>> \o b) \o c) = (f \o b) \o c
      /\ f \o (((a \o c) \o <<>>) \o <<>>) = (f \o a) \o c
  <2>1. /\ f \in Seq(Items) /\ a \in Seq(Items) /\ b \in Seq(Items)
        /\ c \in Seq(Items)
    BY <1>1, <1>3, <1>7
  <2>2. <<>> \o b = b /\ f \o (b \o c) = (f \o b) \o c
    BY ONLY <2>1, SMTT(40)
  <2>3. /\ a \o c \in Seq(Items) /\ (a \o c) \o <<>> = a \o c
        /\ f \o (a \o c) = (f \o a) \o c
    BY ONLY <2>1, SMTT(40)
  <2> QED
    BY <2>2, <2>3, Zenon
<1> QED
  BY <1>2, <1>5, <1>6, <1>7, <1>8, Zenon

\* A collection of the full buffers leaves the log as it is.
LEMMA CollectOrder ==
    ASSUME LogInv, bg_pc \in {"lock", "woken"}, Collect(fulled, Null),
           UNCHANGED <<taken, logged>>
    PROVE  HistoryInv' /\ EntriesInOrder'
<1>1. fulled \in Seq(Buffers)
  BY DEF LogInv, CrashInv, BuffersOK
<1>2. bg_pc' # "stopped" /\ UNCHANGED <<file, lost, Pipeline>>
  BY <1>1, CollectPipeline
<1>3. HistoryInv'
  BY <1>2 DEF LogInv, HistoryInv
<1> QED
  BY <1>2, <1>3, OrderStays DEF LogInv

\* A flush puts its mark before the entries of the current buffer.
LEMMA FlushOrder ==
    ASSUME LogInv, bg_pc = "woken", fulled = <<>>,
           Collect(<<Append(<<>>, FlushMark)>>, Null), UNCHANGED <<taken, logged>>
    PROVE  HistoryInv' /\ EntriesInOrder'
<1>1. PICK full : full = <<Append(<<>>, FlushMark)>>
  OBVIOUS
<1>2. <<FlushMark>> \in Seq(Items) /\ <<FlushMark>> \in Buffers
  BY DEF Items, Buffers
<1>3. full = Append(<<>>, <<FlushMark>>) /\ full \in Seq(Buffers)
  BY <1>1, <1>2
<1>4. FlattenSeq(full) = <<FlushMark>>
  <2>1. <<>> \in Seq(Seq(Items))
    OBVIOUS
  <2>2. FlattenSeq(full) = FlattenSeq(<<>>) \o <<FlushMark>>
    BY <1>2, <1>3, <2>1, FlattenAppend
  <2>3. <<>> \o <<FlushMark>> = <<FlushMark>>
    BY <1>2
  <2> QED
    BY <2>2, <2>3, FlattenEmpty
<1>5. /\ bg_pc' # "stopped" /\ UNCHANGED <<file, lost>>
      /\ Pipeline = (file \o FlattenSeq(fulled)) \o current
      /\ Pipeline' = (file \o FlattenSeq(full)) \o current
  <2>1. Collect(full, Null) /\ bg_pc \in {"lock", "woken"}
    BY <1>1
  <2> QED
    BY <1>3, <2>1, CollectPipeline
<1>6. PICK f, c : f = file /\ c = current
  OBVIOUS
<1>7. /\ f \in Seq(Items) /\ c \in Seq(Items) /\ taken \in Seq(Entries)
      /\ <<>> \in Seq(Items)
  BY <1>6 DEF LogInv, CrashInv, BuffersOK, HistoryInv, Buffers, Items
<1>8. LogOK((f \o <<>>) \o c, taken, lost, FALSE)
  <2>1. Pipeline = (f \o <<>>) \o c
    BY <1>5, <1>6, FlattenEmpty
  <2>2. LogOK(Pipeline, taken, lost, FALSE)
    BY OrderIsLogOK DEF LogInv
  <2> QED
    BY <2>1, <2>2
<1>9. LogOK((f \o <<FlushMark>>) \o c, taken, lost \cup ToSet(<<>>), FALSE)
  <2>1. \A i \in DOMAIN <<FlushMark>> : <<FlushMark>>[i] \notin Entries
    BY MarkFacts
  <2> QED
    BY <1>2, <1>7, <1>8, <2>1, LogReplace
<1>10. lost \cup ToSet(<<>>) = lost
  BY DEF ToSet
<1>11. LogOK(Pipeline', taken', lost', FALSE)
  BY <1>4, <1>5, <1>6, <1>9, <1>10
<1>12. HistoryInv'
  BY <1>5 DEF LogInv, HistoryInv
<1> QED
  BY <1>5, <1>11, <1>12, OrderNext

\* The entry point of _stop(): the rest of the pipeline, the current buffer,
\* is written.
LEMMA StopOrder ==
    ASSUME LogInv, BgStop
    PROVE  HistoryInv' /\ EntriesInOrder'
<1>0. CrashInv /\ HistoryInv /\ EntriesInOrder
  BY DEF LogInv
<1>1. /\ bg_pc = "woken" /\ bg_pc' = "stopped" /\ fulled = <<>>
      /\ file' = file \o current /\ UNCHANGED <<taken, lost, logged>>
  BY DEF BgStop, threadVars
<1>2. /\ to_be_written = <<>> /\ current \in Seq(Items) /\ file \in Seq(Items)
      /\ file \o current \in Seq(Items)
  BY <1>0, <1>1
     DEF CrashInv, BuffersOK, ExchangeInv, HistoryInv, Buffers, Items
<1>3. Pipeline = file \o current
  <2>1. Pipeline = file \o ((<<>> \o <<>>) \o current)
    BY <1>0, <1>1, <1>2, PipelineParts, FlattenEmpty
  <2>2. (<<>> \o <<>>) \o current = current
    BY <1>2
  <2> QED
    BY <2>1, <2>2
<1>4. Pipeline' = file'
  <2>1. Pipeline' = file' \o <<>>
    BY <1>1 DEF Pipeline
  <2>2. \A f \in Seq(Items) : f \o <<>> = f
    OBVIOUS
  <2> QED
    BY <1>1, <1>2, <2>1, <2>2
<1>5. HistoryInv'
  BY <1>0, <1>1, <1>2 DEF HistoryInv
<1> QED
  BY <1>0, <1>1, <1>3, <1>4, <1>5, OrderStays

\* A sequence is the join of two that have its elements.
LEMMA SplitSeq ==
    ASSUME NEW S, NEW s \in Seq(S), NEW k \in Seq(S), NEW r \in Seq(S),
           Len(k) + Len(r) = Len(s),
           \A i \in 1 .. Len(k) : k[i] = s[i],
           \A i \in 1 .. Len(r) : r[i] = s[Len(k) + i]
    PROVE  s = k \o r
<1>1. PICK j : j = k \o r
  OBVIOUS
<1>2. /\ j \in Seq(S) /\ Len(j) = Len(s)
      /\ \A i \in 1 .. Len(k) : j[i] = k[i]
      /\ \A i \in Len(k) + 1 .. Len(s) : j[i] = r[i - Len(k)]
  BY <1>1
<1>3. ASSUME NEW i \in 1 .. Len(s) PROVE j[i] = s[i]
  <2>1. CASE i <= Len(k)
    BY <1>2, <2>1
  <2>2. CASE i > Len(k)
    <3>1. /\ i - Len(k) \in 1 .. Len(r) /\ Len(k) + (i - Len(k)) = i
          /\ i \in Len(k) + 1 .. Len(s)
      BY <2>2
    <3>2. r[i - Len(k)] = s[i]
      BY <3>1
    <3> QED
      BY <1>2, <3>1, <3>2
  <2> QED
    BY <2>1, <2>2
<1>4. j = s
  <2>1. \A f \in Seq(S) : f = [i \in 1 .. Len(f) |-> f[i]]
    BY ONLY TRUE
  <2>2. /\ j = [i \in 1 .. Len(s) |-> j[i]]
        /\ s = [i \in 1 .. Len(s) |-> s[i]]
    BY ONLY <1>2, <2>1, s \in Seq(S)
  <2> QED
    BY ONLY <1>3, <2>2
<1> QED
  BY <1>1, <1>4

\* The buffers to be written are those kept and then those dropped.
Kept(s, d) == SubSeq(s, 1, IF Len(s) > d THEN d ELSE Len(s))
Dropped(s, d) == SubSeq(s, d + 1, Len(s))

LEMMA KeptAndDropped ==
    ASSUME NEW S, NEW s \in Seq(S), NEW d \in Nat
    PROVE  /\ Kept(s, d) \in Seq(S) /\ Dropped(s, d) \in Seq(S)
           /\ s = Kept(s, d) \o Dropped(s, d)
<1>k. PICK k : k = Kept(s, d)
  OBVIOUS
<1>r. PICK r : r = Dropped(s, d)
  OBVIOUS
<1> SUFFICES k \in Seq(S) /\ r \in Seq(S) /\ s = k \o r
  BY <1>k, <1>r, Zenon
<1>1. CASE Len(s) > d
  <2>1. k \in Seq(S) /\ Len(k) = d /\ \A i \in 1 .. d : k[i] = s[i]
    BY <1>k, <1>1 DEF Kept
  <2>2. /\ r \in Seq(S) /\ Len(r) = Len(s) - d
        /\ \A i \in 1 .. Len(s) - d : r[i] = s[d + i]
    BY <1>r, <1>1 DEF Dropped
  <2>3. Len(k) + Len(r) = Len(s)
    BY <2>1, <2>2
  <2>4. /\ \A i \in 1 .. Len(k) : k[i] = s[i]
        /\ \A i \in 1 .. Len(r) : r[i] = s[Len(k) + i]
    BY <2>1, <2>2, Zenon
  <2>5. s = k \o r
    BY ONLY <2>1, <2>2, <2>3, <2>4, s \in Seq(S), SplitSeq, Zenon
  <2> QED
    BY <2>1, <2>2, <2>5, Zenon
<1>2. CASE ~ (Len(s) > d)
  <2>1. k = s
    BY <1>k, <1>2 DEF Kept
  <2>2. r = <<>>
    BY <1>r, <1>2 DEF Dropped
  <2>3. s = s \o <<>> /\ <<>> \in Seq(S)
    BY ONLY s \in Seq(S)
  <2> QED
    BY <2>1, <2>2, <2>3, Zenon
<1> QED
  BY <1>1, <1>2, Zenon

\* Writing what was collected: entries leave the pipeline only with the
\* buffers dropped above the threshold.
LEMMA WriteOrder ==
    ASSUME LogInv, BgWrite
    PROVE  HistoryInv' /\ EntriesInOrder'
<1>0. CrashInv /\ HistoryInv /\ EntriesInOrder
  BY DEF LogInv
<1>k. PICK kept : kept = Kept(to_be_written, DropThreshold)
  OBVIOUS
<1>d. PICK dropped : dropped = Dropped(to_be_written, DropThreshold)
  OBVIOUS
<1>m. PICK mark : mark = IF Len(to_be_written) > DropThreshold
                         THEN <<DropMark>> ELSE <<>>
  OBVIOUS
<1>1. /\ bg_pc = "write" /\ bg_pc' \in {"crashed", "flush"}
      /\ file' = (file \o mark) \o FlattenSeq(kept)
      /\ lost' = lost \cup ToSet(FlattenSeq(dropped))
      /\ to_be_written' = <<>>
      /\ UNCHANGED <<current, fulled, taken, logged>>
  BY <1>k, <1>d, <1>m DEF BgWrite, bufferVars, threadVars, Kept, Dropped
<1>2. /\ to_be_written \in Seq(Seq(Items)) /\ fulled \in Seq(Seq(Items))
      /\ current \in Seq(Items) /\ file \in Seq(Items)
      /\ taken \in Seq(Entries) /\ lost \subseteq Items
  BY <1>0 DEF CrashInv, BuffersOK, HistoryInv, Buffers, Items
<1>3. /\ kept \in Seq(Seq(Items)) /\ dropped \in Seq(Seq(Items))
      /\ to_be_written = kept \o dropped
  <2>1. DropThreshold \in Nat
    BY CollectorAssumption DEF CollectorAssumption
  <2> QED
    BY <1>2, <1>k, <1>d, <2>1, KeptAndDropped
<1>4. /\ FlattenSeq(kept) \in Seq(Items) /\ FlattenSeq(dropped) \in Seq(Items)
      /\ FlattenSeq(fulled) \in Seq(Items)
      /\ FlattenSeq(to_be_written) = FlattenSeq(kept) \o FlattenSeq(dropped)
  BY <1>2, <1>3, FlattenType, FlattenConcat
<1>5. mark \in Seq(Items) /\ \A i \in DOMAIN mark : mark[i] \notin Entries
  <2>1. /\ <<>> \in Seq(Items)
        /\ \A i \in DOMAIN <<>> : <<>>[i] \notin Entries
    OBVIOUS
  <2>2. /\ <<DropMark>> \in Seq(Items)
        /\ \A i \in DOMAIN <<DropMark>> : <<DropMark>>[i] \notin Entries
    BY MarkFacts DEF Items
  <2> QED
    BY <1>m, <2>1, <2>2, Zenon
<1>6. PICK f, k, d, u, c : /\ f = file /\ k = FlattenSeq(kept)
                           /\ d = FlattenSeq(dropped)
                           /\ u = FlattenSeq(fulled) /\ c = current
  OBVIOUS
<1>7. /\ f \in Seq(Items) /\ k \in Seq(Items) /\ d \in Seq(Items)
      /\ u \in Seq(Items) /\ c \in Seq(Items)
  BY <1>2, <1>4, <1>6
<1>8. PICK rest : rest = (k \o d) \o (u \o c)
  OBVIOUS
<1>9. /\ rest \in Seq(Items) /\ u \o c \in Seq(Items)
      /\ f \o (((k \o d) \o u) \o c) = (f \o <<>>) \o rest
  <2>1. k \o d \in Seq(Items) /\ u \o c \in Seq(Items) /\ f \o <<>> = f
    BY ONLY <1>7
  <2>2. ((k \o d) \o u) \o c = (k \o d) \o (u \o c)
    BY ONLY <1>7, <2>1, SMTT(40)
  <2>3. (k \o d) \o (u \o c) \in Seq(Items)
    BY ONLY <2>1
  <2> QED
    BY <1>8, <2>1, <2>2, <2>3, Zenon
<1>10. LogOK((f \o <<>>) \o rest, taken, lost, FALSE)
  <2>1. bg_pc # "stopped"
    BY <1>1
  <2>2. Pipeline = f \o (((k \o d) \o u) \o c)
    BY <1>0, <1>4, <1>6, <2>1, PipelineParts
  <2>3. LogOK(Pipeline, taken, lost, FALSE)
    BY <1>0, <2>1, OrderIsLogOK
  <2> QED
    BY <1>9, <2>2, <2>3
<1>11. LogOK((f \o mark) \o rest, taken, lost, FALSE)
  <2>1. <<>> \in Seq(Items)
    OBVIOUS
  <2>2. LogOK((f \o mark) \o rest, taken, lost \cup ToSet(<<>>), FALSE)
    BY <1>2, <1>5, <1>7, <1>9, <1>10, <2>1, LogReplace
  <2>3. lost \cup ToSet(<<>>) = lost
    BY DEF ToSet
  <2> QED
    BY <2>2, <2>3
<1>12. PICK g : g = (f \o mark) \o k
  OBVIOUS
<1>13. g \in Seq(Items) /\ (f \o mark) \o rest = (g \o d) \o (u \o c)
  <2>1. f \o mark \in Seq(Items)
    BY ONLY <1>5, <1>7
  <2>2. PICK h : h = f \o mark
    OBVIOUS
  <2>3. h \o k \in Seq(Items) /\ h \o (k \o d) = (h \o k) \o d
    BY ONLY <1>7, <2>1, <2>2, SMTT(40)
  <2>4. h \o ((k \o d) \o (u \o c)) = (h \o (k \o d)) \o (u \o c)
    <3>1. h \in Seq(Items) /\ k \o d \in Seq(Items) /\ u \o c \in Seq(Items)
      BY ONLY <1>7, <2>1, <2>2
    <3>2. \A p, q \in Seq(Items) : h \o (p \o q) = (h \o p) \o q
      BY ONLY <3>1, SMTT(40)
    <3> QED
      BY <3>1, <3>2, Zenon
  <2> QED
    BY <1>8, <1>12, <2>2, <2>3, <2>4, Zenon
<1>14. LogOK((g \o <<>>) \o (u \o c), taken, lost \cup ToSet(d), FALSE)
  <2>1. <<>> \in Seq(Items) /\ \A i \in DOMAIN <<>> : <<>>[i] \notin Entries
    OBVIOUS
  <2>2. LogOK((g \o d) \o (u \o c), taken, lost, FALSE)
    BY <1>11, <1>13
  <2> QED
    BY <1>2, <1>7, <1>9, <1>13, <2>1, <2>2, LogReplace
<1>15. Pipeline' = (g \o <<>>) \o (u \o c)
  <2>1. Pipeline' = file' \o ((FlattenSeq(to_be_written')
                                 \o FlattenSeq(fulled')) \o current')
    BY <1>1 DEF Pipeline
  <2>2. Pipeline' = g \o ((<<>> \o u) \o c)
    BY <1>1, <1>6, <1>12, <2>1, FlattenEmpty
  <2>3. <<>> \o u = u /\ g \o <<>> = g
    BY ONLY <1>7, <1>13
  <2> QED
    BY <2>2, <2>3, Zenon
<1>16. LogOK(Pipeline', taken', lost', FALSE)
  BY <1>1, <1>6, <1>14, <1>15
<1>17. HistoryInv'
  <2>1. file' \in Seq(Items)
    BY <1>1, <1>6, <1>12, <1>13
  <2>2. \A e \in ToSet(d) : e \in Items
    BY <1>7 DEF ToSet
  <2>3. \A e \in ToSet(d) : e \in Entries => e \in ToSet(taken)
    <3>1. PICK q : q = (g \o d) \o (u \o c)
      OBVIOUS
    <3>2. InOrder(q, taken)
      BY <1>11, <1>13, <3>1 DEF LogOK
    <3>3. ToSet(d) \subseteq ToSet(q)
      <4>1. g \o d \in Seq(Items)
        BY ONLY <1>7, <1>13
      <4>2. ToSet(g \o d) = ToSet(g) \cup ToSet(d)
        BY <1>7, <1>13, ToSetJoin
      <4>3. \A p, w \in Seq(Items) : ToSet(p \o w) = ToSet(p) \cup ToSet(w)
        BY ToSetJoin
      <4> QED
        BY <1>9, <3>1, <4>1, <4>2, <4>3, ZenonT(60)
    <3>4. \A e \in ToSet(q) : e \in Entries => e \in ToSet(taken)
      BY <3>2 DEF InOrder, ToSet
    <3> QED
      BY <3>3, <3>4
  <2>4. lost' \subseteq Items /\ lost' \cap Entries \subseteq ToSet(taken)
    BY <1>0, <1>1, <1>6, <2>2, <2>3 DEF HistoryInv
  <2> QED
    BY <1>0, <1>1, <2>1, <2>4 DEF HistoryInv
<1> QED
  BY <1>1, <1>16, <1>17, OrderNext

LEMMA LogInit == Init => LogInv
<1> SUFFICES ASSUME Init PROVE LogInv
  OBVIOUS
<1>1. CrashInv
  BY CrashInit
<1>2. HistoryInv
  <2>1. <<>> \in Seq(Entries) /\ <<>> \in Seq(Items) /\ DOMAIN <<>> = {}
    OBVIOUS
  <2> QED
    BY <2>1 DEF Init, HistoryInv
<1>3. Pipeline = <<>>
  <2>1. Pipeline = <<>> \o ((FlattenSeq(<<>>) \o FlattenSeq(<<>>)) \o <<>>)
    BY DEF Init, Pipeline
  <2>2. <<>> \o ((<<>> \o <<>>) \o <<>>) = <<>>
    OBVIOUS
  <2> QED
    BY <2>1, <2>2, FlattenEmpty
<1>4. EntriesInOrder
  <2>1. DOMAIN <<>> = {} /\ ToSet(<<>>) = {}
    BY DEF ToSet
  <2>2. taken = <<>>
    BY DEF Init
  <2> QED
    BY <1>3, <2>1, <2>2, Zenon DEF EntriesInOrder, InOrder
<1> QED
  BY <1>1, <1>2, <1>4 DEF LogInv

\* Every step of the threads and of the background thread keeps the log in
\* order.
LEMMA LogStep == LogInv /\ [Next]_vars => LogInv'
<1> SUFFICES ASSUME LogInv, [Next]_vars PROVE LogInv'
  OBVIOUS
<1>a. CrashInv /\ HistoryInv /\ EntriesInOrder
  BY DEF LogInv
<1>b. CrashInv'
  BY <1>a, CrashStep
<1>c. SUFFICES HistoryInv' /\ EntriesInOrder'
  BY <1>b DEF LogInv
<1>d. ASSUME UNCHANGED <<bufferVars, to_be_written, file, lost, logged, taken>>,
             bg_pc = "stopped" <=> bg_pc' = "stopped"
      PROVE  HistoryInv' /\ EntriesInOrder'
  <2>1. HistoryInv'
    BY <1>a, <1>d DEF HistoryInv
  <2>2. Pipeline' = Pipeline
    BY <1>d DEF Pipeline, bufferVars
  <2> QED
    BY <1>a, <1>d, <2>1, <2>2, OrderStays
<1> USE DEF threadVars
<1>1. ASSUME NEW t \in Threads, NEW is_fatal \in BOOLEAN,
             TakeThisLog(t, is_fatal)
      PROVE  HistoryInv' /\ EntriesInOrder'
  BY <1>1, TakeOrder
<1>2. ASSUME NEW t \in Threads, Notify(t) PROVE HistoryInv' /\ EntriesInOrder'
  BY <1>2, <1>d DEF Notify
<1>3. ASSUME NEW t \in Threads, Flush(t) \/ Finish(t) \/ Stop(t) \/ Join(t)
      PROVE  HistoryInv' /\ EntriesInOrder'
  BY <1>3, <1>d DEF Flush, Finish, Stop, Join, bgVars
<1>4. CASE ExitMain
  BY <1>4, <1>d DEF ExitMain, bgVars
<1>5. CASE BgLock
  <2>1. CASE fulled = <<>>
    BY <1>5, <2>1, <1>d DEF BgLock
  <2>2. CASE fulled # <<>>
    BY <1>5, <2>2, <1>a, CollectOrder DEF BgLock, CrashInv, ExchangeInv
  <2> QED
    BY <2>1, <2>2
<1>6. CASE BgTimeout
  BY <1>6, <1>d DEF BgTimeout
<1>7. CASE BgCollect
  BY <1>7, <1>a, CollectOrder DEF BgCollect, CrashInv, ExchangeInv
<1>8. CASE BgStop
  BY <1>8, StopOrder
<1>9. CASE BgFlush
  <2>1. spare = <<>> /\ spare # Null
    BY <1>9, <1>a DEF BgFlush, CrashInv, ExchangeInv
  <2>2. /\ Collect(<<Append(<<>>, FlushMark)>>, Null)
        /\ bg_pc = "woken" /\ fulled = <<>> /\ UNCHANGED <<taken, logged>>
    BY <1>9, <2>1 DEF BgFlush
  <2> QED
    BY <2>2, FlushOrder
<1>10. CASE BgContinue
  BY <1>10, <1>d DEF BgContinue
<1>11. CASE BgWrite
  BY <1>11, WriteOrder
<1>12. CASE BgFlushToDisk
  BY <1>12, <1>d DEF BgFlushToDisk
<1>13. CASE UNCHANGED vars
  BY <1>13, <1>d DEF vars, bgVars
<1> QED
  BY <1>1, <1>2, <1>3, <1>4, <1>5, <1>6, <1>7, <1>8, <1>9, <1>10, <1>11,
     <1>12, <1>13 DEF Next, Background, Proceed

\* The log holds the entries in the order in which they were taken, each of
\* them once, and misses only those of the buffers dropped above the threshold
\* and those taken after the background thread has stopped.
THEOREM LogIsInOrder == Spec => []EntriesInOrder
<1>1. LogInv => EntriesInOrder
  BY DEF LogInv
<1> QED
  BY <1>1, LogInit, LogStep, PTL DEF Spec

-----------------------------------------------------------------------------
(* Types and the end of the process *)

\* The types that the exchange of buffers and the order do not need.
ControlOK ==
    /\ need_flush \in BOOLEAN
    /\ need_stop \in BOOLEAN
    /\ pc \in [Threads -> {"idle", "notify", "stop", "join", "done"}]
    /\ fatal \in [Threads -> BOOLEAN]
    /\ process \in {"running", "ended"}
    /\ flushes \in 0 .. MaxFlushes

\* What was taken before the stop request is on the disk, or gone, once the
\* background thread has stopped, and nobody is joined before that.
StopInv ==
    /\ on_disk \in Nat
    /\ due \in 0 .. Len(taken)
    /\ bg_pc = "stopped" =>
          /\ need_stop
          /\ on_disk = Len(file)
          /\ \A i \in 1 .. due : taken[i] \in ToSet(file) \cup lost
    /\ process = "ended" => bg_pc = "stopped"

EndInv == LogInv /\ ControlOK /\ StopInv

LEMMA EndInit == Init => EndInv
<1> SUFFICES ASSUME Init PROVE EndInv
  OBVIOUS
<1>1. LogInv
  BY LogInit
<1>2. ControlOK
  <2>1. 0 \in 0 .. MaxFlushes
    BY CollectorAssumption DEF CollectorAssumption
  <2>2. /\ pc \in [Threads -> {"idle", "notify", "stop", "join", "done"}]
        /\ fatal \in [Threads -> BOOLEAN]
    BY DEF Init
  <2> QED
    BY <2>1, <2>2 DEF Init, ControlOK
<1>3. StopInv
  BY DEF Init, StopInv
<1> QED
  BY <1>1, <1>2, <1>3 DEF EndInv

LEMMA ControlStep == EndInv /\ [Next]_vars => ControlOK'
<1> SUFFICES ASSUME EndInv, [Next]_vars PROVE ControlOK'
  OBVIOUS
<1>a. ControlOK
  BY DEF EndInv
<1> USE DEF threadVars
<1>b. UNCHANGED <<need_flush, need_stop, pc, fatal, process, flushes>>
        => ControlOK'
  BY <1>a DEF ControlOK
<1>c. need_flush' \in BOOLEAN
        /\ UNCHANGED <<need_stop, pc, fatal, process, flushes>> => ControlOK'
  BY <1>a DEF ControlOK
<1>1. ASSUME NEW t \in Threads, NEW is_fatal \in BOOLEAN,
             TakeThisLog(t, is_fatal)
      PROVE  ControlOK'
  <2>1. PICK l \in {"idle", "notify", "stop"} : pc' = [pc EXCEPT ![t] = l]
    BY <1>1 DEF TakeThisLog
  <2>2. /\ fatal' = [fatal EXCEPT ![t] = is_fatal]
        /\ UNCHANGED <<need_flush, need_stop, process, flushes>>
    BY <1>1 DEF TakeThisLog
  <2> QED
    BY <1>a, <2>1, <2>2 DEF ControlOK
<1>2. ASSUME NEW t \in Threads, Notify(t) PROVE ControlOK'
  <2>1. PICK l \in {"idle", "stop"} : pc' = [pc EXCEPT ![t] = l]
    BY <1>2 DEF Notify
  <2>2. UNCHANGED <<fatal, need_flush, need_stop, process, flushes>>
    BY <1>2 DEF Notify
  <2> QED
    BY <1>a, <2>1, <2>2 DEF ControlOK
<1>3. ASSUME NEW t \in Threads, Flush(t) PROVE ControlOK'
  <2>1. flushes + 1 \in 0 .. MaxFlushes
    BY <1>3, <1>a, CollectorAssumption DEF Flush, ControlOK, CollectorAssumption
  <2> QED
    BY <1>3, <1>a, <2>1 DEF Flush, ControlOK
<1>4. ASSUME NEW t \in Threads, Finish(t) PROVE ControlOK'
  BY <1>4, <1>a DEF Finish, ControlOK
<1>5. CASE ExitMain
  BY <1>5, <1>a DEF ExitMain, ControlOK
<1>6. ASSUME NEW t \in Threads, Stop(t) PROVE ControlOK'
  <2>1. PICK l \in {"idle", "join"} : pc' = [pc EXCEPT ![t] = l]
    BY <1>6 DEF Stop
  <2>2. need_stop' = TRUE /\ UNCHANGED <<fatal, need_flush, process, flushes>>
    BY <1>6 DEF Stop
  <2> QED
    BY <1>a, <2>1, <2>2 DEF ControlOK
<1>7. ASSUME NEW t \in Threads, Join(t) PROVE ControlOK'
  BY <1>7, <1>a DEF Join, ControlOK
<1>8. CASE BgLock \/ BgCollect \/ BgFlush
  BY <1>8, <1>c, <1>a DEF BgLock, BgCollect, BgFlush, Collect, ControlOK
<1>9. CASE BgTimeout \/ BgStop \/ BgContinue \/ BgWrite \/ BgFlushToDisk
  BY <1>9, <1>b DEF BgTimeout, BgStop, BgContinue, BgWrite, BgFlushToDisk
<1>10. CASE UNCHANGED vars
  BY <1>10, <1>b DEF vars
<1> QED
  BY <1>1, <1>2, <1>3, <1>4, <1>5, <1>6, <1>7, <1>8, <1>9, <1>10
     DEF Next, Background, Proceed

LEMMA StopStep == EndInv /\ [Next]_vars => StopInv'
<1> SUFFICES ASSUME EndInv, [Next]_vars PROVE StopInv'
  OBVIOUS
<1>a. /\ StopInv /\ CrashInv /\ HistoryInv /\ EntriesInOrder
      /\ need_stop \in BOOLEAN /\ process \in {"running", "ended"}
  BY DEF EndInv, LogInv, ControlOK
<1>t. /\ taken \in Seq(Entries) /\ file \in Seq(Items)
      /\ Len(taken) \in Nat /\ Len(file) \in Nat
  BY <1>a DEF HistoryInv
<1> USE DEF threadVars
<1>b. UNCHANGED <<on_disk, due, taken, bg_pc, need_stop, file, lost, process>>
        => StopInv'
  BY <1>a DEF StopInv
<1>c. ASSUME bg_pc # "stopped", bg_pc' # "stopped", on_disk' \in Nat,
             UNCHANGED <<due, taken, process>>
      PROVE  StopInv'
  BY <1>a, <1>c DEF StopInv
<1>1. ASSUME NEW t \in Threads, NEW is_fatal \in BOOLEAN,
             TakeThisLog(t, is_fatal)
      PROVE  StopInv'
  <2>1. PICK e \in Entries : taken' = Append(taken, e)
    BY <1>1, <1>a, FreshEntry DEF TakeThisLog
  <2>2. UNCHANGED <<on_disk, due, bg_pc, need_stop, file, lost, process>>
    BY <1>1 DEF TakeThisLog, bgVars
  <2>3. Len(taken') = Len(taken) + 1 /\ \A i \in 1 .. Len(taken) : taken'[i] = taken[i]
    BY <1>t, <2>1
  <2>4. due \in 0 .. Len(taken)
    BY <1>a DEF StopInv
  <2>5. due' \in 0 .. Len(taken')
    BY <1>t, <2>2, <2>3, <2>4
  <2>6. \A i \in 1 .. due' : taken'[i] = taken[i]
    BY <1>t, <2>2, <2>3, <2>4
  <2> QED
    BY <1>a, <2>2, <2>5, <2>6 DEF StopInv
<1>2. ASSUME NEW t \in Threads, Notify(t) PROVE StopInv'
  BY <1>2, <1>a, <1>b, <1>c DEF Notify, StopInv
<1>3. ASSUME NEW t \in Threads, Flush(t) \/ Finish(t) PROVE StopInv'
  BY <1>3, <1>b DEF Flush, Finish, bgVars
<1>4. CASE ExitMain
  BY <1>4, <1>b DEF ExitMain, bgVars
<1>5. ASSUME NEW t \in Threads, Stop(t) PROVE StopInv'
  <2>1. /\ need_stop' = TRUE
        /\ UNCHANGED <<on_disk, taken, bg_pc, file, lost, process>>
    BY <1>5 DEF Stop, bgVars
  <2>2. CASE need_stop
    <3>1. due' = due
      BY <1>5, <2>2 DEF Stop
    <3> QED
      BY <1>a, <2>1, <3>1 DEF StopInv
  <2>3. CASE ~ need_stop
    <3>1. due' = Len(taken)
      BY <1>5, <2>3 DEF Stop
    <3>2. due' \in 0 .. Len(taken)
      BY <1>t, <3>1
    <3>3. bg_pc # "stopped"
      BY <1>a, <2>3 DEF StopInv
    <3> QED
      BY <1>a, <2>1, <3>2, <3>3 DEF StopInv
  <2> QED
    BY <2>2, <2>3
<1>6. ASSUME NEW t \in Threads, Join(t) PROVE StopInv'
  BY <1>6, <1>a DEF Join, StopInv, bgVars
<1>7. CASE BgLock
  <2>1. on_disk' = on_disk /\ bg_pc' # "stopped" /\ bg_pc # "stopped"
    BY <1>7 DEF BgLock, Collect
  <2>2. UNCHANGED <<due, taken, process>>
    BY <1>7 DEF BgLock
  <2> QED
    BY <1>a, <1>c, <2>1, <2>2 DEF StopInv
<1>8. CASE BgCollect \/ BgFlush
  <2>1. on_disk' = on_disk /\ bg_pc' # "stopped" /\ bg_pc # "stopped"
    BY <1>8 DEF BgCollect, BgFlush, Collect
  <2>2. UNCHANGED <<due, taken, process>>
    BY <1>8 DEF BgCollect, BgFlush
  <2> QED
    BY <1>a, <1>c, <2>1, <2>2 DEF StopInv
<1>9. CASE BgTimeout \/ BgContinue
  BY <1>9, <1>a, <1>c DEF BgTimeout, BgContinue, StopInv
<1>10. CASE BgStop
  <2>1. /\ bg_pc = "woken" /\ bg_pc' = "stopped" /\ need_stop /\ fulled = <<>>
        /\ file' = file \o current /\ on_disk' = Len(file')
        /\ UNCHANGED <<need_stop, due, taken, lost, process>>
    BY <1>10 DEF BgStop
  <2>2. /\ to_be_written = <<>> /\ current \in Seq(Items)
        /\ file \o current \in Seq(Items)
    BY <1>a, <1>t, <2>1 DEF CrashInv, BuffersOK, ExchangeInv, Buffers, Items
  <2>3. Pipeline = file \o current
    <3>1. Pipeline = file \o ((<<>> \o <<>>) \o current)
      BY <1>a, <2>1, <2>2, PipelineParts, FlattenEmpty
    <3>2. (<<>> \o <<>>) \o current = current
      BY <2>2
    <3> QED
      BY <3>1, <3>2
  <2>4. LogOK(Pipeline, taken, lost, FALSE)
    BY <1>a, <2>1, OrderIsLogOK
  <2>5. \A k \in DOMAIN taken : taken[k] \in ToSet(file') \cup lost
    BY <2>1, <2>3, <2>4 DEF LogOK
  <2>6. due \in 0 .. Len(taken) /\ DOMAIN taken = 1 .. Len(taken)
    BY <1>a, <1>t DEF StopInv
  <2>7. \A i \in 1 .. due : i \in DOMAIN taken
    BY <1>t, <2>6
  <2>8. on_disk' \in Nat
    BY <2>1, <2>2
  <2> QED
    BY <1>a, <2>1, <2>5, <2>6, <2>7, <2>8 DEF StopInv
<1>11. CASE BgWrite
  <2>1. on_disk' = on_disk /\ bg_pc' # "stopped" /\ bg_pc # "stopped"
        /\ UNCHANGED <<due, taken, process>>
    BY <1>11 DEF BgWrite
  <2> QED
    BY <1>a, <1>c, <2>1 DEF StopInv
<1>12. CASE BgFlushToDisk
  BY <1>12, <1>a, <1>c, <1>t DEF BgFlushToDisk
<1>13. CASE UNCHANGED vars
  BY <1>13, <1>b DEF vars, bgVars
<1> QED
  BY <1>1, <1>2, <1>3, <1>4, <1>5, <1>6, <1>7, <1>8, <1>9, <1>10, <1>11,
     <1>12, <1>13 DEF Next, Background, Proceed

LEMMA EndStep == EndInv /\ [Next]_vars => EndInv'
BY LogStep, ControlStep, StopStep DEF EndInv

LEMMA EndInductive == Spec => []EndInv
BY EndInit, EndStep, PTL DEF Spec

\* The variables keep their types; the current buffer, which take_this_log()
\* dereferences unchecked, is never null.
THEOREM TypeCorrect == Spec => []TypeOK
<1>1. EndInv => TypeOK
  <2> SUFFICES ASSUME EndInv PROVE TypeOK
    OBVIOUS
  <2>1. CrashInv /\ HistoryInv /\ ControlOK /\ StopInv
    BY DEF EndInv, LogInv
  <2>2. /\ spare \in Buffers \cup {Null}
        /\ spare_for_current \in Buffers \cup {Null}
        /\ spare_for_spare \in Buffers \cup {Null}
    BY <2>1, NullFacts DEF CrashInv, ExchangeInv
  <2>3. /\ current \in Buffers /\ fulled \in Seq(Buffers)
        /\ to_be_written \in Seq(Buffers)
        /\ bg_pc \in {"lock", "waiting", "woken", "write", "flush", "stopped",
                      "crashed"}
        /\ logged \in [Threads -> 0 .. MaxEntries]
    BY <2>1 DEF CrashInv, BuffersOK
  <2>4. file \in Buffers /\ lost \subseteq Entries \cup {FlushMark, DropMark}
        /\ taken \in Seq(Entries)
    BY <2>1 DEF HistoryInv, Buffers, Items
  <2>5. on_disk \in Nat /\ due \in Nat
    BY <2>1, <2>4 DEF StopInv
  <2> QED
    BY <2>1, <2>2, <2>3, <2>4, <2>5, Zenon DEF TypeOK, ControlOK
<1> QED
  BY <1>1, EndInductive, PTL

\* Nothing that was taken before abort() or ~LogCollector asked for the stop
\* is missing on the disk when the process ends, unless its buffer was
\* dropped.
THEOREM StopWrites == Spec => []StopWritesEverything
<1>1. EndInv => StopWritesEverything
  <2> SUFFICES ASSUME EndInv, process = "ended", NEW i \in 1 .. due,
                      taken[i] \notin lost
               PROVE  OnDisk(taken[i])
    BY DEF StopWritesEverything
  <2>1. on_disk = Len(file) /\ taken[i] \in ToSet(file) /\ file \in Seq(Items)
    BY DEF EndInv, LogInv, HistoryInv, StopInv
  <2>2. PICK j \in DOMAIN file : file[j] = taken[i]
    BY <2>1 DEF ToSet
  <2>3. j \in 1 .. on_disk
    BY <2>1
  <2> QED
    BY <2>2, <2>3 DEF OnDisk
<1> QED
  BY <1>1, EndInductive, PTL

=============================================================================
