---------------------------- MODULE LogCollector ----------------------------
(***************************************************************************)
(* The asynchronous logger (src/log_collector.cc).  Threads append entries *)
(* to the current chunk buffer; a full one moves to _fulled_chunk_buffers  *)
(* and is replaced by the spare.  The background thread takes all of them, *)
(* gives two clean buffers back, and writes what it took to the log file.  *)
(*                                                                         *)
(* Every critical section of _mutex is one action.  A chunk buffer is the  *)
(* sequence of its entries, a null unique_ptr is Null.  A throw, or a use  *)
(* of a null pointer, in the background thread is bg_pc = "crashed".       *)
(* wait_for() ends with a notification or by itself (timeout or spurious   *)
(* wake-up).  A LOG_FATAL is an entry followed by abort() (~LogBuilder).   *)
(***************************************************************************)
EXTENDS Integers, SequencesExt

CONSTANTS Threads,        \* the threads that log
          Main,           \* the one that runs the static destructors
          MaxEntries,     \* bound: entries logged per thread
          ChunkSize,      \* room of a chunk buffer, in entries
          DropThreshold,  \* _DROP_THRESHOLD_OF_CHUNK_BUFFERS_TO_BE_WRITTEN
          MaxFlushes,     \* bound: calls of flush()
          Null

\* The k-th entry of a thread.  The background thread writes entries of its
\* own: "flush" and "Dropped ... chunk buffers".
Entries == Threads \X (1 .. MaxEntries)
FlushMark == <<Null, 0>>
DropMark == <<Null, 1>>
Buffers == Seq(Entries \cup {FlushMark, DropMark})

ASSUME CollectorAssumption ==
    /\ Main \in Threads
    /\ Null \notin Threads
    /\ Null \notin Buffers
    /\ MaxEntries \in Nat
    /\ MaxFlushes \in Nat
    /\ ChunkSize \in Nat /\ ChunkSize > 1
    /\ DropThreshold \in Nat /\ DropThreshold >= 2

VARIABLES
    current,            \* _current_chunk_buffer_ptr
    spare,              \* _spare_chunk_buffer_ptr
    fulled,             \* _fulled_chunk_buffers
    need_flush,         \* _need_flush
    need_stop,          \* _need_stop
    bg_pc,              \* where the background thread is
    spare_for_current,  \* its two clean buffers
    spare_for_spare,
    to_be_written,      \* fulled_chunk_buffers_to_be_written
    file,               \* what was written to the log file
    on_disk,            \* how much of it was flushed to the disk
    pc, logged, fatal,  \* per thread: program counter, entries, in LOG_FATAL
    process,            \* "running" or "ended"
    flushes,            \* calls of flush() so far
    taken,              \* history: entries in the order they were taken
    lost,               \* history: entries of dropped buffers
    due                 \* history: Len(taken) when need_stop was set

bgVars == <<bg_pc, spare_for_current, spare_for_spare, to_be_written, file,
            on_disk, lost>>
bufferVars == <<current, spare, fulled>>
threadVars == <<pc, logged, fatal>>
vars == <<bufferVars, need_flush, need_stop, bgVars, threadVars, process,
          flushes, taken, due>>

Init ==
    /\ current = <<>>
    /\ spare = <<>>
    /\ fulled = <<>>
    /\ need_flush = FALSE
    /\ need_stop = FALSE
    /\ bg_pc = "lock"
    /\ spare_for_current = <<>>
    /\ spare_for_spare = <<>>
    /\ to_be_written = <<>>
    /\ file = <<>>
    /\ on_disk = 0
    /\ pc = [t \in Threads |-> "idle"]
    /\ logged = [t \in Threads |-> 0]
    /\ fatal = [t \in Threads |-> FALSE]
    /\ process = "running"
    /\ flushes = 0
    /\ taken = <<>>
    /\ lost = {}
    /\ due = 0

-----------------------------------------------------------------------------
(* Threads that log *)

\* Thread t is at a label, in a process that has not ended.
At(t, label) == process = "running" /\ pc[t] = label

\* entry_size < length_of_spare()
HasRoom(buffer) == 1 < ChunkSize - Len(buffer)

\* take_this_log(), called by ~LogBuilder; level FATAL goes on to abort().
TakeThisLog(t, is_fatal) ==
    LET entry == <<t, logged[t] + 1>>
        after == IF is_fatal THEN "stop" ELSE "idle"
    IN  /\ At(t, "idle")
        /\ logged[t] < MaxEntries
        /\ logged' = [logged EXCEPT ![t] = @ + 1]
        /\ fatal' = [fatal EXCEPT ![t] = is_fatal]
        /\ taken' = Append(taken, entry)
        /\ IF HasRoom(current)
           THEN /\ current' = Append(current, entry)
                /\ pc' = [pc EXCEPT ![t] = after]
                /\ UNCHANGED <<spare, fulled>>
           ELSE /\ fulled' = Append(fulled, current)
                /\ current' = Append(IF spare = Null THEN <<>> ELSE spare,
                                     entry)
                /\ spare' = Null
                /\ pc' = [pc EXCEPT ![t] = "notify"]
        /\ UNCHANGED <<need_flush, need_stop, bgVars, process, flushes, due>>

\* _cond.notify_all(), after the mutex was released.
Notify(t) ==
    /\ At(t, "notify")
    /\ bg_pc' = IF bg_pc = "waiting" THEN "woken" ELSE bg_pc
    /\ pc' = [pc EXCEPT ![t] = IF fatal[t] THEN "stop" ELSE "idle"]
    /\ UNCHANGED <<bufferVars, need_flush, need_stop, spare_for_current,
                   spare_for_spare, to_be_written, file, on_disk, lost, logged,
                   fatal, process, flushes, taken, due>>

\* flush()
Flush(t) ==
    /\ At(t, "idle")
    /\ flushes < MaxFlushes
    /\ need_flush' = TRUE
    /\ flushes' = flushes + 1
    /\ UNCHANGED <<bufferVars, need_stop, bgVars, threadVars, process, taken,
                   due>>

\* A thread other than main ends.
Finish(t) ==
    /\ t # Main
    /\ At(t, "idle")
    /\ pc' = [pc EXCEPT ![t] = "done"]
    /\ UNCHANGED <<bufferVars, need_flush, need_stop, bgVars, process, flushes,
                   taken, due, logged, fatal>>

\* main() has joined its threads and returns: ~CleanUpHelper, ~LogCollector.
ExitMain ==
    /\ At(Main, "idle")
    /\ \A t \in Threads \ {Main} : pc[t] = "done"
    /\ pc' = [pc EXCEPT ![Main] = "stop"]
    /\ fatal' = [fatal EXCEPT ![Main] = FALSE]
    /\ UNCHANGED <<bufferVars, need_flush, need_stop, bgVars, process, flushes,
                   taken, due, logged>>

\* _stop(): the first caller goes on to join, any other one returns.
Stop(t) ==
    /\ At(t, "stop")
    /\ need_stop' = TRUE
    /\ IF need_stop
       THEN /\ pc' = [pc EXCEPT ![t] = "idle"]
            /\ UNCHANGED due
       ELSE /\ pc' = [pc EXCEPT ![t] = "join"]
            /\ due' = Len(taken)
    /\ UNCHANGED <<bufferVars, need_flush, bgVars, process, flushes, taken,
                   logged, fatal>>

\* The background thread is joined; ::abort(), or the end of main().
Join(t) ==
    /\ At(t, "join")
    /\ bg_pc = "stopped"
    /\ process' = "ended"
    /\ pc' = [pc EXCEPT ![t] = "done"]
    /\ UNCHANGED <<bufferVars, need_flush, need_stop, bgVars, flushes, taken,
                   due, logged, fatal>>

-----------------------------------------------------------------------------
(* The background thread *)

\* Mutant: the spare is filled from the wrong, just moved-from, pointer.
CollectMovedFrom(full, rest_of_spare) ==
    /\ to_be_written' = Append(full, current)
    /\ fulled' = to_be_written
    /\ spare' = spare_for_current
    /\ current' = Null
    /\ spare_for_current' = Null
    /\ bg_pc' = "write"
    /\ UNCHANGED <<need_stop, spare_for_spare, file, on_disk, lost>>

\* The rest of the critical section: take the buffers, give two clean ones.
Collect(full, rest_of_spare) ==
    /\ to_be_written' = Append(full, current)
    /\ fulled' = to_be_written
    /\ current' = spare_for_current
    /\ spare_for_current' = Null
    /\ IF rest_of_spare # Null
       THEN /\ bg_pc' = "crashed"
            /\ UNCHANGED <<spare, spare_for_spare>>
       ELSE /\ bg_pc' = "write"
            /\ spare' = spare_for_spare
            /\ spare_for_spare' = Null
    /\ UNCHANGED <<need_stop, file, on_disk, lost>>

\* The top of the loop: wait if there is nothing to collect.
BgLock ==
    /\ bg_pc = "lock"
    /\ IF fulled = <<>>
       THEN /\ bg_pc' = "waiting"
            /\ UNCHANGED <<bufferVars, need_stop, spare_for_current,
                           spare_for_spare, to_be_written, file, on_disk, lost>>
       ELSE Collect(fulled, spare)
    /\ UNCHANGED <<need_flush, threadVars, process, flushes, taken, due>>

\* Mutant: wait() with the predicate, without a timeout.
BgNoTimeout ==
    /\ bg_pc = "waiting"
    /\ fulled # <<>>
    /\ bg_pc' = "woken"
    /\ UNCHANGED <<bufferVars, need_flush, need_stop, spare_for_current,
                   spare_for_spare, to_be_written, file, on_disk, lost,
                   threadVars, process, flushes, taken, due>>

\* wait_for() times out, or wakes up spuriously.
BgTimeout ==
    /\ bg_pc = "waiting"
    /\ bg_pc' = "woken"
    /\ UNCHANGED <<bufferVars, need_flush, need_stop, spare_for_current,
                   spare_for_spare, to_be_written, file, on_disk, lost,
                   threadVars, process, flushes, taken, due>>

\* wait_for() has returned with the mutex held: collect, ...
BgCollect ==
    /\ bg_pc = "woken"
    /\ fulled # <<>>
    /\ Collect(fulled, spare)
    /\ UNCHANGED <<need_flush, threadVars, process, flushes, taken, due>>

\* Mutant: the last buffer is not written.
BgStopAtOnce ==
    /\ bg_pc = "woken"
    /\ fulled = <<>>
    /\ need_stop
    /\ bg_pc' = "stopped"
    /\ UNCHANGED <<bufferVars, need_flush, need_stop, spare_for_current,
                   spare_for_spare, to_be_written, file, on_disk, lost,
                   threadVars, process, flushes, taken, due>>

\* ... stop: what is in the current buffer is written, ...
BgStop ==
    /\ bg_pc = "woken"
    /\ fulled = <<>>
    /\ need_stop
    /\ file' = file \o current
    /\ on_disk' = Len(file')
    /\ bg_pc' = "stopped"
    /\ UNCHANGED <<bufferVars, need_flush, need_stop, spare_for_current,
                   spare_for_spare, to_be_written, lost, threadVars, process,
                   flushes, taken, due>>

\* Mutant: a flush is served before the full buffers are looked at.
BgFlushFirst ==
    /\ bg_pc = "woken"
    /\ ~ need_stop
    /\ need_flush
    /\ need_flush' = FALSE
    /\ IF spare = Null
       THEN /\ bg_pc' = "crashed"
            /\ UNCHANGED <<bufferVars, need_stop, spare_for_current,
                           spare_for_spare, to_be_written, file, on_disk, lost>>
       ELSE Collect(<<Append(spare, FlushMark)>>, Null)
    /\ UNCHANGED <<threadVars, process, flushes, taken, due>>

\* ... flush: the spare becomes a full buffer with the mark in it, ...
BgFlush ==
    /\ bg_pc = "woken"
    /\ fulled = <<>>
    /\ ~ need_stop
    /\ need_flush
    /\ need_flush' = FALSE
    /\ IF spare = Null
       THEN /\ bg_pc' = "crashed"
            /\ UNCHANGED <<bufferVars, need_stop, spare_for_current,
                           spare_for_spare, to_be_written, file, on_disk, lost>>
       ELSE Collect(<<Append(spare, FlushMark)>>, Null)
    /\ UNCHANGED <<threadVars, process, flushes, taken, due>>

\* ... or start over.
BgContinue ==
    /\ bg_pc = "woken"
    /\ fulled = <<>>
    /\ ~ need_stop
    /\ ~ need_flush
    /\ bg_pc' = "lock"
    /\ UNCHANGED <<bufferVars, need_flush, need_stop, spare_for_current,
                   spare_for_spare, to_be_written, file, on_disk, lost,
                   threadVars, process, flushes, taken, due>>

\* Mutant: a buffer is recycled as it is.
NoReset(buffer) == buffer

\* FixedSizeLogBuffer::reset()
Reset(buffer) == <<>>

\* Outside the mutex: drop what is above the threshold, write the rest and
\* keep two of the buffers, reset, as the clean ones.
BgWrite ==
    LET n == Len(to_be_written)
        kept == SubSeq(to_be_written, 1, IF n > DropThreshold THEN DropThreshold
                                                              ELSE n)
        dropped == SubSeq(to_be_written, DropThreshold + 1, n)
    IN  /\ bg_pc = "write"
        /\ file' = file \o (IF n > DropThreshold THEN <<DropMark>> ELSE <<>>)
                        \o FlattenSeq(kept)
        /\ lost' = lost \cup ToSet(FlattenSeq(dropped))
        /\ to_be_written' = <<>>
        /\ IF spare_for_current # Null \/ spare_for_spare # Null
              \/ Len(kept) < 2
           THEN /\ bg_pc' = "crashed"
                /\ UNCHANGED <<spare_for_current, spare_for_spare>>
           ELSE /\ bg_pc' = "flush"
                /\ spare_for_current' = Reset(kept[1])
                /\ spare_for_spare' = Reset(kept[2])
        /\ UNCHANGED <<bufferVars, need_flush, need_stop, on_disk, threadVars,
                       process, flushes, taken, due>>

\* Mutant: nothing is flushed.
BgNoFlushToDisk ==
    /\ bg_pc = "flush"
    /\ bg_pc' = "lock"
    /\ UNCHANGED <<bufferVars, need_flush, need_stop, spare_for_current,
                   spare_for_spare, to_be_written, file, on_disk, lost,
                   threadVars, process, flushes, taken, due>>

\* log_file.flush_to_disk()
BgFlushToDisk ==
    /\ bg_pc = "flush"
    /\ on_disk' = Len(file)
    /\ bg_pc' = "lock"
    /\ UNCHANGED <<bufferVars, need_flush, need_stop, spare_for_current,
                   spare_for_spare, to_be_written, file, lost, threadVars,
                   process, flushes, taken, due>>

-----------------------------------------------------------------------------
Background ==
    \/ BgLock \/ BgTimeout \/ BgCollect \/ BgStop \/ BgFlush \/ BgContinue
    \/ BgWrite \/ BgFlushToDisk

\* What a thread does by itself once it is in take_this_log() or abort().
Proceed(t) == Notify(t) \/ Stop(t) \/ Join(t)

Next ==
    \/ Background
    \/ \E t \in Threads : \/ \E is_fatal \in BOOLEAN : TakeThisLog(t, is_fatal)
                          \/ Flush(t)
                          \/ Finish(t)
                          \/ Proceed(t)
    \/ ExitMain

\* The background thread is scheduled and wait_for() times out; a thread in
\* the middle of a call goes on.
Fairness ==
    /\ WF_vars(Background)
    /\ \A t \in Threads : WF_vars(Proceed(t))

Spec == Init /\ [][Next]_vars /\ Fairness

-----------------------------------------------------------------------------
(* Properties *)

\* The variables have their types; in particular the current buffer, which
\* take_this_log() uses unchecked, is never null.
TypeOK ==
    /\ current \in Buffers
    /\ spare \in Buffers \cup {Null}
    /\ fulled \in Seq(Buffers)
    /\ need_flush \in BOOLEAN
    /\ need_stop \in BOOLEAN
    /\ bg_pc \in {"lock", "waiting", "woken", "write", "flush", "stopped",
                 "crashed"}
    /\ spare_for_current \in Buffers \cup {Null}
    /\ spare_for_spare \in Buffers \cup {Null}
    /\ to_be_written \in Seq(Buffers)
    /\ file \in Buffers
    /\ on_disk \in Nat
    /\ pc \in [Threads -> {"idle", "notify", "stop", "join", "done"}]
    /\ logged \in [Threads -> 0 .. MaxEntries]
    /\ fatal \in [Threads -> BOOLEAN]
    /\ process \in {"running", "ended"}
    /\ flushes \in 0 .. MaxFlushes
    /\ taken \in Seq(Entries)
    /\ lost \subseteq Entries \cup {FlushMark, DropMark}
    /\ due \in Nat

\* The two throws marked "never reaches here" are unreachable, the spare is
\* not null when a flush appends to it, and there are two buffers to keep
\* after a write (_background_io_thread_worker_functor).
NeverCrashes == bg_pc # "crashed"

\* What is written or waits to be, in order.
Pipeline ==
    file \o (IF bg_pc = "stopped" THEN <<>>
             ELSE FlattenSeq(to_be_written) \o FlattenSeq(fulled) \o current)

\* The entries of a log are in the order in which they were taken, and none
\* is there twice.
InOrder(log, order) ==
    \A i, j \in DOMAIN log :
        log[i] \in Entries /\ log[j] \in Entries =>
            /\ log[i] \in ToSet(order)
            /\ i < j => /\ log[i] # log[j]
                        /\ \E k, m \in DOMAIN order : /\ k < m
                                                     /\ order[k] = log[i]
                                                     /\ order[m] = log[j]

\* The log is in the order the entries were taken, without duplicates and
\* without gaps but for the buffers dropped above the threshold: no buffer is
\* written twice or reused before it was written and reset.  Only what is
\* taken after the background thread has stopped stays out of it.
EntriesInOrder ==
    LET log == Pipeline
        inLog == ToSet(log)
    IN  /\ InOrder(log, taken)
        /\ inLog \cap lost \cap Entries = {}
        /\ \A k \in DOMAIN taken :
              \/ taken[k] \in inLog \cup lost
              \/ /\ bg_pc = "stopped"
                 /\ \A m \in k .. Len(taken) : taken[m] \notin inLog

OnDisk(e) == \E i \in 1 .. on_disk : file[i] = e

\* When the process ends through abort() or ~LogCollector, every entry taken
\* before the stop request, the LOG_FATAL itself included, is on the disk
\* unless its buffer was dropped.
StopWritesEverything ==
    process = "ended" =>
        \A i \in 1 .. due : OnDisk(taken[i]) \/ taken[i] \in lost

\* flush() works without a notification: what was taken before the flag is
\* seen gets to the disk, unless its buffer is dropped or the logger stops.
FlushReachesDisk ==
    \A e \in Entries :
        (need_flush /\ \E i \in DOMAIN taken : taken[i] = e)
            ~> (OnDisk(e) \/ e \in lost \/ need_stop)

\* A stop request ends the process: _stop() does not notify, the background
\* thread finds the flag when its wait times out.
StopEnds == need_stop ~> process = "ended"
=============================================================================
