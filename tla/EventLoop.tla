----------------------------- MODULE EventLoop -----------------------------
(***************************************************************************)
(* One EventLoop (src/event_loop.cc): the owner thread runs loop(), other  *)
(* threads hand it functors with run() and stop it with ask_to_stop().     *)
(*                                                                         *)
(* A foreign run() is three steps: push to a functor queue, compare and    *)
(* exchange the pilot lamp of that queue, and, if the lamp was off, write  *)
(* to the eventfd.  The eventfds are edge triggered.  The owner reads the  *)
(* eventfd, puts the lamp out and, once everything polled is dispatched,   *)
(* drains ALL queues.                                                      *)
(*                                                                         *)
(* The lamp is stored with memory_order_relaxed, so the store may stay in  *)
(* the owner's store buffer (lamp_stores) until the owner takes a lock or  *)
(* enters the kernel; other threads read the old value until then.  With   *)
(* LockFree = FALSE the queues are BlockingQueues (the default build),     *)
(* with LockFree = TRUE SpscLockFreeQueues (USE_LOCK_FREE_QUEUE).          *)
(*                                                                         *)
(* Timers are the module TimerQueue; here the timerfd only wakes the loop  *)
(* and its callbacks, as every user callback, may change the poller.       *)
(***************************************************************************)
EXTENDS Integers, Sequences, FiniteSets

CONSTANTS Threads,    \* threads other than the owner
          Stoppers,   \* those of them that call ask_to_stop
          NumQueues,  \* _number_of_functor_blocking_queues
          QueuesOf,   \* the queues each thread pushes to
          Capacity,   \* _FUNCTOR_QUEUE_CAPACITY
          MaxRuns,    \* bound: calls of run() per thread
          Fds,        \* file descriptors of the user
          Timerfd,    \* the timerfd
          LockFree    \* the build option USE_LOCK_FREE_QUEUE

Queues == 0 .. NumQueues - 1

\* The k-th functor thread t hands over.
Functors == Threads \X (1 .. MaxRuns)

ASSUME LoopAssumption ==
    /\ NumQueues \in Nat \ {0}
    /\ Capacity \in Nat \ {0}
    /\ MaxRuns \in Nat
    /\ Stoppers \subseteq Threads
    /\ QueuesOf \in [Threads -> SUBSET Queues]
    /\ Timerfd \notin Fds
    /\ LockFree \in BOOLEAN

VARIABLES
    functor_queues,     \* _functor_blocking_queues
    pilot_lamps,        \* _eventfd_pilot_lamps, as the other threads see them
    lamp_stores,        \* lamps whose "off" is still in the store buffer
    eventfds,           \* the kernel's counter of every eventfd
    epoll_eventfds,     \* eventfds on the kernel's ready list
    epoll_fds,          \* other descriptors on the ready list
    poller,             \* user descriptors registered with _event_poller
    need_stop,          \* _need_stop
    loop_pc,            \* where the owner thread is
    exiting,            \* the owner is on the exit path of loop()
    active_eventfds,    \* event_dispatchers still to dispatch: eventfds,
    active_fds,         \* and the others
    reading,            \* the queue whose eventfd has just been read
    eventfd_triggered,  \* _eventfd_triggered
    timerfd_triggered,  \* _timerfd_triggered
    drained,            \* queues _invoke_all_functors has gone past
    batch,              \* popped functors not yet invoked
    pc, target, runs,   \* per thread: program counter, queue, run() calls
    invoked,            \* history: functors invoked, per queue
    due                 \* history: functors pushed when need_stop was set

ownerVars == <<loop_pc, exiting, active_eventfds, active_fds, reading,
               eventfd_triggered, timerfd_triggered, drained, batch, invoked>>
kernelVars == <<eventfds, epoll_eventfds, epoll_fds>>
threadVars == <<pc, target, runs>>
stopVars == <<need_stop, due>>
lampVars == <<pilot_lamps, lamp_stores>>
vars == <<functor_queues, lampVars, kernelVars, poller, stopVars, ownerVars,
          threadVars>>

\* The queue whose functors are in batch: the last one popped.
Current == drained - 1

\* How many functors of queue q have been pushed so far.
NumPushed(q) ==
    Len(invoked[q]) + Len(functor_queues[q])
        + (IF Current = q THEN Len(batch) ELSE 0)

Init ==
    /\ functor_queues = [q \in Queues |-> <<>>]
    /\ pilot_lamps = [q \in Queues |-> FALSE]
    /\ lamp_stores = {}
    /\ eventfds = [q \in Queues |-> 0]
    /\ epoll_eventfds = {}
    /\ epoll_fds = {}
    /\ poller \in SUBSET Fds
    /\ need_stop = FALSE
    /\ loop_pc = "check"
    /\ exiting = FALSE
    /\ active_eventfds = {}
    /\ active_fds = {}
    /\ reading = 0
    /\ eventfd_triggered = FALSE
    /\ timerfd_triggered = FALSE
    /\ drained = 0
    /\ batch = <<>>
    /\ pc = [t \in Threads |-> "idle"]
    /\ target = [t \in Threads |-> 0]
    /\ runs = [t \in Threads |-> 0]
    /\ invoked = [q \in Queues |-> <<>>]
    /\ due = [q \in Queues |-> 0]

-----------------------------------------------------------------------------
(* The pilot lamps *)

\* The owner takes a lock or enters the kernel: its stores become visible.
FlushLampStores ==
    /\ pilot_lamps' =
           [q \in Queues |-> pilot_lamps[q] /\ q \notin lamp_stores]
    /\ lamp_stores' = {}

\* The store buffer drains by itself.
LampStoreDrains ==
    /\ lamp_stores # {}
    /\ FlushLampStores
    /\ UNCHANGED <<functor_queues, kernelVars, poller, stopVars, ownerVars,
                   threadVars>>

-----------------------------------------------------------------------------
(* Threads other than the owner: run() and ask_to_stop() *)

\* run() -> _leave_to_owner_thread() -> push(): blocks while the queue is full.
Push(t, q) ==
    /\ pc[t] = "idle"
    /\ runs[t] < MaxRuns
    /\ q \in QueuesOf[t]
    /\ LockFree \/ Len(functor_queues[q]) < Capacity
    /\ runs' = [runs EXCEPT ![t] = @ + 1]
    /\ functor_queues' =
           [functor_queues EXCEPT ![q] = Append(@, <<t, runs[t] + 1>>)]
    /\ target' = [target EXCEPT ![t] = q]
    /\ pc' = [pc EXCEPT ![t] = "cas"]
    /\ UNCHANGED <<lampVars, kernelVars, poller, stopVars, ownerVars>>

\* _need_stop is set and remembers (due) what had been pushed by then.
RequestStop ==
    /\ need_stop' = TRUE
    /\ due' = IF need_stop THEN due ELSE [q \in Queues |-> NumPushed(q)]

\* Mutants: ask_to_stop() names a queue past the last one, or wakes nobody.
AskToStopPastTheEnd(t) ==
    /\ t \in Stoppers
    /\ pc[t] = "idle"
    /\ RequestStop
    /\ target' = [target EXCEPT ![t] = NumQueues]
    /\ pc' = [pc EXCEPT ![t] = "cas"]
    /\ UNCHANGED <<functor_queues, lampVars, kernelVars, poller, ownerVars,
                   runs>>
AskToStopSilently(t) ==
    /\ t \in Stoppers
    /\ pc[t] = "idle"
    /\ RequestStop
    /\ UNCHANGED <<functor_queues, lampVars, kernelVars, poller, ownerVars,
                   threadVars>>

\* ask_to_stop() from another thread; _wake_up_this_loop(0) follows.
AskToStop(t) ==
    /\ t \in Stoppers
    /\ pc[t] = "idle"
    /\ RequestStop
    /\ target' = [target EXCEPT ![t] = 0]
    /\ pc' = [pc EXCEPT ![t] = "cas"]
    /\ UNCHANGED <<functor_queues, lampVars, kernelVars, poller, ownerVars,
                   runs>>

\* Mutant: the lamp is tested with a load, and lit whatever it was.
LoadAndStore(t) ==
    /\ pc[t] = "cas"
    /\ pc' = [pc EXCEPT ![t] = "write"]
    /\ pilot_lamps' = [pilot_lamps EXCEPT ![target[t]] = TRUE]
    /\ UNCHANGED <<functor_queues, lamp_stores, kernelVars, poller, stopVars,
                   ownerVars, target, runs>>

\* _wake_up_this_loop(): only the thread that lights the lamp goes on.
CompareExchange(t) ==
    /\ pc[t] = "cas"
    /\ pc' = [pc EXCEPT ![t] = IF pilot_lamps[target[t]] THEN "idle"
                                                         ELSE "write"]
    /\ pilot_lamps' = [pilot_lamps EXCEPT ![target[t]] = TRUE]
    /\ UNCHANGED <<functor_queues, lamp_stores, kernelVars, poller, stopVars,
                   ownerVars, target, runs>>

\* Eventfd::increment_by_value(1); an edge for epoll.
IncrementEventfd(t) ==
    /\ pc[t] = "write"
    /\ eventfds' = [eventfds EXCEPT ![target[t]] = @ + 1]
    /\ epoll_eventfds' = epoll_eventfds \cup {target[t]}
    /\ pc' = [pc EXCEPT ![t] = "idle"]
    /\ UNCHANGED <<functor_queues, lampVars, epoll_fds, poller, stopVars,
                   ownerVars, target, runs>>

\* The kernel finds a user descriptor or the timerfd ready.
FdBecomesReady(f) ==
    /\ f \in poller \cup {Timerfd}
    /\ f \notin epoll_fds
    /\ loop_pc # "exited"
    /\ epoll_fds' = epoll_fds \cup {f}
    /\ UNCHANGED <<functor_queues, lampVars, eventfds, epoll_eventfds, poller,
                   stopVars, ownerVars, threadVars>>

-----------------------------------------------------------------------------
(* The owner thread: loop() *)

\* User code run by the loop registers and detaches descriptors ...
ChangePoller ==
    /\ poller' \in SUBSET Fds
    /\ epoll_fds' = epoll_fds \cap (poller' \cup {Timerfd})
    /\ UNCHANGED <<lampVars, stopVars, eventfds, epoll_eventfds>>

\* ... or calls ask_to_stop() in the owner thread: the locked compare-exchange
\* drains the store buffer, and no other thread can act on the lamp between
\* it and the write.
AskOwnLoopToStop ==
    /\ RequestStop
    /\ LET off == ~ pilot_lamps[0] \/ 0 \in lamp_stores
       IN  /\ pilot_lamps' = [q \in Queues |->
                  q = 0 \/ (pilot_lamps[q] /\ q \notin lamp_stores)]
           /\ lamp_stores' = {}
           /\ eventfds' = IF off THEN [eventfds EXCEPT ![0] = @ + 1]
                                 ELSE eventfds
           /\ epoll_eventfds' = IF off THEN epoll_eventfds \cup {0}
                                       ELSE epoll_eventfds
    /\ UNCHANGED <<poller, epoll_fds>>

UserCallback == ChangePoller \/ AskOwnLoopToStop

\* Mutant: the exit path does not call _invoke_all_functors().
CheckStopNoDrain ==
    /\ loop_pc = "check"
    /\ IF need_stop /\ poller = {}
       THEN loop_pc' = "timers" /\ exiting' = TRUE
       ELSE loop_pc' = "poll" /\ UNCHANGED exiting
    /\ UNCHANGED <<functor_queues, lampVars, kernelVars, poller, stopVars,
                   active_eventfds, active_fds, reading, eventfd_triggered,
                   timerfd_triggered, drained, batch, invoked, threadVars>>

\* The test at the top of the loop.
CheckStop ==
    /\ loop_pc = "check"
    /\ IF need_stop /\ poller = {}
       THEN /\ loop_pc' = "drain"
            /\ exiting' = TRUE
            /\ drained' = 0
       ELSE /\ loop_pc' = "poll"
            /\ UNCHANGED <<exiting, drained>>
    /\ UNCHANGED <<functor_queues, lampVars, kernelVars, poller, stopVars,
                   active_eventfds, active_fds, reading, eventfd_triggered,
                   timerfd_triggered, batch, invoked, threadVars>>

\* epoll_wait() returns what is ready; an eventfd leaves the ready list and
\* is reported if it is readable.
Poll ==
    LET readable == {q \in epoll_eventfds : eventfds[q] > 0}
    IN  /\ loop_pc = "poll"
        /\ readable # {} \/ epoll_fds # {}
        /\ active_eventfds' = readable
        /\ active_fds' = epoll_fds
        /\ epoll_eventfds' = {}
        /\ epoll_fds' = {}
        /\ loop_pc' = "dispatch"
        /\ FlushLampStores
        /\ UNCHANGED <<functor_queues, eventfds, poller, stopVars, exiting,
                       reading, eventfd_triggered, timerfd_triggered, drained,
                       batch, invoked, threadVars>>

\* Eventfd::_read_event_callback(): the counter is read and reset ...
ReadEventfd(q) ==
    /\ loop_pc = "dispatch"
    /\ q \in active_eventfds
    /\ active_eventfds' = active_eventfds \ {q}
    /\ eventfds' = [eventfds EXCEPT ![q] = 0]
    /\ reading' = q
    /\ loop_pc' = "lamp"
    /\ FlushLampStores
    /\ UNCHANGED <<functor_queues, epoll_eventfds, epoll_fds, poller, stopVars,
                   exiting, active_fds, eventfd_triggered, timerfd_triggered,
                   drained, batch, invoked, threadVars>>

\* Mutant: the message callback forgets the lamp.
LampStaysLit ==
    /\ loop_pc = "lamp"
    /\ eventfd_triggered' = TRUE
    /\ loop_pc' = "dispatch"
    /\ UNCHANGED <<functor_queues, lampVars, kernelVars, poller, stopVars,
                   exiting, active_eventfds, active_fds, reading,
                   timerfd_triggered, drained, batch, invoked, threadVars>>

\* ... and then the message callback puts the lamp out.
PutLampOut ==
    /\ loop_pc = "lamp"
    /\ lamp_stores' = lamp_stores \cup {reading}
    /\ eventfd_triggered' = TRUE
    /\ loop_pc' = "dispatch"
    /\ UNCHANGED <<functor_queues, pilot_lamps, kernelVars, poller, stopVars,
                   exiting, active_eventfds, active_fds, reading,
                   timerfd_triggered, drained, batch, invoked, threadVars>>

\* Any other descriptor is dispatched; the timerfd only raises its flag.
DispatchFd(f) ==
    /\ loop_pc = "dispatch"
    /\ f \in active_fds
    /\ active_fds' = active_fds \ {f}
    /\ IF f = Timerfd
       THEN /\ timerfd_triggered' = TRUE
            /\ UNCHANGED <<lampVars, kernelVars, poller, stopVars>>
       ELSE UserCallback /\ UNCHANGED timerfd_triggered
    /\ UNCHANGED <<functor_queues, loop_pc, exiting, active_eventfds, reading,
                   eventfd_triggered, drained, batch, invoked, threadVars>>

\* if (_eventfd_triggered) _invoke_all_functors();
DispatchDone ==
    /\ loop_pc = "dispatch"
    /\ active_eventfds = {}
    /\ active_fds = {}
    /\ loop_pc' = IF eventfd_triggered THEN "drain" ELSE "timers"
    /\ drained' = 0
    /\ UNCHANGED <<functor_queues, lampVars, kernelVars, poller, stopVars,
                   exiting, active_eventfds, active_fds, reading,
                   eventfd_triggered, timerfd_triggered, batch, invoked,
                   threadVars>>

\* The next queue: BlockingQueue::pop_all() takes everything at once.
PopAll ==
    /\ ~ LockFree
    /\ loop_pc = "drain"
    /\ batch = <<>>
    /\ drained < NumQueues
    /\ batch' = functor_queues[drained]
    /\ functor_queues' = [functor_queues EXCEPT ![drained] = <<>>]
    /\ drained' = drained + 1
    /\ FlushLampStores
    /\ UNCHANGED <<kernelVars, poller, stopVars, loop_pc, exiting,
                   active_eventfds, active_fds, reading, eventfd_triggered,
                   timerfd_triggered, invoked, threadVars>>

\* Mutant: one pop() per queue instead of pop() until null.
NextQueueAtOnce ==
    /\ LockFree
    /\ loop_pc = "drain"
    /\ batch = <<>>
    /\ drained < NumQueues
    /\ drained' = drained + 1
    /\ UNCHANGED <<functor_queues, lampVars, kernelVars, poller, stopVars,
                   loop_pc, exiting, active_eventfds, active_fds, reading,
                   eventfd_triggered, timerfd_triggered, batch, invoked,
                   threadVars>>

\* SpscLockFreeQueue::pop() takes one; a null result ends the queue's turn.
\* No lock is taken.
NextQueue ==
    /\ LockFree
    /\ loop_pc = "drain"
    /\ batch = <<>>
    /\ drained < NumQueues
    /\ drained > 0 => functor_queues[Current] = <<>>
    /\ drained' = drained + 1
    /\ UNCHANGED <<functor_queues, lampVars, kernelVars, poller, stopVars,
                   loop_pc, exiting, active_eventfds, active_fds, reading,
                   eventfd_triggered, timerfd_triggered, batch, invoked,
                   threadVars>>

PopOne ==
    /\ LockFree
    /\ loop_pc = "drain"
    /\ batch = <<>>
    /\ drained > 0
    /\ functor_queues[Current] # <<>>
    /\ batch' = <<Head(functor_queues[Current])>>
    /\ functor_queues' = [functor_queues EXCEPT ![Current] = Tail(@)]
    /\ UNCHANGED <<lampVars, kernelVars, poller, stopVars, loop_pc, exiting,
                   active_eventfds, active_fds, reading, eventfd_triggered,
                   timerfd_triggered, drained, invoked, threadVars>>

\* One functor is called.
InvokeFunctor ==
    /\ loop_pc = "drain"
    /\ batch # <<>>
    /\ batch' = Tail(batch)
    /\ invoked' = [invoked EXCEPT ![Current] = Append(@, Head(batch))]
    /\ UserCallback
    /\ UNCHANGED <<functor_queues, loop_pc, exiting, active_eventfds,
                   active_fds, reading, eventfd_triggered, timerfd_triggered,
                   drained, threadVars>>

\* _invoke_all_functors() returns; on the exit path the timers are next too,
\* but _eventfd_triggered is left alone.
DrainDone ==
    /\ loop_pc = "drain"
    /\ batch = <<>>
    /\ drained = NumQueues
    /\ LockFree => functor_queues[Current] = <<>>
    /\ drained' = 0
    /\ loop_pc' = "timers"
    /\ eventfd_triggered' = (exiting /\ eventfd_triggered)
    /\ UNCHANGED <<functor_queues, lampVars, kernelVars, poller, stopVars,
                   exiting, active_eventfds, active_fds, reading,
                   timerfd_triggered, batch, invoked, threadVars>>

\* if (_timerfd_triggered), or unconditionally on the exit path, the due
\* timers are expired.  Then loop() starts over or returns.
Timers ==
    /\ loop_pc = "timers"
    /\ IF timerfd_triggered \/ exiting
       THEN UserCallback
       ELSE UNCHANGED <<lampVars, kernelVars, poller, stopVars>>
    /\ timerfd_triggered' = (exiting /\ timerfd_triggered)
    /\ loop_pc' = IF exiting THEN "exited" ELSE "check"
    /\ UNCHANGED <<functor_queues, exiting, active_eventfds, active_fds,
                   reading, eventfd_triggered, drained, batch, invoked,
                   threadVars>>

-----------------------------------------------------------------------------
OwnerStep ==
    \/ CheckStop \/ Poll \/ PutLampOut \/ DispatchDone
    \/ \E q \in Queues : ReadEventfd(q)
    \/ \E f \in Fds \cup {Timerfd} : DispatchFd(f)
    \/ PopAll \/ NextQueue \/ PopOne \/ InvokeFunctor \/ DrainDone \/ Timers

WakeUp(t) == CompareExchange(t) \/ IncrementEventfd(t)

Next ==
    \/ OwnerStep
    \/ LampStoreDrains
    \/ \E t \in Threads : \/ \E q \in Queues : Push(t, q)
                          \/ AskToStop(t)
                          \/ WakeUp(t)
    \/ \E f \in Fds \cup {Timerfd} : FdBecomesReady(f)

\* Every thread is scheduled, and a store buffer drains.
Fairness ==
    /\ WF_vars(OwnerStep)
    /\ WF_vars(LampStoreDrains)
    /\ \A t \in Threads : WF_vars(WakeUp(t))

Spec == Init /\ [][Next]_vars /\ Fairness
-----------------------------------------------------------------------------
(* Properties *)

\* The variables have their types.
TypeOK ==
    /\ functor_queues \in [Queues -> Seq(Functors)]
    /\ pilot_lamps \in [Queues -> BOOLEAN]
    /\ lamp_stores \subseteq Queues
    /\ eventfds \in [Queues -> Nat]
    /\ epoll_eventfds \subseteq Queues
    /\ epoll_fds \subseteq Fds \cup {Timerfd}
    /\ poller \subseteq Fds
    /\ need_stop \in BOOLEAN
    /\ loop_pc \in {"check", "poll", "dispatch", "lamp", "drain", "timers",
                   "exited"}
    /\ exiting \in BOOLEAN
    /\ active_eventfds \subseteq Queues
    /\ active_fds \subseteq Fds \cup {Timerfd}
    /\ reading \in Queues
    /\ eventfd_triggered \in BOOLEAN
    /\ timerfd_triggered \in BOOLEAN
    /\ drained \in 0 .. NumQueues
    /\ batch \in Seq(Functors)
    /\ pc \in [Threads -> {"idle", "cas", "write"}]
    /\ target \in [Threads -> Queues]
    /\ runs \in [Threads -> 0 .. MaxRuns]
    /\ invoked \in [Queues -> Seq(Functors)]
    /\ due \in [Queues -> Nat]

\* The owner is certain to pop queue q before it polls again.
WillDrain(q) ==
    \/ loop_pc = "dispatch" /\ (eventfd_triggered \/ active_eventfds # {})
    \/ loop_pc = "lamp"
    \/ loop_pc = "drain" /\ (drained <= q \/ (LockFree /\ Current = q))

\* No lost wake-up (_leave_to_owner_thread, _wake_up_this_loop and the
\* eventfd's message callback): while a functor is queued and the loop is not
\* on its way out, the owner is about to drain the queue, or the queue's
\* eventfd will wake it, or the thread that will write the eventfd or look at
\* the lamp has still to do so.
NoLostWakeup ==
    \A q \in Queues : functor_queues[q] # <<>> /\ ~ exiting =>
        \/ WillDrain(q)
        \/ q \in epoll_eventfds
        \/ \E t \in Threads : pc[t] \in {"cas", "write"} /\ target[t] = q

\* The pilot lamp coalesces wake-ups: no matter how many threads call run(),
\* an eventfd is written at most once before it is read, so its counter never
\* nears its limit and increment_by_value() never meets EAGAIN; and while one
\* thread is about to write an eventfd, nobody else is and nothing is pending.
WakeupsCoalesce ==
    \A q \in Queues :
        /\ eventfds[q] <= 1
        /\ \A t \in Threads : pc[t] = "write" /\ target[t] = q =>
              /\ eventfds[q] = 0
              /\ \A u \in Threads \ {t} : ~ (pc[u] = "write" /\ target[u] = q)

\* ask_to_stop() works: if from some point on no user descriptor is
\* registered, loop() returns.
StopExits == <>[](need_stop /\ poller = {}) => <>(loop_pc = "exited")

\* The functors of every queue are invoked exactly once, in the order they
\* were pushed, and none that was pushed is forgotten unless the loop exits;
\* when it does, everything pushed before ask_to_stop() has been invoked.
Mailbox ==
    INSTANCE FunctorMailbox WITH
        pending <- [q \in Queues |->
                       (IF Current = q THEN batch ELSE <<>>)
                           \o functor_queues[q]],
        state <- IF loop_pc = "exited" THEN "closed"
                 ELSE IF need_stop THEN "stopping" ELSE "open"
ImplementsMailbox == Mailbox!Spec

\* The same without the promise that every functor is invoked eventually:
\* order, exactly once, and nothing pushed before ask_to_stop() is dropped.
ImplementsMailboxSafety == Mailbox!SafetySpec
============================================================================
