----------------------------- MODULE TcpServer -----------------------------
(***************************************************************************)
(* A TcpServer with a thread pool, from start() to its destructor: the     *)
(* main loop with ListenSocketfd and Signalfd, the worker loops, and the   *)
(* bounded functor queues between them.                                    *)
(*                                                                         *)
(* The wake-up protocol of a loop is that of module EventLoop; here a push *)
(* into a queue makes the loop's eventfd readable in the same step (woken).*)
(* The life of a connection is that of module TcpConnectSocketfd; here it  *)
(* is registered, it ends, and the worker detaches it and hands a close    *)
(* functor to the main loop, or two of them if the peer has reset it: the  *)
(* second does not find the connection, and LOG_FATAL ends the process.    *)
(* Each worker has one queue, filled by the main thread; the main loop has *)
(* one queue per worker.                                                   *)
(***************************************************************************)
EXTENDS Integers, Sequences, FiniteSets, SequencesExt

CONSTANTS NumWorkers,       \* _thread_pool_capacity
          MaxConnections,   \* bound: clients that connect
          Capacity,         \* _FUNCTOR_QUEUE_CAPACITY
          AcceptLimit,      \* _max_number_of_new_connections_at_a_time
          FdLimit           \* connections the limit on descriptors allows

ASSUME ServerAssumption ==
    /\ NumWorkers \in Nat \ {0}
    /\ MaxConnections \in Nat
    /\ Capacity \in Nat \ {0}
    /\ AcceptLimit \in Nat \ {0}
    /\ FdLimit \in Nat \ {0}

Workers == 0 .. NumWorkers - 1
Connections == 0 .. MaxConnections - 1

VARIABLES
    \* outside
    arrivals,               \* clients that have connected
    backlog,                \* connections waiting to be accepted
    ended,                  \* connections whose close event has come
    signalled,              \* SIGTERM is pending
    \* the main thread
    main_pc, active,        \* where it is; what epoll_wait() reported
    starting,               \* start(): the worker being started
    accepted_now,           \* accepted in this read callback
    next_id,                \* _tcp_connection_id_counter
    tcp_connect_socketfds,  \* the map, by its keys
    listening,              \* the listen socket is in the main poller
    listen_is_stopped,      \* ListenSocketfd::_is_stopped
    signalfd_attached, main_need_stop, is_stopped,
    position,               \* the entry the destructor's loop stands on
    \* the queues and eventfds
    main_queues, main_woken, worker_queues, woken,
    \* the workers
    worker_pc, tid_set, loop_ptr, need_stop,
    registered,             \* connections in the worker's poller
    worker_active,          \* connections epoll_wait() reported
    triggered,              \* _eventfd_triggered
    batch,                  \* functors popped and not yet invoked
    closing,                \* the connection whose close callback runs
    \* history
    reset,                  \* reset by the peer, and therefore closed twice
    served,                 \* registered by a worker that was not exiting
    left_behind             \* still registered when the loop was destroyed

outsideVars == <<arrivals, backlog, ended, signalled>>
listenVars == <<accepted_now, next_id, listening, listen_is_stopped>>
stopVars == <<signalfd_attached, main_need_stop, is_stopped, position>>
queueVars == <<main_queues, main_woken, worker_queues, woken>>
threadVars == <<tid_set, loop_ptr, need_stop>>
dispatchVars == <<registered, worker_active, triggered, batch, closing>>
workerVars == <<worker_pc, threadVars, dispatchVars>>
historyVars == <<reset, served, left_behind>>
vars == <<outsideVars, main_pc, active, starting, listenVars,
          tcp_connect_socketfds, stopVars, queueVars, workerVars, historyVars>>

NoConnection == -1

Init ==
    /\ arrivals = 0 /\ backlog = 0 /\ ended = {} /\ signalled = FALSE
    /\ main_pc = "start" /\ active = {} /\ starting = 0
    /\ accepted_now = 0 /\ next_id = 0 /\ tcp_connect_socketfds = {}
    /\ listening = FALSE /\ listen_is_stopped = FALSE
    /\ signalfd_attached = TRUE /\ main_need_stop = FALSE /\ is_stopped = FALSE
    /\ position = NoConnection
    /\ main_queues = [w \in Workers |-> <<>>] /\ main_woken = FALSE
    /\ worker_queues = [w \in Workers |-> <<>>]
    /\ woken = [w \in Workers |-> FALSE]
    /\ worker_pc = [w \in Workers |-> "none"]
    /\ tid_set = [w \in Workers |-> FALSE]
    /\ loop_ptr = [w \in Workers |-> FALSE]
    /\ need_stop = [w \in Workers |-> FALSE]
    /\ registered = [w \in Workers |-> {}]
    /\ worker_active = [w \in Workers |-> {}]
    /\ triggered = [w \in Workers |-> FALSE]
    /\ batch = [w \in Workers |-> <<>>]
    /\ closing = [w \in Workers |-> NoConnection]
    /\ reset = {} /\ served = {} /\ left_behind = {}

\* get_next_loop(): its counter and the identifiers advance together.
WorkerOf(c) == c % NumWorkers

-----------------------------------------------------------------------------
(* Outside: clients and signals *)

ClientConnects ==
    /\ listening
    /\ arrivals < MaxConnections
    /\ arrivals' = arrivals + 1
    /\ backlog' = backlog + 1
    /\ UNCHANGED <<ended, signalled, main_pc, active, starting,
                   listenVars, tcp_connect_socketfds, stopVars, queueVars,
                   workerVars, historyVars>>

\* The peer closes or resets the connection, or sends what makes the worker
\* abort it.
ConnectionEnds(c) ==
    /\ c < next_id
    /\ c \notin ended
    /\ ended' = ended \cup {c}
    /\ UNCHANGED <<arrivals, backlog, signalled, main_pc, active,
                   starting, listenVars, tcp_connect_socketfds, stopVars,
                   queueVars, workerVars, historyVars>>

SignalArrives ==
    /\ ~signalled
    /\ signalled' = TRUE
    /\ UNCHANGED <<arrivals, backlog, ended, main_pc, active, starting,
                   listenVars, tcp_connect_socketfds, stopVars, queueVars,
                   workerVars, historyVars>>

-----------------------------------------------------------------------------
(* start(): listen, then start the workers one after the other *)

\* TcpServer::start() up to the thread pool.
StartListening ==
    /\ main_pc = "start"
    /\ ~listening
    /\ listening' = TRUE
    /\ main_pc' = "start thread"
    /\ UNCHANGED <<outsideVars, active, starting, accepted_now, next_id,
                   listen_is_stopped, tcp_connect_socketfds, stopVars,
                   queueVars, workerVars, historyVars>>

\* Thread::start() creates the thread ...
CreateThread ==
    /\ main_pc = "start thread"
    /\ worker_pc' = [worker_pc EXCEPT ![starting] = "created"]
    /\ main_pc' = "await tid"
    /\ UNCHANGED <<outsideVars, active, starting, listenVars,
                   tcp_connect_socketfds, stopVars, queueVars, threadVars,
                   dispatchVars, historyVars>>

\* ... and waits for its TID.
AwaitTid ==
    /\ main_pc = "await tid"
    /\ tid_set[starting]
    /\ main_pc' = "await loop"
    /\ UNCHANGED <<outsideVars, active, starting, listenVars,
                   tcp_connect_socketfds, stopVars, queueVars, workerVars,
                   historyVars>>

\* Mutant: start() of EventLoopThread does not wait for the loop.
LoopNotAwaited == TRUE

\* The predicate of the wait in EventLoopThread::start().
LoopIsReady == loop_ptr[starting]

\* EventLoopThread::start() waits for the loop; then comes the next thread or
\* the main loop.
AwaitLoop ==
    /\ main_pc = "await loop"
    /\ LoopIsReady
    /\ IF starting + 1 < NumWorkers
       THEN main_pc' = "start thread" /\ starting' = starting + 1
       ELSE main_pc' = "check" /\ UNCHANGED starting
    /\ UNCHANGED <<outsideVars, active, listenVars, tcp_connect_socketfds,
                   stopVars, queueVars, workerVars, historyVars>>

\* _wrapper_of_worker_function() announces the TID.
ThreadRuns(w) ==
    /\ worker_pc[w] = "created"
    /\ tid_set' = [tid_set EXCEPT ![w] = TRUE]
    /\ worker_pc' = [worker_pc EXCEPT ![w] = "make loop"]
    /\ UNCHANGED <<outsideVars, main_pc, active, starting, listenVars,
                   tcp_connect_socketfds, stopVars, queueVars, loop_ptr,
                   need_stop, dispatchVars, historyVars>>

\* _worker_function() announces its loop.
MakeLoop(w) ==
    /\ worker_pc[w] = "make loop"
    /\ loop_ptr' = [loop_ptr EXCEPT ![w] = TRUE]
    /\ worker_pc' = [worker_pc EXCEPT ![w] = "check"]
    /\ UNCHANGED <<outsideVars, main_pc, active, starting, listenVars,
                   tcp_connect_socketfds, stopVars, queueVars, tid_set,
                   need_stop, dispatchVars, historyVars>>

-----------------------------------------------------------------------------
(* The main loop *)

\* Every functor of _close_callback() that is queued finds its connection.
AllEntriesFound ==
    /\ \A w \in Workers :
          /\ ToSet(main_queues[w]) \subseteq tcp_connect_socketfds
          /\ IsInjective(main_queues[w])
    /\ \A v, w \in Workers :
          v # w => ToSet(main_queues[v]) \cap ToSet(main_queues[w]) = {}

\* _invoke_all_functors() runs them, then the main thread is at pc.  One step
\* for all queues: the pushes of different workers commute.  A functor that
\* does not find its connection ends the process.
InvokeAllFunctors(pc) ==
    IF AllEntriesFound
    THEN /\ tcp_connect_socketfds' =
                tcp_connect_socketfds \
                    UNION {ToSet(main_queues[w]) : w \in Workers}
         /\ main_queues' = [w \in Workers |-> <<>>]
         /\ main_pc' = pc
    ELSE main_pc' = "fatal" /\ UNCHANGED <<tcp_connect_socketfds, main_queues>>

\* The main thread goes on without running the functors.
KeepFunctors(pc) ==
    main_pc' = pc /\ UNCHANGED <<tcp_connect_socketfds, main_queues>>

\* Mutant: the exit path leaves the functors in their queues.
ExitDrainNothing == KeepFunctors("exited")

\* "clean up the functors before exiting"
ExitDrain == InvokeAllFunctors("exited")

\* The check of _need_stop at the top of loop().
MainCheck ==
    /\ main_pc = "check"
    /\ IF main_need_stop /\ ~listening /\ ~signalfd_attached
       THEN ExitDrain
       ELSE KeepFunctors("poll")
    /\ UNCHANGED <<outsideVars, active, starting, listenVars, stopVars,
                   main_woken, worker_queues, woken, workerVars, historyVars>>

\* Mutant: an edge-triggered listen socket reports a connection once, so what
\* the limit of accept() left over is not reported again.
ListenReadyOnce == listening /\ backlog > 0 /\ accepted_now = 0

\* The listen socket is level triggered.
ListenReady == listening /\ backlog > 0

MainPoll ==
    /\ main_pc = "poll"
    /\ active' = {e \in {"listen", "signal", "functors"} :
                    \/ e = "listen" /\ ListenReady
                    \/ e = "signal" /\ signalled /\ signalfd_attached
                    \/ e = "functors" /\ main_woken}
    /\ active' # {}
    /\ main_woken' = FALSE
    /\ main_pc' = "dispatch"
    /\ UNCHANGED <<outsideVars, starting, listenVars, tcp_connect_socketfds,
                   stopVars, main_queues, worker_queues, woken, workerVars,
                   historyVars>>

\* Mutant: the read callback does not look at _is_stopped.
ListenCallbackGoesOn == TRUE

ListenCallbackMayAccept == ~listen_is_stopped

\* ListenSocketfd::_read_event_callback() begins or returns at once.
DispatchListen ==
    /\ main_pc = "dispatch"
    /\ "listen" \in active
    /\ active' = active \ {"listen"}
    /\ IF ListenCallbackMayAccept
       THEN main_pc' = "accept" /\ accepted_now' = 0
       ELSE UNCHANGED <<main_pc, accepted_now>>
    /\ UNCHANGED <<outsideVars, starting, next_id, listening,
                   listen_is_stopped, tcp_connect_socketfds, stopVars,
                   queueVars, workerVars, historyVars>>

\* Mutant: one turn too many.
OneMoreAccept == accepted_now <= AcceptLimit

\* The condition of the loop over accept4().
MayAcceptMore == accepted_now < AcceptLimit

\* accept4() can succeed.
CanAccept == backlog > 0 /\ Cardinality(tcp_connect_socketfds) < FdLimit

\* accept4() succeeds; _new_connection_callback() up to start().
AcceptConnection ==
    /\ main_pc = "accept"
    /\ MayAcceptMore
    /\ CanAccept
    /\ backlog' = backlog - 1
    /\ next_id' = next_id + 1
    /\ tcp_connect_socketfds' = tcp_connect_socketfds \cup {next_id}
    /\ main_pc' = "register"
    /\ UNCHANGED <<arrivals, ended, signalled, active, starting, accepted_now,
                   listening, listen_is_stopped, stopVars, queueVars,
                   workerVars, historyVars>>

\* start() of the connection hands its registration to the worker's queue and
\* blocks while that is full.
PushRegistration ==
    LET c == next_id - 1
        w == WorkerOf(c)
    IN /\ main_pc = "register"
       /\ Len(worker_queues[w]) < Capacity
       /\ worker_queues' = [worker_queues EXCEPT ![w] = Append(@, c)]
       /\ woken' = [woken EXCEPT ![w] = TRUE]
       /\ accepted_now' = accepted_now + 1
       /\ main_pc' = "accept"
       /\ UNCHANGED <<outsideVars, active, starting, next_id, listening,
                      listen_is_stopped, tcp_connect_socketfds, stopVars,
                      main_queues, main_woken, workerVars, historyVars>>

\* ECONNABORTED: the client gave up.
AcceptAborted ==
    /\ main_pc = "accept"
    /\ MayAcceptMore
    /\ backlog > 0
    /\ backlog' = backlog - 1
    /\ accepted_now' = accepted_now + 1
    /\ UNCHANGED <<arrivals, ended, signalled, main_pc, active,
                   starting, next_id, listening, listen_is_stopped,
                   tcp_connect_socketfds, stopVars, queueVars, workerVars,
                   historyVars>>

\* EAGAIN, EMFILE or the limit ends the callback.
AcceptEnds ==
    /\ main_pc = "accept"
    /\ ~MayAcceptMore \/ ~CanAccept
    /\ main_pc' = "dispatch"
    /\ UNCHANGED <<outsideVars, active, starting, listenVars,
                   tcp_connect_socketfds, stopVars, queueVars, workerVars,
                   historyVars>>

\* The signal dispatcher: signalfd and listen socket leave the poller and
\* EventLoopThreadPool::stop() asks every worker to stop.
DispatchSignal ==
    /\ main_pc = "dispatch"
    /\ "signal" \in active
    /\ active' = active \ {"signal"}
    /\ signalfd_attached' = FALSE
    /\ listening' = FALSE
    /\ listen_is_stopped' = TRUE
    /\ need_stop' = [w \in Workers |-> TRUE]
    /\ woken' = [w \in Workers |-> TRUE]
    /\ main_pc' = "stop wait"
    /\ UNCHANGED <<outsideVars, starting, accepted_now, next_id,
                   tcp_connect_socketfds, main_need_stop, is_stopped, position,
                   main_queues, main_woken, worker_queues, worker_pc, tid_set,
                   loop_ptr, dispatchVars, historyVars>>

\* Mutant: join without emptying the queues of the main loop.
StopDrainNothing == KeepFunctors("stop join")

\* The call of invoke_all_functors() in stop().
StopDrain == InvokeAllFunctors("stop join")

\* stop(): sleep, then empty the main loop's queues.
StopWait ==
    /\ main_pc = "stop wait"
    /\ StopDrain
    /\ UNCHANGED <<outsideVars, active, starting, listenVars, stopVars,
                   main_woken, worker_queues, woken, workerVars, historyVars>>

\* is_joinable(): every worker function has returned.
IsJoinable == \A w \in Workers : worker_pc[w] = "exited"

\* stop(): join, or wait again.  Then the dispatcher stops the main loop.
StopJoin ==
    /\ main_pc = "stop join"
    /\ IF IsJoinable
       THEN /\ is_stopped' = TRUE
            /\ main_need_stop' = TRUE
            /\ main_woken' = TRUE
            /\ main_pc' = "dispatch"
       ELSE /\ main_pc' = "stop wait"
            /\ UNCHANGED <<is_stopped, main_need_stop, main_woken>>
    /\ UNCHANGED <<outsideVars, active, starting, listenVars,
                   tcp_connect_socketfds, signalfd_attached, position,
                   main_queues, worker_queues, woken, workerVars, historyVars>>

\* After the dispatch: the functors, if the eventfd was reported.
MainDrain ==
    /\ main_pc = "dispatch"
    /\ active \subseteq {"functors"}
    /\ IF active # {} THEN InvokeAllFunctors("check") ELSE KeepFunctors("check")
    /\ active' = {}
    /\ UNCHANGED <<outsideVars, starting, listenVars, stopVars, main_woken,
                   worker_queues, woken, workerVars, historyVars>>

-----------------------------------------------------------------------------
(* The destructor *)

\* ~TcpServer() finds the map empty.
DestroyEmpty ==
    /\ main_pc = "exited"
    /\ tcp_connect_socketfds = {}
    /\ main_pc' = "done"
    /\ UNCHANGED <<outsideVars, active, starting, listenVars,
                   tcp_connect_socketfds, stopVars, queueVars, workerVars,
                   historyVars>>

\* Or it resets the first connection of the map: reset_connection() calls
\* _close_callback(), whose functor, in the main thread, runs at once and
\* erases the entry that the loop over the map stands on.  What the loop reads
\* next is undefined.
DestroyReset ==
    /\ main_pc = "exited"
    /\ \E c \in tcp_connect_socketfds :
          /\ \A d \in tcp_connect_socketfds : c <= d
          /\ position' = c
          /\ tcp_connect_socketfds' = tcp_connect_socketfds \ {c}
    /\ main_pc' = "advance"
    /\ UNCHANGED <<outsideVars, active, starting, listenVars,
                   signalfd_attached, main_need_stop, is_stopped, queueVars,
                   workerVars, historyVars>>

-----------------------------------------------------------------------------
(* A worker loop *)

\* Mutant: a loop that is asked to stop does not wait for its connections.
ExitAtOnce(w) == need_stop[w]

\* The condition for leaving loop().
MayExit(w) == need_stop[w] /\ registered[w] = {}

\* The top of loop(): the exit path pops what is queued.
WorkerCheck(w) ==
    /\ worker_pc[w] = "check"
    /\ IF MayExit(w)
       THEN /\ batch' = [batch EXCEPT ![w] = worker_queues[w]]
            /\ worker_queues' = [worker_queues EXCEPT ![w] = <<>>]
            /\ worker_pc' = [worker_pc EXCEPT ![w] = "exit"]
       ELSE /\ worker_pc' = [worker_pc EXCEPT ![w] = "poll"]
            /\ UNCHANGED <<batch, worker_queues>>
    /\ UNCHANGED <<outsideVars, main_pc, active, starting, listenVars,
                   tcp_connect_socketfds, stopVars, main_queues, main_woken,
                   woken, threadVars, registered, worker_active, triggered,
                   closing, historyVars>>

WorkerPoll(w) ==
    /\ worker_pc[w] = "poll"
    /\ woken[w] \/ registered[w] \cap ended # {}
    /\ worker_active' = [worker_active EXCEPT ![w] = registered[w] \cap ended]
    /\ triggered' = [triggered EXCEPT ![w] = woken[w]]
    /\ woken' = [woken EXCEPT ![w] = FALSE]
    /\ worker_pc' = [worker_pc EXCEPT ![w] = "dispatch"]
    /\ UNCHANGED <<outsideVars, main_pc, active, starting, listenVars,
                   tcp_connect_socketfds, stopVars, main_queues, main_woken,
                   worker_queues, threadVars, registered, batch, closing,
                   historyVars>>

\* Mutant: the close event does not detach the connection.
DetachNothing(w, c) == registered[w]

\* detach_from_poller()
Detach(w, c) == registered[w] \ {c}

\* The close event of a connection: detach, then the close callback.
WorkerClose(w, c) ==
    /\ worker_pc[w] = "dispatch"
    /\ c \in worker_active[w]
    /\ worker_active' = [worker_active EXCEPT ![w] = @ \ {c}]
    /\ registered' = [registered EXCEPT ![w] = Detach(w, c)]
    /\ closing' = [closing EXCEPT ![w] = c]
    /\ worker_pc' = [worker_pc EXCEPT ![w] = "close"]
    /\ UNCHANGED <<outsideVars, main_pc, active, starting, listenVars,
                   tcp_connect_socketfds, stopVars, queueVars, threadVars,
                   triggered, batch, historyVars>>

\* _close_callback() hands the erasure to the worker's queue of the main loop
\* and blocks while that is full.
PushCloseFunctor(w) ==
    /\ Len(main_queues[w]) < Capacity
    /\ main_queues' = [main_queues EXCEPT ![w] = Append(@, closing[w])]
    /\ main_woken' = TRUE
    /\ UNCHANGED <<outsideVars, main_pc, active, starting, listenVars,
                   tcp_connect_socketfds, stopVars, worker_queues, woken,
                   threadVars, registered, worker_active, triggered, batch,
                   served, left_behind>>

\* The rest of the dispatch leaves the connection as it is ...
PushClose(w) ==
    /\ worker_pc[w] = "close"
    /\ PushCloseFunctor(w)
    /\ closing' = [closing EXCEPT ![w] = NoConnection]
    /\ worker_pc' = [worker_pc EXCEPT ![w] = "dispatch"]
    /\ UNCHANGED reset

\* ... or, when the peer has reset it, the read callback comes next ...
PushCloseOfReset(w) ==
    /\ worker_pc[w] = "close"
    /\ PushCloseFunctor(w)
    /\ reset' = reset \cup {closing[w]}
    /\ worker_pc' = [worker_pc EXCEPT ![w] = "close again"]
    /\ UNCHANGED closing

\* ... where shutdown_write() meets ENOTCONN, and abort_from_event_loop() and
\* reset_connection() call _close_callback() once more.
PushCloseAgain(w) ==
    /\ worker_pc[w] = "close again"
    /\ PushCloseFunctor(w)
    /\ closing' = [closing EXCEPT ![w] = NoConnection]
    /\ worker_pc' = [worker_pc EXCEPT ![w] = "dispatch"]
    /\ UNCHANGED reset

\* After the dispatch: the functors, if the eventfd was reported.
WorkerPopAll(w) ==
    /\ worker_pc[w] = "dispatch"
    /\ worker_active[w] = {}
    /\ IF triggered[w]
       THEN /\ batch' = [batch EXCEPT ![w] = worker_queues[w]]
            /\ worker_queues' = [worker_queues EXCEPT ![w] = <<>>]
       ELSE UNCHANGED <<batch, worker_queues>>
    /\ triggered' = [triggered EXCEPT ![w] = FALSE]
    /\ worker_pc' = [worker_pc EXCEPT ![w] = "functors"]
    /\ UNCHANGED <<outsideVars, main_pc, active, starting, listenVars,
                   tcp_connect_socketfds, stopVars, main_queues, main_woken,
                   woken, threadVars, registered, worker_active, closing,
                   historyVars>>

\* A functor registers its connection with the poller.
WorkerRegister(w) ==
    /\ worker_pc[w] \in {"functors", "exit"}
    /\ batch[w] # <<>>
    /\ registered' = [registered EXCEPT ![w] = @ \cup {Head(batch[w])}]
    /\ batch' = [batch EXCEPT ![w] = Tail(@)]
    /\ served' = IF worker_pc[w] = "exit" THEN served
                 ELSE served \cup {Head(batch[w])}
    /\ UNCHANGED <<outsideVars, main_pc, active, starting, listenVars,
                   tcp_connect_socketfds, stopVars, queueVars, worker_pc,
                   threadVars, worker_active, triggered, closing, reset,
                   left_behind>>

WorkerFunctorsDone(w) ==
    /\ worker_pc[w] = "functors"
    /\ batch[w] = <<>>
    /\ worker_pc' = [worker_pc EXCEPT ![w] = "check"]
    /\ UNCHANGED <<outsideVars, main_pc, active, starting, listenVars,
                   tcp_connect_socketfds, stopVars, queueVars, threadVars,
                   dispatchVars, historyVars>>

\* loop() returns, the loop is destroyed with its poller, and the thread
\* becomes joinable.
WorkerExit(w) ==
    /\ worker_pc[w] = "exit"
    /\ batch[w] = <<>>
    /\ left_behind' = left_behind \cup registered[w]
    /\ registered' = [registered EXCEPT ![w] = {}]
    /\ worker_pc' = [worker_pc EXCEPT ![w] = "exited"]
    /\ UNCHANGED <<outsideVars, main_pc, active, starting, listenVars,
                   tcp_connect_socketfds, stopVars, queueVars, threadVars,
                   worker_active, triggered, batch, closing, reset, served>>

-----------------------------------------------------------------------------

MainStep ==
    \/ StartListening \/ CreateThread \/ AwaitTid \/ AwaitLoop
    \/ MainCheck \/ MainPoll \/ DispatchListen \/ AcceptConnection
    \/ PushRegistration \/ AcceptAborted \/ AcceptEnds \/ DispatchSignal
    \/ StopWait \/ StopJoin \/ MainDrain \/ DestroyEmpty \/ DestroyReset

\* LOG_FATAL in one thread ends them all.
ProcessRuns == main_pc # "fatal"

WorkerStep(w) ==
    /\ ProcessRuns
    /\ \/ ThreadRuns(w) \/ MakeLoop(w) \/ WorkerCheck(w) \/ WorkerPoll(w)
       \/ (\E c \in Connections : WorkerClose(w, c))
       \/ PushClose(w) \/ PushCloseOfReset(w) \/ PushCloseAgain(w)
       \/ WorkerPopAll(w) \/ WorkerRegister(w) \/ WorkerFunctorsDone(w)
       \/ WorkerExit(w)

OutsideStep ==
    /\ ProcessRuns
    /\ \/ ClientConnects \/ SignalArrives
       \/ \E c \in Connections : ConnectionEnds(c)

Next == MainStep \/ (\E w \in Workers : WorkerStep(w)) \/ OutsideStep

Fairness == WF_vars(MainStep) /\ \A w \in Workers : WF_vars(WorkerStep(w))

Spec == Init /\ [][Next]_vars /\ Fairness

-----------------------------------------------------------------------------
(* Properties *)

MainStates ==
    {"start", "start thread", "await tid", "await loop", "check", "poll",
     "dispatch", "accept", "register", "stop wait", "stop join", "exited",
     "done", "advance", "fatal"}
WorkerStates ==
    {"none", "created", "make loop", "check", "poll", "dispatch", "close",
     "close again", "functors", "exit", "exited"}

\* The variables have their types.
TypeOK ==
    /\ arrivals \in 0 .. MaxConnections /\ backlog \in 0 .. MaxConnections
    /\ ended \subseteq Connections
    /\ signalled \in BOOLEAN
    /\ main_pc \in MainStates
    /\ active \subseteq {"listen", "signal", "functors"}
    /\ starting \in Workers
    /\ accepted_now \in 0 .. AcceptLimit
    /\ next_id \in 0 .. MaxConnections
    /\ tcp_connect_socketfds \subseteq Connections
    /\ listening \in BOOLEAN /\ listen_is_stopped \in BOOLEAN
    /\ signalfd_attached \in BOOLEAN /\ main_need_stop \in BOOLEAN
    /\ is_stopped \in BOOLEAN
    /\ position \in Connections \cup {NoConnection}
    /\ main_queues \in [Workers -> Seq(Connections)] /\ main_woken \in BOOLEAN
    /\ worker_queues \in [Workers -> Seq(Connections)]
    /\ woken \in [Workers -> BOOLEAN]
    /\ worker_pc \in [Workers -> WorkerStates]
    /\ tid_set \in [Workers -> BOOLEAN] /\ loop_ptr \in [Workers -> BOOLEAN]
    /\ need_stop \in [Workers -> BOOLEAN]
    /\ registered \in [Workers -> SUBSET Connections]
    /\ worker_active \in [Workers -> SUBSET Connections]
    /\ triggered \in [Workers -> BOOLEAN]
    /\ batch \in [Workers -> Seq(Connections)]
    /\ closing \in [Workers -> Connections \cup {NoConnection}]
    /\ reset \subseteq Connections
    /\ served \subseteq Connections /\ left_behind \subseteq Connections

\* A loop that _loop_ptr names and that has not been destroyed.
LoopIsAlive(w) ==
    worker_pc[w] \notin {"none", "created", "make loop", "exited"}

\* The main thread hands registrations only to loops that exist: after start()
\* has waited for them and before stop() has joined them, also when the listen
\* socket was reported together with the signal.  No registration is lost with
\* a loop's queue either.
OnlyLiveLoopsAreUsed ==
    /\ main_pc = "register" => LoopIsAlive(WorkerOf(next_id - 1))
    /\ \A w \in Workers :
          worker_queues[w] # <<>> => LoopIsAlive(w)

\* Where a connection of the map can be.
Places(c) ==
    {p \in {"registering", "queued", "popped", "registered", "closing",
            "closed", "left behind"} :
        \/ p = "registering" /\ main_pc = "register" /\ c = next_id - 1
        \/ p = "queued" /\ \E w \in Workers : c \in ToSet(worker_queues[w])
        \/ p = "popped" /\ \E w \in Workers : c \in ToSet(batch[w])
        \/ p = "registered" /\ \E w \in Workers : c \in registered[w]
        \/ p = "closing" /\ \E w \in Workers :
                              worker_pc[w] = "close" /\ closing[w] = c
        \/ p = "closed" /\ \E w \in Workers : c \in ToSet(main_queues[w])
        \/ p = "left behind" /\ c \in left_behind}

\* Until the destructor runs, every connection of the map is in exactly one
\* place on its way through the two threads, and one that is not in the map is
\* in none: it is not leaked.  A close functor that does not find its
\* connection, or is queued twice, which _close_callback() says "never" happens,
\* is of a connection that the peer has reset; no order of accepting, closing,
\* draining and stopping brings it about otherwise.
ConnectionsAccountedFor ==
    /\ main_pc \notin {"done", "advance"} =>
          /\ \A c \in tcp_connect_socketfds : Cardinality(Places(c)) = 1
          /\ \A c \in Connections \ tcp_connect_socketfds :
                Places(c) \subseteq IF c \in reset THEN {"closed"} ELSE {}
          /\ \A w \in Workers : \A i, j \in DOMAIN main_queues[w] :
                i # j /\ main_queues[w][i] = main_queues[w][j]
                    => main_queues[w][i] \in reset
    /\ main_pc = "fatal" => reset # {}

\* Graceful stop: when the main loop has ended, only connections that no
\* worker had registered before it was about to exit are still in the map;
\* all others were closed by their worker and erased.
StopIsGraceful ==
    main_pc = "exited" =>
        /\ tcp_connect_socketfds = left_behind
        /\ left_behind \cap served = {}

\* Main thread and worker w wait for room in each other's queues.
CircularWait(w) ==
    /\ main_pc = "register" /\ WorkerOf(next_id - 1) = w
    /\ Len(worker_queues[w]) >= Capacity
    /\ worker_pc[w] \in {"close", "close again"}
    /\ Len(main_queues[w]) >= Capacity

\* stop() returns although workers may wait for room in the queues that the
\* stopping thread empties, and the process gets to the destructor, or to the
\* LOG_FATAL of a reset connection, once all connections have ended.
StopReturns ==
    (main_pc = "stop wait" /\ 0 .. next_id - 1 \subseteq ended)
        ~> (main_pc \in {"exited", "done", "advance", "fatal"})

\* A client waits although all connections accepted so far have ended.
ClientWaits == backlog > 0 /\ 0 .. next_id - 1 \subseteq ended

\* A client that waits is accepted, which makes a connection that has not ended,
\* or gives up, once earlier connections have ended: neither the limit per
\* callback nor the limit on descriptors leaves it waiting.  Excepted are a
\* stop, a circular wait of full queues and the LOG_FATAL of a reset connection.
WaitingClientsAreAccepted ==
    ClientWaits ~> \/ ~ClientWaits \/ signalled \/ ~ProcessRuns
                   \/ \E w \in Workers : CircularWait(w)
=============================================================================
