----------------------------- MODULE TcpClient -----------------------------
(***************************************************************************)
(* The echo client: TcpClient and PreconnectSocketfd, which connects with  *)
(* retries, the connection that results, standard input and the signalfd,  *)
(* all in the one event loop of the main thread.  External: the network,   *)
(* the server, the terminal and the user who interrupts the program.       *)
(*                                                                         *)
(* run() calls the functor at once in the owner thread, so registrations   *)
(* are immediate.  The loop polls, dispatches what it has polled in any    *)
(* order and then expires the retry timer; that a poll finds the timer due *)
(* is a choice, which leaves the length of the intervals out.              *)
(*                                                                         *)
(* Socket k is the one of the k-th retry.  Only socket 0 is non-blocking:  *)
(* the constructor of PollableFileDescriptor makes it so, reset_to() does  *)
(* not, so connect() on a later one never returns EINPROGRESS and recv()   *)
(* on it waits for data.  What is sent always fits the send buffer here;   *)
(* TcpConnectSocketfd has the rest of a connection.                        *)
(***************************************************************************)
EXTENDS Integers, FiniteSets

CONSTANT RetryLimits   \* what max_number_of_retries of the constructor may be

ASSUME RetryLimitsAssumption == RetryLimits \subseteq Nat

Sockets == UNION {0 .. n : n \in RetryLimits}
NoSocket == -1

Dispatchers == {"preconnect", "connection", "stdin", "signal"}

VARIABLES
    \* PreconnectSocketfd and its PollableFileDescriptor
    preconnect,     \* _preconnect_socketfd_ptr is set
    socket,         \* its descriptor
    watching,       \* the write event of socket is registered
    max_retries,    \* _MAX_NUMBER_OF_RETRIES
    retries,        \* _number_of_retries
    timer_id,       \* _timer_identifier_ptr: "none", "pending", "expired"
    timer,          \* the retry timer is in the loop's container
    \* TcpClient and its connection
    is_started, is_stopped,
    connection,     \* the socket of _tcp_connect_socketfd_ptr, or NoSocket
    conn_attached, is_reading, is_write_end_shutdown,
    \* the user's callbacks
    stdin,          \* stdin_ptr: "none", "open" or "gone"
    connects, fails,    \* history: calls of the two connect callbacks
    \* the loop
    pc, batch,      \* where the loop is, what it has still to dispatch
    due,            \* the last poll found the retry timer due
    need_stop,
    process,        \* "running", or how it was cut short
    \* the system
    opened,         \* open sockets
    handshake,      \* of socket: "none", "pending", "done" or "failed"
    server,         \* its side of the connection: "open", "fin", "reset"
    edges,          \* what epoll has to report
    signal          \* "none", "raised" or "taken"

preconnectVars == <<preconnect, socket, watching, retries, timer_id, timer>>
clientVars == <<max_retries, is_started, is_stopped>>
connVars == <<connection, conn_attached, is_reading, is_write_end_shutdown>>
userVars == <<stdin, connects, fails>>
loopVars == <<pc, batch, due, need_stop, process>>
systemVars == <<opened, handshake, server, edges, signal>>
vars == <<preconnectVars, clientVars, connVars, userVars, loopVars, systemVars>>

Init ==
    /\ preconnect = FALSE /\ socket = 0 /\ watching = FALSE /\ retries = 0
    /\ max_retries \in RetryLimits
    /\ timer_id = "none" /\ timer = FALSE
    /\ is_started = FALSE /\ is_stopped = FALSE
    /\ connection = NoSocket /\ conn_attached = FALSE
    /\ is_reading = FALSE /\ is_write_end_shutdown = FALSE
    /\ stdin = "none" /\ connects = 0 /\ fails = 0
    /\ pc = "start" /\ batch = {} /\ due = FALSE /\ need_stop = FALSE
    /\ process = "running"
    /\ opened = {} /\ handshake = "none" /\ server = "open" /\ edges = {}
    /\ signal = "none"

Running == process = "running" /\ pc # "exited"

-----------------------------------------------------------------------------
(* The system *)

\* The kernel ends a connect() that was in progress.
HandshakeEnds(result) ==
    /\ Running
    /\ handshake = "pending"
    /\ handshake' = result
    /\ edges' = IF watching THEN edges \cup {"preconnect"} ELSE edges
    /\ UNCHANGED <<preconnectVars, clientVars, connVars, userVars, loopVars,
                   opened, server, signal>>

ServerSends ==
    /\ Running
    /\ conn_attached /\ is_reading /\ server = "open"
    /\ edges' = edges \cup {"connection"}
    /\ UNCHANGED <<preconnectVars, clientVars, connVars, userVars, loopVars,
                   opened, handshake, server, signal>>

ServerCloses(how) ==
    /\ Running
    /\ connection \in opened
    /\ server # "reset" /\ server # how
    /\ server' = how
    /\ edges' = IF conn_attached THEN edges \cup {"connection"} ELSE edges
    /\ UNCHANGED <<preconnectVars, clientVars, connVars, userVars, loopVars,
                   opened, handshake, signal>>

UserTypes ==
    /\ Running
    /\ stdin = "open"
    /\ edges' = edges \cup {"stdin"}
    /\ UNCHANGED <<preconnectVars, clientVars, connVars, userVars, loopVars,
                   opened, handshake, server, signal>>

UserInterrupts ==
    /\ Running
    /\ signal = "none"
    /\ signal' = "raised"
    /\ edges' = edges \cup {"signal"}
    /\ UNCHANGED <<preconnectVars, clientVars, connVars, userVars, loopVars,
                   opened, handshake, server>>

-----------------------------------------------------------------------------
(* PreconnectSocketfd *)

\* close_fd(): closing what is not open is fatal.
Close(s) ==
    /\ opened' = opened \ {s}
    /\ process' = IF s \in opened THEN process ELSE "double_close"

\* detach_from_poller()
Detach ==
    /\ watching' = FALSE
    /\ edges' = edges \ {"preconnect"}

\* TcpClient::_new_connection_callback() and the user's connect success
\* callback: the socket changes hands, standard input is opened and registered,
\* then the connection is.
NewConnectionCallback ==
    /\ preconnect' = FALSE
    /\ Detach
    /\ connection' = socket
    /\ conn_attached' = TRUE
    /\ is_reading' = TRUE
    /\ stdin' = "open"
    /\ connects' = connects + 1
    /\ handshake' = "none"
    /\ UNCHANGED <<socket, retries, timer_id, timer, is_write_end_shutdown,
                   fails, opened, process>>

\* Mutants: the identifier of the timer is kept when the client gives up; one
\* retry too many; the old descriptor stays registered and is tried again.
GiveUpKeepsTimer ==
    /\ retries >= max_retries
    /\ Detach
    /\ Close(socket)
    /\ fails' = fails + 1
    /\ handshake' = "none"
    /\ UNCHANGED <<preconnect, socket, retries, timer_id, timer, connVars,
                   stdin, connects>>
RetryOnceMore ==
    /\ retries <= max_retries
    /\ retries' = retries + 1
    /\ Detach
    /\ socket' = retries + 1
    /\ opened' = (opened \ {socket}) \cup {retries + 1}
    /\ handshake' = "none"
    /\ timer' = TRUE
    /\ timer_id' = "pending"
    /\ UNCHANGED <<preconnect, process, connVars, userVars>>
RetryKeepsDescriptor ==
    /\ retries < max_retries
    /\ retries' = retries + 1
    /\ timer' = TRUE
    /\ timer_id' = "pending"
    /\ UNCHANGED <<preconnect, socket, watching, edges, handshake, opened,
                   process, connVars, userVars>>

\* _schedule_retry(): give up ...
GiveUp ==
    /\ retries >= max_retries
    /\ timer_id' = "none"
    /\ Detach
    /\ Close(socket)
    /\ fails' = fails + 1
    /\ handshake' = "none"
    /\ UNCHANGED <<preconnect, socket, retries, timer, connVars, stdin,
                   connects>>

\* ... or reset_to() a new socket and try again later.
RetryLater ==
    /\ retries < max_retries
    /\ retries' = retries + 1
    /\ Detach
    /\ socket' = retries + 1
    /\ opened' = (opened \ {socket}) \cup {retries + 1}
    /\ process' = IF socket \in opened THEN process ELSE "double_close"
    /\ handshake' = "none"
    /\ timer' = TRUE
    /\ timer_id' = "pending"
    /\ UNCHANGED <<preconnect, connVars, userVars>>

ScheduleRetry == GiveUp \/ RetryLater

\* The errors that are not worth a retry: the fail callback is called and the
\* descriptor stays open.
InvalidConnect ==
    /\ fails' = fails + 1
    /\ UNCHANGED <<preconnectVars, connVars, stdin, connects, opened,
                   handshake, edges, process>>

\* The errors that _try_once() does not know (a timeout, EINTR) are fatal.
UnknownError ==
    /\ process' = "unknown_error"
    /\ UNCHANGED <<preconnectVars, connVars, userVars, opened, handshake,
                   edges>>

\* Mutant: nobody watches the handshake.
AwaitUnwatched ==
    /\ socket = 0
    /\ handshake' = "pending"
    /\ watching' = FALSE
    /\ UNCHANGED <<preconnect, socket, retries, timer_id, timer, connVars,
                   userVars, opened, edges, process>>

\* enable_write_event(): leave a connect() in progress to the poller.
AwaitHandshake ==
    /\ socket = 0
    /\ watching' = TRUE
    /\ handshake' = "pending"
    /\ UNCHANGED <<preconnect, socket, retries, timer_id, timer, connVars,
                   userVars, opened, edges, process>>

\* TcpClient::start(): a new PreconnectSocketfd, whose first attempt follows at
\* once.
Start ==
    /\ Running
    /\ pc = "start"
    /\ preconnect' = TRUE
    /\ opened' = {0}
    /\ pc' = "try"
    /\ UNCHANGED <<socket, watching, retries, timer_id, timer, clientVars,
                   connVars, userVars, batch, due, need_stop, process,
                   handshake, server, edges, signal>>

\* _try_once(): what connect() may answer.
TryOnce ==
    /\ Running
    /\ pc = "try"
    /\ \/ NewConnectionCallback
       \/ AwaitHandshake
       \/ ScheduleRetry
       \/ InvalidConnect
       \/ UnknownError
    /\ is_started' = TRUE
    /\ pc' = "check"
    /\ UNCHANGED <<max_retries, is_stopped, batch, due, need_stop, server,
                   signal>>

\* cancel(): only once a retry has been scheduled.  The identifier of a timer
\* that has gone off removes nothing.
Cancel ==
    IF timer_id # "none"
    THEN /\ timer' = FALSE
         /\ timer_id' = "none"
         /\ watching' = FALSE
         /\ Close(socket)
         /\ fails' = fails + 1
    ELSE UNCHANGED <<timer, timer_id, watching, opened, process, fails>>

-----------------------------------------------------------------------------
(* The connection *)

\* abort_from_event_loop()
AbortConnection ==
    /\ conn_attached' = FALSE
    /\ is_reading' = FALSE
    /\ is_write_end_shutdown' = TRUE
    /\ Close(connection)

\* shutdown_write(): ENOTCONN aborts the connection.
ShutdownWrite ==
    IF server = "reset"
    THEN AbortConnection
    ELSE /\ is_write_end_shutdown' = TRUE
         /\ UNCHANGED <<conn_attached, is_reading, opened, process>>

\* The end of the input with the write end still open: the connection is closed
\* on both sides now, which epoll reports.
ShutdownAtEof ==
    IF server = "reset"
    THEN AbortConnection /\ edges' = edges \ {"connection"}
    ELSE /\ is_reading' = FALSE
         /\ is_write_end_shutdown' = TRUE
         /\ edges' = edges \cup {"connection"}
         /\ UNCHANGED <<conn_attached, opened, process>>

-----------------------------------------------------------------------------
(* The loop *)

\* Nothing but the loop's own descriptors is registered.
PollerEmpty ==
    ~ watching /\ ~ conn_attached /\ stdin # "open" /\ signal = "taken"

\* The top of loop()
CheckStop ==
    /\ Running
    /\ pc = "check"
    /\ pc' = IF need_stop /\ PollerEmpty THEN "exited" ELSE "poll"
    /\ UNCHANGED <<preconnectVars, clientVars, connVars, userVars, batch, due,
                   need_stop, process, systemVars>>

\* epoll_wait(): edges are reported once; the timerfd if the timer is due.
Poll ==
    /\ Running
    /\ pc = "poll"
    /\ due' \in {d \in BOOLEAN : (d => timer) /\ (edges = {} => d)}
    /\ batch' = edges
    /\ edges' = {}
    /\ pc' = "dispatch"
    /\ UNCHANGED <<preconnectVars, clientVars, connVars, userVars, need_stop,
                   process, opened, handshake, server, signal>>

Dispatch(d) ==
    /\ Running
    /\ pc = "dispatch"
    /\ d \in batch
    /\ batch' = batch \ {d}

\* PreconnectSocketfd::_write_event_callback()
DispatchPreconnect ==
    /\ Dispatch("preconnect")
    /\ preconnect
    /\ IF handshake = "done" THEN NewConnectionCallback ELSE ScheduleRetry
    /\ UNCHANGED <<clientVars, pc, due, need_stop, server, signal>>

\* The connection's events.  A socket that an earlier handler of this batch has
\* closed makes getsockopt() fail; a connection closed on both sides is
\* detached; otherwise the read loop ends with EAGAIN, at EOF, or, on a
\* blocking socket, waits in recv().
DispatchConnection ==
    /\ Dispatch("connection")
    /\ IF connection \notin opened
       THEN /\ process' = "bad_descriptor"
            /\ UNCHANGED <<pc, connVars, edges, opened>>
       ELSE /\ UNCHANGED connection
            /\ pc' = IF server = "open" /\ is_reading /\ connection # 0
                     THEN "recv" ELSE pc
            /\ CASE server = "open" ->
                      UNCHANGED <<conn_attached, is_reading,
                                  is_write_end_shutdown, edges, opened, process>>
                 [] server # "open" /\ is_write_end_shutdown ->
                      /\ conn_attached' = FALSE
                      /\ is_reading' = FALSE
                      /\ edges' = edges \ {"connection"}
                      /\ UNCHANGED <<is_write_end_shutdown, opened, process>>
                 [] OTHER -> ShutdownAtEof
    /\ UNCHANGED <<preconnectVars, clientVars, userVars, due, need_stop,
                   handshake, server, signal>>

\* A blocking recv() returns at last with EOF.  disable_read_event() registers
\* the descriptor anew, so that its state is reported again.
RecvReturns ==
    /\ Running
    /\ pc = "recv"
    /\ server # "open"
    /\ pc' = "dispatch"
    /\ IF is_write_end_shutdown
       THEN /\ is_reading' = FALSE
            /\ edges' = edges \cup {"connection"}
            /\ UNCHANGED <<conn_attached, is_write_end_shutdown, opened,
                           process>>
       ELSE ShutdownAtEof
    /\ UNCHANGED <<preconnectVars, clientVars, connection, userVars, batch,
                   due, need_stop, handshake, server, signal>>

\* Stdinfd::_read_event_callback(): what was typed is sent, unless the
\* connection is detached; EPIPE aborts it.  The end of the input is fatal.  A
\* Stdinfd that an earlier handler of this batch has destroyed is used all the
\* same.
DispatchStdin(end) ==
    /\ Dispatch("stdin")
    /\ UNCHANGED connection
    /\ IF stdin = "open" /\ ~ end /\ conn_attached
          /\ (is_write_end_shutdown \/ server = "reset")
       THEN AbortConnection /\ edges' = edges \ {"connection"}
       ELSE /\ process' = CASE stdin = "gone" -> "dangling"
                            [] stdin = "open" /\ end -> "stdin_closed"
                            [] OTHER -> process
            /\ UNCHANGED <<conn_attached, is_reading, is_write_end_shutdown,
                           edges, opened>>
    /\ UNCHANGED <<preconnectVars, clientVars, userVars, pc, due, need_stop,
                   handshake, server, signal>>

\* signal_dispatcher(): Stdinfd is destroyed, the signalfd detached, the
\* client stopped and the loop asked to stop.
DispatchSignal ==
    /\ Dispatch("signal")
    /\ signal' = "taken"
    /\ stdin' = IF stdin = "open" THEN "gone" ELSE stdin
    /\ is_stopped' = TRUE
    /\ need_stop' = TRUE
    /\ IF preconnect
       THEN /\ Cancel
            /\ UNCHANGED <<conn_attached, is_reading, is_write_end_shutdown>>
       ELSE /\ UNCHANGED <<timer, timer_id, watching, fails>>
            /\ IF is_write_end_shutdown
               THEN UNCHANGED <<conn_attached, is_reading,
                                is_write_end_shutdown, opened, process>>
               ELSE ShutdownWrite
    /\ edges' = IF ~ conn_attached' THEN edges \ {"stdin", "connection"}
                ELSE IF server = "fin"
                     THEN (edges \ {"stdin"}) \cup {"connection"}
                ELSE edges \ {"stdin"}
    /\ UNCHANGED <<preconnect, socket, retries, max_retries, is_started,
                   connection, connects, pc, due, handshake, server>>

\* _expire_timers_and_update_alarm(): the retry timer is a one-off; _try_once()
\* follows at once.
ExpireTimers ==
    /\ Running
    /\ pc = "dispatch"
    /\ batch = {}
    /\ due' = FALSE
    /\ timer' = (timer /\ ~ due)
    /\ timer_id' = IF due /\ timer THEN "expired" ELSE timer_id
    /\ pc' = IF due /\ timer THEN "try" ELSE "check"
    /\ UNCHANGED <<preconnect, socket, watching, retries, clientVars, connVars,
                   userVars, batch, need_stop, process, systemVars>>

LoopStep ==
    \/ Start
    \/ TryOnce
    \/ CheckStop
    \/ Poll
    \/ DispatchPreconnect
    \/ DispatchConnection
    \/ RecvReturns
    \/ \E end \in BOOLEAN : DispatchStdin(end)
    \/ DispatchSignal
    \/ ExpireTimers

Handshake == \E result \in {"done", "failed"} : HandshakeEnds(result)

Next ==
    \/ LoopStep
    \/ Handshake
    \/ ServerSends
    \/ \E how \in {"fin", "reset"} : ServerCloses(how)
    \/ UserTypes
    \/ UserInterrupts

\* The thread runs, and the kernel gives every connect() an outcome in the end.
Fairness == WF_vars(LoopStep) /\ WF_vars(Handshake)

Spec == Init /\ [][Next]_vars /\ Fairness

-----------------------------------------------------------------------------
(* Properties *)

LoopStates == {"start", "try", "check", "poll", "dispatch", "recv", "exited"}
Outcomes == {"running", "double_close", "bad_descriptor", "unknown_error",
             "stdin_closed", "dangling"}

\* The variables hold what the members and descriptors they stand for can hold.
TypeOK ==
    /\ preconnect \in BOOLEAN /\ socket \in Sockets /\ watching \in BOOLEAN
    /\ max_retries \in RetryLimits /\ retries = socket /\ retries <= max_retries
    /\ timer_id \in {"none", "pending", "expired"} /\ timer \in BOOLEAN
    /\ is_started \in BOOLEAN /\ is_stopped \in BOOLEAN
    /\ connection \in Sockets \cup {NoSocket}
    /\ conn_attached \in BOOLEAN /\ is_reading \in BOOLEAN
    /\ is_write_end_shutdown \in BOOLEAN
    /\ stdin \in {"none", "open", "gone"}
    /\ connects \in 0 .. 1 /\ fails \in 0 .. 2
    /\ pc \in LoopStates
    /\ batch \subseteq Dispatchers /\ edges \subseteq Dispatchers
    /\ due \in BOOLEAN /\ need_stop \in BOOLEAN
    /\ process \in Outcomes
    /\ opened \subseteq Sockets
    /\ handshake \in {"none", "pending", "done", "failed"}
    /\ server \in {"open", "fin", "reset"}
    /\ signal \in {"none", "raised", "taken"}

\* reset_to(), _schedule_retry(), cancel() and the hand-over to the connection
\* each own the descriptor in turn: whatever the order of retries, hand-over,
\* abort and stop(), no socket is left behind, and none is closed twice.
SocketsAccountedFor ==
    /\ process # "double_close"
    /\ \A s \in opened : s = connection \/ (preconnect /\ s = socket)

\* _try_once(), _write_event_callback() and _schedule_retry() pass one attempt
\* on to each other: until the outcome is known exactly one of the retry timer
\* and the watched handshake, which is under way or about to be dispatched,
\* carries it on; once it is known nothing does, and success excludes failure.
OneContinuation ==
    pc \notin {"start", "try"} /\ process = "running" =>
       /\ connects = 0 \/ fails = 0
       /\ connects + fails > 0 => ~ timer /\ ~ watching
       /\ connects + fails = 0 =>
             /\ timer # watching
             /\ watching => \/ handshake = "pending"
                            \/ "preconnect" \in edges \cup batch

\* A started client calls one of its connect callbacks in the end, unless the
\* program ends before; and once it has failed, a stopped client leaves nothing
\* registered that keeps loop() from returning.
AttemptsEnd ==
    /\ is_started ~> (connects + fails > 0 \/ ~ Running)
    /\ (is_stopped /\ fails > 0) ~> ~ Running

============================================================================
