------------------------- MODULE TcpConnectSocketfd -------------------------
(***************************************************************************)
(* One connection of a TcpServer with a thread pool, from its acceptance   *)
(* to its erasure: TcpConnectSocketfd and PollableFileDescriptor in the    *)
(* worker loop, the connection's entry in the main loop's map, HttpServer  *)
(* as the user, and, external, the socket, epoll and the peer.             *)
(*                                                                         *)
(* The worker dispatches close, error, read and write in that order, one   *)
(* action per system call or callback, so that the peer may act in         *)
(* between.  epoll is edge triggered: edge says that the descriptor is on  *)
(* the ready list.  What the peer sends are whole requests: "keep",        *)
(* "close" ("Connection: close") or "bad" (it does not parse).  A reply is *)
(* ReplySize units and the socket's send buffer holds SendRoom of them.    *)
(*                                                                         *)
(* run() called in the owner thread calls the functor at once, so the      *)
(* worker's own (un)registrations are immediate.  Only start(), called in  *)
(* the main thread, and the check for inactivity go through the queue.     *)
(***************************************************************************)
EXTENDS Integers, Sequences, FiniteSetsExt

CONSTANTS Kinds,        \* the kinds of requests the peer sends
          MaxRequests,  \* bound: requests the peer sends
          MaxChecks,    \* bound: checks for inactivity
          ReplySize,    \* units of a reply
          SendRoom,     \* units the send buffer holds
          PeerMayReset  \* the peer may reset the connection

ASSUME ConnectionAssumption ==
    /\ Kinds \subseteq {"keep", "close", "bad"}
    /\ MaxRequests \in Nat /\ MaxChecks \in Nat
    /\ ReplySize \in Nat \ {0} /\ SendRoom \in Nat \ {0}
    /\ PeerMayReset \in BOOLEAN

VARIABLES
    \* the socket and the peer
    unread,             \* requests in the receive buffer
    peer,               \* its side: "open", "fin" or "reset"
    local_fin,          \* shutdown(SHUT_WR) was done
    backlog,            \* units in the send buffer
    fd_open,            \* the descriptor is open
    attached, edge,     \* it is in the worker's epoll; on the ready list
    requests,           \* requests sent so far
    \* PollableFileDescriptor and TcpConnectSocketfd
    is_reading, is_writing, is_detached,
    input,              \* _input_buffer: requests not yet parsed
    output,             \* _output_buffer: units not yet sent, its readable
                        \* size, which release() does not change
    is_write_end_shutdown, is_reset, is_aborted,
    write_complete,     \* _write_complete_callback: "none" or "shutdown"
    parser,             \* context: "open", "closing" (done, not reset), "gone"
    \* the worker and the main loop
    pc, return_to,      \* the worker; where shutdown_write() returns to
    active,             \* _active_events
    functors,           \* the worker's functor queue
    in_map,             \* the entry in _tcp_connect_socketfds
    close_functors,     \* _close_callback functors queued for the main loop
    checks,             \* checks for inactivity so far
    process,            \* "running", or how it ended
    closes              \* history: calls of _close_callback

kernelVars == <<unread, peer, local_fin, backlog, requests>>
pollVars == <<is_reading, is_writing, is_detached, attached, edge>>
closeVars == <<is_write_end_shutdown, is_reset, is_aborted, fd_open, parser,
               close_functors, closes>>
bufferVars == <<input, output, write_complete>>
workerVars == <<pc, return_to, active, functors>>
mainVars == <<in_map, checks>>
vars == <<kernelVars, pollVars, closeVars, bufferVars, workerVars, mainVars,
          process>>

Init ==
    /\ unread = <<>> /\ peer = "open" /\ local_fin = FALSE /\ backlog = 0
    /\ fd_open = FALSE /\ attached = FALSE /\ edge = FALSE /\ requests = 0
    /\ is_reading = FALSE /\ is_writing = FALSE /\ is_detached = TRUE
    /\ input = <<>> /\ output = 0
    /\ is_write_end_shutdown = FALSE /\ is_reset = FALSE /\ is_aborted = FALSE
    /\ write_complete = "none" /\ parser = "open"
    /\ pc = "poll" /\ return_to = "write" /\ active = {} /\ functors = <<>>
    /\ in_map = FALSE /\ close_functors = 0 /\ checks = 0
    /\ process = "running" /\ closes = 0

-----------------------------------------------------------------------------
(* The socket, epoll and the peer *)

\* What epoll_wait() would report, given the events asked for.
Ready(reading, writing, fin) ==
    {e \in {"close", "error", "read", "write"} :
        \/ e = "close" /\ (peer = "reset" \/ (peer = "fin" /\ fin))
        \/ e = "error" /\ peer = "reset"
        \/ e = "read" /\ reading /\ (unread # <<>> \/ peer # "open")
        \/ e = "write" /\ writing /\ (backlog < SendRoom \/ fin
                                        \/ peer = "reset")}

\* The peer can act on the connection.
PeerConnected == process = "running" /\ fd_open /\ peer # "reset"

PeerSends(kind) ==
    /\ PeerConnected
    /\ peer = "open"
    /\ requests < MaxRequests
    /\ requests' = requests + 1
    /\ unread' = Append(unread, kind)
    /\ edge' = (edge \/ (attached /\ is_reading))
    /\ UNCHANGED <<peer, local_fin, backlog, is_reading, is_writing,
                   is_detached, attached, closeVars, bufferVars, workerVars,
                   mainVars, process>>

PeerCloses(how) ==
    /\ PeerConnected
    /\ how = "fin" => peer = "open"
    /\ how = "reset" => PeerMayReset
    /\ peer' = how
    /\ edge' = (edge \/ attached)
    /\ UNCHANGED <<unread, local_fin, backlog, requests, is_reading,
                   is_writing, is_detached, attached, closeVars, bufferVars,
                   workerVars, mainVars, process>>

\* The peer takes what is in the send buffer.
PeerReads ==
    /\ PeerConnected
    /\ backlog > 0
    /\ backlog' = 0
    /\ edge' = (edge \/ (attached /\ is_writing))
    /\ UNCHANGED <<unread, peer, local_fin, requests, is_reading, is_writing,
                   is_detached, attached, closeVars, bufferVars, workerVars,
                   mainVars, process>>

-----------------------------------------------------------------------------
(* PollableFileDescriptor *)

\* _register_event() in the worker: EPOLL_CTL_ADD or MOD, both of which put a
\* descriptor that is ready on the ready list.
RegisterEvent(reading, writing, fin) ==
    /\ is_reading' = reading
    /\ is_writing' = writing
    /\ is_detached' = FALSE
    /\ attached' = TRUE
    /\ edge' = (edge \/ Ready(reading, writing, fin) # {})

\* detach_from_poller()
Detach ==
    /\ is_detached' = TRUE
    /\ is_reading' = FALSE
    /\ is_writing' = FALSE
    /\ attached' = FALSE
    /\ edge' = FALSE

\* The object lives as long as the map, a dispatch or a queued check has it.
Alive(listed, at, queue) ==
    listed \/ at # "poll" \/ \E i \in DOMAIN queue : queue[i] = "check"

\* ~TcpConnectSocketfd closes the descriptor unless it was reset.
DestroyIfUnused(listed, at, queue) ==
    fd_open' = (fd_open /\ Alive(listed, at, queue))

-----------------------------------------------------------------------------
(* TcpConnectSocketfd *)

\* Mutant: the close callback is registered twice.
PostCloseTwice ==
    /\ close_functors' = close_functors + 2
    /\ closes' = closes + 2

\* The user's close callback: TcpServer posts a functor to the main loop.
PostClose ==
    /\ close_functors' = close_functors + 1
    /\ closes' = closes + 1

\* abort_from_event_loop(): detach, then reset_connection().
Abort ==
    IF is_aborted
    THEN /\ process' = "aborted_twice"
         /\ UNCHANGED <<pollVars, closeVars>>
    ELSE /\ Detach
         /\ PostClose
         /\ is_write_end_shutdown' = TRUE
         /\ is_reset' = TRUE
         /\ is_aborted' = TRUE
         /\ fd_open' = FALSE
         /\ parser' = "gone"
         /\ UNCHANGED process

\* epoll_wait() returns the descriptor; dispatch_active_events() locks the
\* lifetime guard.
Poll ==
    LET events == Ready(is_reading, is_writing, local_fin)
    IN  /\ process = "running"
        /\ pc = "poll"
        /\ attached /\ edge
        /\ edge' = FALSE
        /\ IF events = {}
           THEN UNCHANGED <<pc, active, process>>
           ELSE /\ active' = events
                /\ pc' = "close"
                /\ process' = IF Alive(in_map, pc, functors) THEN "running"
                                                             ELSE "dangling"
        /\ UNCHANGED <<kernelVars, is_reading, is_writing, is_detached,
                       attached, closeVars, bufferVars, return_to, functors,
                       mainVars>>

\* Mutant: the descriptor stays in epoll.
CloseEventNoDetach ==
    /\ process = "running"
    /\ pc = "close"
    /\ IF "close" \in active THEN PostClose
                             ELSE UNCHANGED <<close_functors, closes>>
    /\ pc' = "read"
    /\ UNCHANGED <<kernelVars, pollVars, is_write_end_shutdown, is_reset,
                   is_aborted, fd_open, parser, bufferVars, return_to, active,
                   functors, mainVars, process>>

\* _close_event_callback(); _error_event_callback() only logs.
CloseEvent ==
    /\ process = "running"
    /\ pc = "close"
    /\ IF "close" \in active THEN Detach /\ PostClose
                             ELSE UNCHANGED <<pollVars, close_functors, closes>>
    /\ pc' = "read"
    /\ UNCHANGED <<kernelVars, is_write_end_shutdown, is_reset, is_aborted,
                   fd_open, parser, bufferVars, return_to, active, functors,
                   mainVars, process>>

\* Mutant: one recv() per event.
ReceiveOnce(queue) == SubSeq(queue, 1, Min({1, Len(queue)}))

\* _receive_all_data() reads until EAGAIN or EOF.
ReceiveAll(queue) == queue

\* _read_event_callback(): everything is received; at EOF, if the peer has
\* closed its side, reading is disabled.
ReadEvent ==
    /\ process = "running"
    /\ pc = "read"
    /\ IF "read" \in active
       THEN /\ input' = input \o ReceiveAll(unread)
            /\ unread' = SubSeq(unread, Len(ReceiveAll(unread)) + 1,
                                Len(unread))
            /\ IF peer # "open" /\ unread' = <<>> /\ is_reading
               THEN RegisterEvent(FALSE, is_writing, local_fin)
               ELSE UNCHANGED pollVars
            /\ pc' = IF unread # <<>> THEN "message" ELSE "after_read"
       ELSE /\ UNCHANGED <<input, unread, pollVars>>
            /\ pc' = "write"
    /\ UNCHANGED <<peer, local_fin, backlog, requests, closeVars, output,
                   write_complete, return_to, active, functors, mainVars,
                   process>>

\* _send_as_many_data(): what of size units the send buffer takes.
SendAsManyData(size) == Min({size, SendRoom - backlog})

\* send(): nothing on a stopped connection; behind what already waits; else
\* as much as fits, the rest is left to the write event.  EPIPE aborts.
Send ==
    LET sent == SendAsManyData(ReplySize)
    IN  CASE is_detached ->
               UNCHANGED <<backlog, output, pollVars, closeVars, process>>
          [] ~ is_detached /\ is_writing ->
               /\ output' = output + ReplySize
               /\ UNCHANGED <<backlog, pollVars, closeVars, process>>
          [] ~ is_detached /\ ~ is_writing /\ (peer = "reset" \/ local_fin) ->
               Abort /\ UNCHANGED <<backlog, output>>
          [] OTHER ->
               /\ backlog' = backlog + sent
               /\ output' = output + (ReplySize - sent)
               /\ IF sent < ReplySize
                  THEN RegisterEvent(is_reading, TRUE, local_fin)
                  ELSE UNCHANGED pollVars
               /\ UNCHANGED <<closeVars, process>>

\* HttpServer::_message_callback(): the context is gone, or the parser has not
\* been reset (bad_any_cast, "unknown http parsing state"); ...
MessageAfterClose ==
    /\ process = "running"
    /\ pc = "message"
    /\ parser # "open"
    /\ process' = "reentered"
    /\ UNCHANGED <<kernelVars, pollVars, closeVars, bufferVars, workerVars,
                   mainVars>>

\* ... one request does not parse ...
MessageFails ==
    /\ process = "running"
    /\ pc = "message"
    /\ parser = "open"
    /\ Head(input) = "bad"
    /\ Abort
    /\ input' = Tail(input)
    /\ pc' = "after_read"
    /\ UNCHANGED <<kernelVars, output, write_complete, return_to, active,
                   functors, mainVars>>

\* ... or is answered.
MessageAnswered ==
    /\ process = "running"
    /\ pc = "message"
    /\ parser = "open"
    /\ Head(input) # "bad"
    /\ Send
    /\ pc' = "answered"
    /\ UNCHANGED <<unread, peer, local_fin, requests, input, write_complete,
                   return_to, active, functors, mainVars>>

\* After the reply: "Connection: close" shuts down now or when it is written.
Answered ==
    /\ process = "running"
    /\ pc = "answered"
    /\ input' = Tail(input)
    /\ IF Head(input) = "close" /\ ~ is_write_end_shutdown
       THEN /\ parser' = "closing"
            /\ IF is_writing
               THEN /\ write_complete' = "shutdown"
                    /\ pc' = "after_read"
                    /\ UNCHANGED return_to
               ELSE /\ pc' = "shutdown_write"
                    /\ return_to' = "after_read"
                    /\ UNCHANGED write_complete
       ELSE /\ pc' = "after_read"
            /\ UNCHANGED <<parser, write_complete, return_to>>
    /\ UNCHANGED <<kernelVars, pollVars, is_write_end_shutdown, is_reset,
                   is_aborted, fd_open, close_functors, closes, output, active,
                   functors, mainVars, process>>

\* Mutant: the output is not looked at.
NothingToRead == ~ is_reading /\ ~ is_write_end_shutdown

\* The test after EOF: nothing to be written and the write end is still open.
NothingLeft == ~ is_reading /\ ~ is_write_end_shutdown /\ ~ is_writing

\* The end of _read_event_callback()
AfterRead ==
    /\ process = "running"
    /\ pc = "after_read"
    /\ input' = IF is_reading THEN input ELSE <<>>
    /\ IF NothingLeft
       THEN pc' = "shutdown_write" /\ return_to' = "write"
       ELSE pc' = "write" /\ UNCHANGED return_to
    /\ UNCHANGED <<kernelVars, pollVars, closeVars, output, write_complete,
                   active, functors, mainVars, process>>

\* shutdown_write(): ENOTCONN aborts.  The write-complete callback runs before
\* _is_write_end_shutdown is set.
ShutdownWrite ==
    /\ process = "running"
    /\ pc = "shutdown_write"
    /\ CASE is_write_end_shutdown ->
              /\ pc' = return_to
              /\ UNCHANGED <<local_fin, pollVars, closeVars, process>>
         [] ~ is_write_end_shutdown /\ peer = "reset" ->
              /\ Abort
              /\ pc' = return_to
              /\ UNCHANGED local_fin
         [] OTHER ->
              /\ local_fin' = TRUE
              /\ IF is_writing
                 THEN RegisterEvent(is_reading, FALSE, TRUE)
                 ELSE /\ edge' = attached
                      /\ UNCHANGED <<is_reading, is_writing, is_detached,
                                     attached>>
              /\ IF write_complete = "shutdown"
                 THEN /\ process' = "recursion"
                      /\ UNCHANGED <<pc, closeVars>>
                 ELSE /\ is_write_end_shutdown' = TRUE
                      /\ parser' = "gone"
                      /\ pc' = return_to
                      /\ UNCHANGED <<is_reset, is_aborted, fd_open,
                                     close_functors, closes, process>>
    /\ UNCHANGED <<unread, peer, backlog, requests, bufferVars, return_to,
                   active, functors, mainVars>>

\* Mutant: one unit too many.
ForwardTooFar(size, n) == size - n - 1

\* MutableSizeTcpBuffer::forward_read_position(): what is left to read.
ForwardReadPosition(size, n) == size - Min({n, size})

\* _write_event_callback(): write what waits; EPIPE aborts, after which the
\* rest of the callback finds the write end shut down.
WriteEvent ==
    LET sent == SendAsManyData(output)
        done == "write" \notin active \/ is_detached \/ is_write_end_shutdown
        broken == output > 0 /\ (peer = "reset" \/ local_fin)
    IN  /\ process = "running"
        /\ pc = "write"
        /\ CASE done ->
                  /\ pc' = "end"
                  /\ UNCHANGED <<backlog, output, pollVars, closeVars, process>>
             [] ~ done /\ broken ->
                  /\ Abort
                  /\ pc' = "end"
                  /\ UNCHANGED <<backlog, output>>
             [] OTHER ->
                  /\ backlog' = backlog + sent
                  /\ output' = ForwardReadPosition(output, sent)
                  /\ IF sent < output
                     THEN pc' = "end" /\ UNCHANGED pollVars
                     ELSE /\ pc' = "write_complete"
                          /\ RegisterEvent(is_reading, FALSE, local_fin)
                  /\ UNCHANGED <<closeVars, process>>
        /\ UNCHANGED <<unread, peer, local_fin, requests, input,
                       write_complete, return_to, active, functors, mainVars>>

\* Mutant: the test after the last write is missing.
WriteCompleteOnly ==
    /\ process = "running"
    /\ pc = "write_complete"
    /\ IF write_complete = "shutdown"
       THEN pc' = "shutdown_write" /\ return_to' = "end"
       ELSE pc' = "end" /\ UNCHANGED return_to
    /\ UNCHANGED <<kernelVars, pollVars, closeVars, bufferVars, active,
                   functors, mainVars, process>>

\* The write-complete callback, then the same test as after a read.
WriteComplete ==
    /\ process = "running"
    /\ pc = "write_complete"
    /\ IF write_complete = "shutdown" \/ NothingLeft
       THEN pc' = "shutdown_write" /\ return_to' = "end"
       ELSE pc' = "end" /\ UNCHANGED return_to
    /\ UNCHANGED <<kernelVars, pollVars, closeVars, bufferVars, active,
                   functors, mainVars, process>>

\* The dispatch is over and the lifetime guard is released.
EndDispatch ==
    /\ process = "running"
    /\ pc = "end"
    /\ pc' = "poll"
    /\ active' = {}
    /\ DestroyIfUnused(in_map, pc', functors)
    /\ UNCHANGED <<kernelVars, pollVars, is_write_end_shutdown, is_reset,
                   is_aborted, parser, close_functors, closes, bufferVars,
                   return_to, functors, mainVars, process>>

\* A functor of the worker: register_event_for_fd() for start(), ...
RunRegister ==
    /\ process = "running"
    /\ pc = "poll"
    /\ functors # <<>> /\ Head(functors) = "register"
    /\ functors' = Tail(functors)
    /\ RegisterEvent(is_reading, is_writing, local_fin)
    /\ UNCHANGED <<kernelVars, closeVars, bufferVars, pc, return_to, active,
                   mainVars, process>>

\* ... or _check_and_abort_impl().  The predicate reads the time stamp through
\* a reference into the map, so its answer is any if the entry is gone.
RunCheck(idle) ==
    /\ process = "running"
    /\ pc = "poll"
    /\ functors # <<>> /\ Head(functors) = "check"
    /\ functors' = Tail(functors)
    /\ IF idle
       THEN Abort
       ELSE /\ DestroyIfUnused(in_map, pc, functors')
            /\ UNCHANGED <<pollVars, is_write_end_shutdown, is_reset,
                           is_aborted, parser, close_functors, closes, process>>
    /\ UNCHANGED <<kernelVars, bufferVars, pc, return_to, active, mainVars>>

-----------------------------------------------------------------------------
(* The main loop: TcpServer and HttpServer *)

\* _new_connection_callback(): into the map, and start().
NewConnection ==
    /\ process = "running"
    /\ ~ in_map /\ closes = 0
    /\ in_map' = TRUE
    /\ fd_open' = TRUE
    /\ is_reading' = TRUE
    /\ is_detached' = FALSE
    /\ functors' = <<"register">>
    /\ UNCHANGED <<kernelVars, is_writing, attached, edge,
                   is_write_end_shutdown, is_reset, is_aborted, parser,
                   close_functors, closes, bufferVars, pc, return_to, active,
                   checks, process>>

\* The functor of _close_callback(): erase, "never reaches here" if it is gone.
EraseConnection ==
    /\ process = "running"
    /\ close_functors > 0
    /\ close_functors' = close_functors - 1
    /\ in_map' = FALSE
    /\ process' = IF in_map THEN "running" ELSE "closed_twice"
    /\ DestroyIfUnused(FALSE, pc, functors)
    /\ UNCHANGED <<kernelVars, pollVars, is_write_end_shutdown, is_reset,
                   is_aborted, parser, closes, bufferVars, workerVars, checks>>

\* _remove_inactive_connections() finds a connection that may be inactive.
RemoveInactive ==
    /\ process = "running"
    /\ in_map
    /\ checks < MaxChecks
    /\ checks' = checks + 1
    /\ functors' = Append(functors, "check")
    /\ UNCHANGED <<kernelVars, pollVars, closeVars, bufferVars, pc, return_to,
                   active, in_map, process>>

-----------------------------------------------------------------------------
WorkerStep ==
    \/ Poll \/ CloseEvent \/ ReadEvent \/ MessageAfterClose \/ MessageFails
    \/ MessageAnswered \/ Answered \/ AfterRead \/ ShutdownWrite \/ WriteEvent
    \/ WriteComplete \/ EndDispatch \/ RunRegister
    \/ \E idle \in BOOLEAN : RunCheck(idle)

Next ==
    \/ WorkerStep
    \/ NewConnection \/ EraseConnection \/ RemoveInactive
    \/ \E kind \in Kinds : PeerSends(kind)
    \/ \E how \in {"fin", "reset"} : PeerCloses(how)
    \/ PeerReads

\* Both loops are scheduled.  Nothing is assumed of the peer.
Fairness == WF_vars(WorkerStep) /\ WF_vars(EraseConnection)

Spec == Init /\ [][Next]_vars /\ Fairness

-----------------------------------------------------------------------------
(* Properties *)

WorkerStates == {"poll", "close", "read", "message", "answered", "after_read",
                 "shutdown_write", "write", "write_complete", "end"}
Outcomes == {"running", "aborted_twice", "closed_twice", "dangling",
             "recursion", "reentered"}

\* The variables have their types.
TypeOK ==
    /\ unread \in Seq(Kinds) /\ input \in Seq(Kinds)
    /\ peer \in {"open", "fin", "reset"}
    /\ backlog \in 0 .. SendRoom /\ output \in 0 .. ReplySize * MaxRequests
    /\ requests \in 0 .. MaxRequests /\ checks \in 0 .. MaxChecks
    /\ {local_fin, fd_open, attached, edge, is_reading, is_writing,
        is_detached, is_write_end_shutdown, is_reset, is_aborted, in_map}
          \subseteq BOOLEAN
    /\ write_complete \in {"none", "shutdown"}
    /\ parser \in {"open", "closing", "gone"}
    /\ pc \in WorkerStates
    /\ return_to \in {"after_read", "write", "end"}
    /\ active \subseteq {"close", "error", "read", "write"}
    /\ functors \in Seq({"register", "check"})
    /\ close_functors \in Nat /\ closes \in Nat
    /\ process \in Outcomes

\* Nothing is stuck behind an edge-triggered event: whenever the worker is
\* back in epoll_wait() and the connection is not closed, the descriptor is
\* registered or about to be, unsent output has the write event enabled, and
\* if anything asked for is ready - unread data, EOF, room to write, a
\* hang-up - the descriptor is on the ready list (_receive_all_data reads to
\* EAGAIN, send() enables the event before it returns, EPOLL_CTL_MOD rearms).
NothingStuck ==
    process = "running" /\ pc = "poll" /\ in_map /\ ~ is_detached =>
        /\ attached \/ \E i \in DOMAIN functors : functors[i] = "register"
        /\ output > 0 => is_writing
        /\ attached /\ Ready(is_reading, is_writing, local_fin) # {} => edge

\* The write end is shut down only when every reply has been handed to the
\* socket: EOF from the peer or "Connection: close" cuts nothing off.
NothingCutOff == local_fin => output = 0

\* epoll never holds a pointer to a destroyed object, and a descriptor is
\* closed only after it left epoll (detach before _close_callback, the
\* lifetime guard of dispatch_active_events).
NoDanglingEvent ==
    /\ process # "dangling"
    /\ attached => fd_open /\ Alive(in_map, pc, functors)

\* A connection that the peer does not reset and that is not checked for
\* inactivity is closed, and erased by the main loop, once.
OrderlyCloseOnce == peer # "reset" /\ checks = 0 => closes <= 1

\* The connection does not leak: once the peer has closed its side or reset
\* the connection, and if it goes on reading what is sent, the connection is
\* erased from the map, however its replies, buffers and events interleave.
ConnectionsEnd ==
    []<>(backlog = 0) =>
        ((peer # "open" /\ in_map) ~> (~ in_map \/ process # "running"))

\* tcp_server.cc on the functor of _close_callback(): a connection is closed
\* by the worker loop or aborted by the main thread, an unknown one "never
\* reaches here".
CloseFindsConnection == process # "closed_twice"

\* shutdown_write() "could be called multiple times", from the write-complete
\* callback that HttpServer registers too: it returns.
ShutdownWriteReturns == process # "recursion"
=============================================================================
