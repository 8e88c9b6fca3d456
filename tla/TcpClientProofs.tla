--------------------------- MODULE TcpClientProofs ---------------------------
(***************************************************************************)
(* Proofs about TcpClient, for every set of retry limits.                  *)
(*                                                                         *)
(* A client goes through four phases: before start(), in _try_once(),      *)
(* waiting for an outcome, and with one of its connect callbacks called.   *)
(* AttemptInv says what each phase holds, OwnerInv which object owns the   *)
(* descriptor, and EventInv that the poller reports a handshake only to a  *)
(* PreconnectSocketfd that watches it, and only once.                      *)
(***************************************************************************)
EXTENDS TcpClient, TLAPS

Reported == edges \cup batch

\* Before start() and in _try_once() nothing is under way.
AttemptInv ==
    /\ pc = "start" => /\ ~ preconnect /\ socket = 0 /\ opened = {}
                       /\ timer_id = "none" /\ process = "running"
    /\ pc = "try" => opened = {socket} /\ ~ timer /\ process = "running"
    /\ pc \in {"start", "try"} =>
          ~ watching /\ connects = 0 /\ fails = 0
    /\ timer <=> timer_id = "pending"
    /\ timer_id # "none" => socket # 0
    /\ timer \/ watching => connects = 0 /\ fails = 0
    /\ connects = 0 /\ fails = 0 /\ process = "running"
           /\ pc \notin {"start", "try"} => timer # watching
    /\ connects = 0 \/ fails = 0
    /\ fails > 1 => timer_id = "none"

\* The descriptor is open for the one who owns it.
OwnerInv ==
    /\ process # "double_close"
    /\ preconnect <=> connects = 0 /\ pc # "start"
    /\ connects = 0 => connection = NoSocket /\ ~ conn_attached /\ pc # "recv"
    /\ connects = 1 =>
          /\ connection = socket
          /\ conn_attached => connection \in opened
          /\ connection \notin opened => is_write_end_shutdown
    /\ opened \subseteq {socket}
    /\ preconnect /\ timer_id # "none" => opened = {socket}
    /\ watching => opened = {socket}

\* A handshake is reported once, to the PreconnectSocketfd that watches it.
EventInv ==
    /\ pc \notin {"dispatch", "recv"} => batch = {}
    /\ watching => timer_id = "none"
    /\ handshake = "pending" => watching
    /\ "preconnect" \in Reported => watching /\ handshake # "pending"
    /\ ~ ("preconnect" \in edges /\ "preconnect" \in batch)
    /\ watching => handshake = "pending" \/ "preconnect" \in Reported

PhaseInv == AttemptInv /\ OwnerInv /\ EventInv

ClientInv == TypeOK /\ PhaseInv

-----------------------------------------------------------------------------
(* Types *)

\* The numbers of retries that a limit allows name sockets.
LEMMA SocketFacts ==
    /\ RetryLimits \subseteq Nat
    /\ Sockets \subseteq Nat
    /\ NoSocket \notin Sockets
    /\ \A n \in RetryLimits : \A k \in Nat : k <= n => k \in Sockets
<1>1. RetryLimits \subseteq Nat
  BY RetryLimitsAssumption DEF RetryLimitsAssumption
<1>2. \A s \in Sockets : s \in Nat
  BY <1>1 DEF Sockets
<1>3. NoSocket \notin Sockets
  BY <1>2 DEF NoSocket
<1>4. ASSUME NEW n \in RetryLimits, NEW k \in Nat, k <= n PROVE k \in Sockets
  BY <1>1, <1>4 DEF Sockets
<1> QED
  BY <1>1, <1>2, <1>3, <1>4

\* The states of the loop and the ends of the process, one by one.
LEMMA StateNames ==
    /\ "start" \in LoopStates /\ "try" \in LoopStates /\ "check" \in LoopStates
    /\ "poll" \in LoopStates /\ "dispatch" \in LoopStates
    /\ "recv" \in LoopStates /\ "exited" \in LoopStates
    /\ "running" \in Outcomes /\ "double_close" \in Outcomes
    /\ "bad_descriptor" \in Outcomes /\ "unknown_error" \in Outcomes
    /\ "stdin_closed" \in Outcomes /\ "dangling" \in Outcomes
BY Zenon DEF LoopStates, Outcomes

\* The constructors leave every member with its type.
LEMMA TypeInit == Init => TypeOK
<1> SUFFICES ASSUME Init PROVE TypeOK
  OBVIOUS
<1>1. 0 \in Sockets /\ 0 <= max_retries
  BY SocketFacts DEF Init
<1>2. /\ socket \in Sockets /\ max_retries \in RetryLimits
      /\ retries = socket /\ retries <= max_retries
      /\ connection \in Sockets \cup {NoSocket} /\ opened \subseteq Sockets
      /\ connects \in 0 .. 1 /\ fails \in 0 .. 2
  BY <1>1 DEF Init
<1>3. /\ preconnect \in BOOLEAN /\ watching \in BOOLEAN /\ timer \in BOOLEAN
      /\ is_started \in BOOLEAN /\ is_stopped \in BOOLEAN
      /\ conn_attached \in BOOLEAN /\ is_reading \in BOOLEAN
      /\ is_write_end_shutdown \in BOOLEAN
      /\ due \in BOOLEAN /\ need_stop \in BOOLEAN
  BY DEF Init
<1>4. /\ timer_id \in {"none", "pending", "expired"}
      /\ stdin \in {"none", "open", "gone"}
      /\ handshake \in {"none", "pending", "done", "failed"}
      /\ server \in {"open", "fin", "reset"}
      /\ signal \in {"none", "raised", "taken"}
  BY DEF Init
<1>5. /\ pc \in LoopStates
      /\ process \in Outcomes
      /\ batch \subseteq Dispatchers /\ edges \subseteq Dispatchers
  BY StateNames DEF Init
<1> QED
  BY <1>2, <1>3, <1>4, <1>5, Zenon DEF TypeOK

\* The outcomes of an attempt keep the types.
LEMMA AttemptTypes ==
    ASSUME TypeOK, connects = 0, fails = 0,
           \/ NewConnectionCallback \/ AwaitHandshake \/ ScheduleRetry
           \/ InvalidConnect \/ UnknownError
    PROVE  /\ preconnect' \in BOOLEAN /\ socket' \in Sockets
           /\ watching' \in BOOLEAN /\ retries' = socket'
           /\ retries' <= max_retries
           /\ timer_id' \in {"none", "pending", "expired"}
           /\ timer' \in BOOLEAN
           /\ connection' \in Sockets \cup {NoSocket}
           /\ conn_attached' \in BOOLEAN /\ is_reading' \in BOOLEAN
           /\ is_write_end_shutdown' \in BOOLEAN
           /\ stdin' \in {"none", "open", "gone"}
           /\ connects' \in 0 .. 1 /\ fails' \in 0 .. 2
           /\ edges' \subseteq Dispatchers
           /\ process' \in Outcomes
           /\ opened' \subseteq Sockets
           /\ handshake' \in {"none", "pending", "done", "failed"}
<1> USE DEF preconnectVars, connVars, userVars
<1>1. CASE NewConnectionCallback
  <2>1. /\ edges' \subseteq Dispatchers /\ connects' \in 0 .. 1
        /\ connection' \in Sockets \cup {NoSocket}
        /\ retries' = socket' /\ retries' <= max_retries
    BY <1>1 DEF NewConnectionCallback, Detach, TypeOK
  <2> QED
    BY <1>1, <2>1 DEF NewConnectionCallback, Detach, TypeOK
<1>2. CASE AwaitHandshake
  BY <1>2 DEF AwaitHandshake, TypeOK
<1>3. CASE GiveUp
  <2>1. /\ edges' \subseteq Dispatchers /\ opened' \subseteq Sockets
        /\ fails' \in 0 .. 2 /\ retries' = socket' /\ retries' <= max_retries
    BY <1>3 DEF GiveUp, Detach, Close, TypeOK
  <2>2. process' \in Outcomes
    BY <1>3, StateNames DEF GiveUp, Close, TypeOK
  <2> QED
    BY <1>3, <2>1, <2>2 DEF GiveUp, Detach, TypeOK
<1>4. CASE RetryLater
  <2>1. retries + 1 \in Sockets /\ retries + 1 <= max_retries
    BY <1>4, SocketFacts DEF RetryLater, TypeOK
  <2> QED
    BY <1>4, <2>1, StateNames DEF RetryLater, Detach, TypeOK
<1>5. CASE InvalidConnect \/ UnknownError
  BY <1>5, StateNames DEF InvalidConnect, UnknownError, TypeOK
<1> QED
  BY <1>1, <1>2, <1>3, <1>4, <1>5 DEF ScheduleRetry

\* The ways in which a connection ends keep the types.
LEMMA EndTypes ==
    ASSUME TypeOK,
           \/ AbortConnection /\ edges' = edges \ {"connection"}
           \/ ShutdownAtEof
           \/ ShutdownWrite /\ edges' \subseteq Dispatchers
    PROVE  /\ conn_attached' \in BOOLEAN /\ is_reading' \in BOOLEAN
           /\ is_write_end_shutdown' \in BOOLEAN
           /\ opened' \subseteq Sockets /\ process' \in Outcomes
           /\ edges' \subseteq Dispatchers
<1>1. AbortConnection => /\ conn_attached' \in BOOLEAN /\ is_reading' \in BOOLEAN
                         /\ is_write_end_shutdown' \in BOOLEAN
                         /\ opened' \subseteq Sockets /\ process' \in Outcomes
  BY StateNames DEF AbortConnection, Close, TypeOK
<1>2. edges' \subseteq Dispatchers
  BY DEF ShutdownAtEof, TypeOK, Dispatchers
<1> QED
  BY <1>1, <1>2 DEF ShutdownAtEof, ShutdownWrite, TypeOK

\* Every step keeps the types.
LEMMA TypeStep ==
    ASSUME TypeOK, AttemptInv, OwnerInv, EventInv, [Next]_vars
    PROVE  TypeOK'
<1> USE DEF preconnectVars, clientVars, connVars, userVars, loopVars,
            systemVars
<1>1. CASE Start
  <2>1. 0 \in Sockets
    BY SocketFacts DEF TypeOK
  <2> QED
    BY <1>1, <2>1, StateNames DEF Start, TypeOK
<1>2. CASE TryOnce
  <2>1. connects = 0 /\ fails = 0
    BY <1>2 DEF TryOnce, AttemptInv
  <2>2. \/ NewConnectionCallback \/ AwaitHandshake \/ ScheduleRetry
        \/ InvalidConnect \/ UnknownError
    BY <1>2 DEF TryOnce
  <2>3. /\ is_started' = TRUE /\ pc' = "check"
        /\ UNCHANGED <<max_retries, is_stopped, batch, due, need_stop, server,
                       signal>>
    BY <1>2 DEF TryOnce
  <2> QED
    BY <2>1, <2>2, <2>3, AttemptTypes, StateNames DEF TypeOK
<1>3. CASE CheckStop
  BY <1>3, StateNames DEF CheckStop, TypeOK
<1>4. CASE Poll
  BY <1>4, StateNames DEF Poll, TypeOK
<1>5. CASE DispatchPreconnect
  <2>1. connects = 0 /\ fails = 0
    BY <1>5 DEF DispatchPreconnect, Dispatch, EventInv, AttemptInv, Reported
  <2>2. NewConnectionCallback \/ ScheduleRetry
    BY <1>5 DEF DispatchPreconnect
  <2>3. /\ batch' \subseteq batch
        /\ UNCHANGED <<clientVars, pc, due, need_stop, server, signal>>
    BY <1>5 DEF DispatchPreconnect, Dispatch
  <2> QED
    BY <2>1, <2>2, <2>3, AttemptTypes, StateNames DEF TypeOK
<1>6. CASE DispatchConnection
  <2>1. batch' \subseteq Dispatchers
    BY <1>6 DEF DispatchConnection, Dispatch, TypeOK
  <2>2. UNCHANGED <<connection, preconnectVars, clientVars, userVars, due,
                    need_stop, handshake, server, signal>>
    BY <1>6 DEF DispatchConnection
  <2>3. pc' \in LoopStates
    BY <1>6, StateNames DEF DispatchConnection, TypeOK
  <2>4. \/ process' = "bad_descriptor" /\ UNCHANGED <<connVars, edges, opened>>
        \/ UNCHANGED <<conn_attached, is_reading, is_write_end_shutdown, edges,
                       opened, process>>
        \/ /\ conn_attached' = FALSE /\ is_reading' = FALSE
           /\ edges' = edges \ {"connection"}
           /\ UNCHANGED <<is_write_end_shutdown, opened, process>>
        \/ ShutdownAtEof
    BY <1>6 DEF DispatchConnection
  <2>5. /\ conn_attached' \in BOOLEAN /\ is_reading' \in BOOLEAN
        /\ is_write_end_shutdown' \in BOOLEAN
        /\ opened' \subseteq Sockets /\ process' \in Outcomes
        /\ edges' \subseteq Dispatchers
    BY <2>4, EndTypes, StateNames DEF TypeOK
  <2> QED
    BY <2>1, <2>2, <2>3, <2>5 DEF TypeOK
<1>7. CASE RecvReturns
  <2>1. UNCHANGED <<preconnectVars, clientVars, connection, userVars, batch,
                    due, need_stop, handshake, server, signal>>
    BY <1>7 DEF RecvReturns
  <2>2. \/ /\ is_reading' = FALSE /\ edges' = edges \cup {"connection"}
           /\ UNCHANGED <<conn_attached, is_write_end_shutdown, opened, process>>
        \/ ShutdownAtEof
    BY <1>7 DEF RecvReturns
  <2>3. /\ conn_attached' \in BOOLEAN /\ is_reading' \in BOOLEAN
        /\ is_write_end_shutdown' \in BOOLEAN
        /\ opened' \subseteq Sockets /\ process' \in Outcomes
        /\ edges' \subseteq Dispatchers
    BY <2>2, EndTypes DEF TypeOK, Dispatchers
  <2> QED
    BY <1>7, <2>1, <2>3, StateNames DEF RecvReturns, TypeOK
<1>8. ASSUME NEW end \in BOOLEAN, DispatchStdin(end) PROVE TypeOK'
  <2>1. batch' \subseteq Dispatchers
    BY <1>8 DEF DispatchStdin, Dispatch, TypeOK
  <2>2. UNCHANGED <<connection, preconnectVars, clientVars, userVars, pc, due,
                    need_stop, handshake, server, signal>>
    BY <1>8 DEF DispatchStdin
  <2>3. \/ AbortConnection /\ edges' = edges \ {"connection"}
        \/ /\ process' \in {"dangling", "stdin_closed", process}
           /\ UNCHANGED <<conn_attached, is_reading, is_write_end_shutdown,
                          edges, opened>>
    BY <1>8 DEF DispatchStdin
  <2>4. /\ conn_attached' \in BOOLEAN /\ is_reading' \in BOOLEAN
        /\ is_write_end_shutdown' \in BOOLEAN
        /\ opened' \subseteq Sockets /\ process' \in Outcomes
        /\ edges' \subseteq Dispatchers
    BY <2>3, EndTypes, StateNames DEF TypeOK
  <2> QED
    BY <2>1, <2>2, <2>4 DEF TypeOK
<1>9. CASE DispatchSignal
  <2>1. UNCHANGED <<preconnect, socket, retries, max_retries, is_started,
                    connection, connects, pc, due, handshake, server>>
    BY <1>9 DEF DispatchSignal
  <2>2. /\ batch' \subseteq Dispatchers /\ edges' \subseteq Dispatchers
    BY <1>9 DEF DispatchSignal, Dispatch, TypeOK, Dispatchers
  <2>3. /\ signal' = "taken" /\ is_stopped' = TRUE /\ need_stop' = TRUE
        /\ stdin' \in {"gone", stdin}
    BY <1>9 DEF DispatchSignal
  <2>4. CASE preconnect
    <3>1. Cancel /\ UNCHANGED <<conn_attached, is_reading, is_write_end_shutdown>>
      BY <1>9, <2>4 DEF DispatchSignal
    <3>2. opened' \subseteq Sockets /\ process' \in Outcomes
      BY <3>1, StateNames DEF Cancel, Close, TypeOK
    <3>3. /\ timer' \in BOOLEAN /\ watching' \in BOOLEAN
          /\ timer_id' \in {"none", "pending", "expired"}
      BY <3>1 DEF Cancel, TypeOK
    <3>4. fails' \in 0 .. 2
      BY <3>1 DEF Cancel, TypeOK, AttemptInv
    <3> QED
      BY <2>1, <2>2, <2>3, <3>1, <3>2, <3>3, <3>4 DEF TypeOK
  <2>5. CASE ~ preconnect
    <3>1. /\ UNCHANGED <<timer, timer_id, watching, fails>>
          /\ \/ UNCHANGED <<conn_attached, is_reading, is_write_end_shutdown,
                            opened, process>>
             \/ ShutdownWrite
      BY <1>9, <2>5 DEF DispatchSignal
    <3>2. /\ conn_attached' \in BOOLEAN /\ is_reading' \in BOOLEAN
          /\ is_write_end_shutdown' \in BOOLEAN
          /\ opened' \subseteq Sockets /\ process' \in Outcomes
      BY <2>2, <3>1, EndTypes DEF TypeOK
    <3> QED
      BY <2>1, <2>2, <2>3, <3>1, <3>2 DEF TypeOK
  <2> QED
    BY <2>4, <2>5
<1>10. CASE ExpireTimers
  <2>1. /\ due' \in BOOLEAN /\ timer' \in BOOLEAN
        /\ timer_id' \in {"none", "pending", "expired"}
        /\ pc' \in LoopStates
    BY <1>10, StateNames DEF ExpireTimers, TypeOK
  <2> QED
    BY <1>10, <2>1 DEF ExpireTimers, TypeOK
<1>11. CASE Handshake
  BY <1>11 DEF Handshake, HandshakeEnds, TypeOK, Dispatchers
<1>12. CASE ServerSends \/ UserTypes \/ UserInterrupts
  <2>1. edges' \subseteq Dispatchers
    BY <1>12 DEF ServerSends, UserTypes, UserInterrupts, TypeOK, Dispatchers
  <2> QED
    BY <1>12, <2>1 DEF ServerSends, UserTypes, UserInterrupts, TypeOK
<1>13. ASSUME NEW how \in {"fin", "reset"}, ServerCloses(how) PROVE TypeOK'
  BY <1>13 DEF ServerCloses, TypeOK, Dispatchers
<1>14. CASE UNCHANGED vars
  BY <1>14 DEF vars, TypeOK
<1> QED
  BY <1>1, <1>2, <1>3, <1>4, <1>5, <1>6, <1>7, <1>8, <1>9, <1>10, <1>11, <1>12,
     <1>13, <1>14 DEF Next, LoopStep

-----------------------------------------------------------------------------
(* Attempts, owners and events *)

\* The outcome of an attempt, as _try_once() finds it, or as the poller reports
\* it when the handshake was watched.
LEMMA OutcomeStep ==
    ASSUME TypeOK, PhaseInv,
           preconnect, opened = {socket}, ~ timer, process = "running",
           connects = 0, fails = 0,
           \/ NewConnectionCallback \/ ScheduleRetry
           \/ ~ watching /\ (AwaitHandshake \/ InvalidConnect \/ UnknownError),
           "preconnect" \notin batch',
           pc' = "dispatch" \/ (pc' = "check" /\ batch' = {})
    PROVE  PhaseInv'
<1> USE DEF preconnectVars, connVars, userVars
<1>0. /\ socket \in Nat /\ retries = socket /\ timer_id # "pending"
      /\ NoSocket # socket /\ pc # "start"
  BY SocketFacts DEF TypeOK, PhaseInv, AttemptInv, OwnerInv
<1>1. CASE NewConnectionCallback
  <2>1. /\ ~ preconnect' /\ ~ watching' /\ "preconnect" \notin edges'
        /\ connection' = socket /\ connects' = 1 /\ handshake' = "none"
        /\ UNCHANGED <<socket, timer_id, timer, fails, opened, process>>
    BY <1>1 DEF NewConnectionCallback, Detach
  <2>2. AttemptInv'
    BY <1>0, <2>1 DEF PhaseInv, AttemptInv
  <2>3. OwnerInv'
    BY <2>1 DEF PhaseInv, OwnerInv
  <2>4. EventInv'
    BY <2>1 DEF EventInv, Reported
  <2> QED
    BY <2>2, <2>3, <2>4 DEF PhaseInv
<1>2. CASE GiveUp
  <2>1. /\ timer_id' = "none" /\ ~ watching' /\ "preconnect" \notin edges'
        /\ opened' = {} /\ process' = "running" /\ fails' = 1
        /\ handshake' = "none"
        /\ UNCHANGED <<preconnect, socket, timer, connection, conn_attached,
                       connects>>
    BY <1>2 DEF GiveUp, Detach, Close
  <2>2. AttemptInv'
    BY <2>1 DEF PhaseInv, AttemptInv
  <2>3. OwnerInv'
    BY <2>1 DEF PhaseInv, OwnerInv
  <2>4. EventInv'
    BY <2>1 DEF EventInv, Reported
  <2> QED
    BY <2>2, <2>3, <2>4 DEF PhaseInv
<1>3. CASE RetryLater
  <2>1. /\ timer_id' = "pending" /\ timer' = TRUE /\ watching' = FALSE
        /\ "preconnect" \notin edges'
        /\ socket' = socket + 1 /\ opened' = {socket'} /\ process' = "running"
        /\ handshake' = "none"
        /\ UNCHANGED <<preconnect, connection, conn_attached, connects, fails>>
    BY <1>0, <1>3 DEF RetryLater, Detach
  <2>2. socket' # 0
    BY <1>0, <2>1
  <2>3. timer' # watching'
    BY <2>1, Zenon
  <2>4. timer' <=> timer_id' = "pending"
    BY <2>1, Zenon
  <2>5. AttemptInv'
    <3>1. /\ connects' = 0 /\ fails' = 0 /\ ~ (fails' > 1)
          /\ pc' \notin {"start", "try"}
      BY <2>1
    <3> QED
      BY <2>2, <2>3, <2>4, <3>1, Zenon DEF AttemptInv
  <2>6. OwnerInv'
    BY <2>1 DEF PhaseInv, OwnerInv
  <2>7. EventInv'
    BY <2>1 DEF EventInv, Reported
  <2> QED
    BY <2>5, <2>6, <2>7 DEF PhaseInv
<1>4. CASE AwaitHandshake /\ ~ watching
  <2>1. /\ watching' /\ handshake' = "pending" /\ socket = 0
        /\ UNCHANGED <<preconnect, socket, timer_id, timer, connection,
                       conn_attached, connects, fails, opened, edges, process>>
    BY <1>4 DEF AwaitHandshake
  <2>2. timer_id = "none" /\ "preconnect" \notin edges
    BY <1>4, <2>1 DEF PhaseInv, AttemptInv, EventInv, Reported
  <2>3. AttemptInv'
    BY <2>1, <2>2 DEF PhaseInv, AttemptInv
  <2>4. OwnerInv'
    BY <2>1 DEF PhaseInv, OwnerInv
  <2>5. EventInv'
    BY <2>1, <2>2 DEF EventInv, Reported
  <2> QED
    BY <2>3, <2>4, <2>5 DEF PhaseInv
<1>5. CASE InvalidConnect /\ ~ watching
  <2>1. /\ fails' = 1
        /\ UNCHANGED <<preconnect, socket, watching, timer_id, timer,
                       connection, conn_attached, connects, opened, handshake,
                       edges, process>>
    BY <1>5 DEF InvalidConnect
  <2>2. "preconnect" \notin edges /\ handshake # "pending"
    BY <1>5 DEF PhaseInv, EventInv, Reported
  <2>3. AttemptInv'
    BY <1>5, <2>1 DEF PhaseInv, AttemptInv
  <2>4. OwnerInv'
    BY <2>1 DEF PhaseInv, OwnerInv
  <2>5. EventInv'
    BY <1>5, <2>1, <2>2 DEF EventInv, Reported
  <2> QED
    BY <2>3, <2>4, <2>5 DEF PhaseInv
<1>6. CASE UnknownError /\ ~ watching
  <2>1. /\ process' = "unknown_error"
        /\ UNCHANGED <<preconnect, socket, watching, timer_id, timer,
                       connection, conn_attached, connects, fails, opened,
                       handshake, edges>>
    BY <1>6 DEF UnknownError
  <2>2. "preconnect" \notin edges /\ handshake # "pending"
    BY <1>6 DEF PhaseInv, EventInv, Reported
  <2>3. AttemptInv'
    BY <1>6, <2>1 DEF PhaseInv, AttemptInv
  <2>4. OwnerInv'
    BY <2>1 DEF PhaseInv, OwnerInv
  <2>5. EventInv'
    BY <1>6, <2>1, <2>2 DEF EventInv, Reported
  <2> QED
    BY <2>3, <2>4, <2>5 DEF PhaseInv
<1> QED
  BY <1>1, <1>2, <1>3, <1>4, <1>5, <1>6 DEF ScheduleRetry

\* A step that touches neither the attempt nor the descriptor of the client,
\* and reports nothing about the handshake.
LEMMA OtherStep ==
    ASSUME PhaseInv,
           UNCHANGED <<preconnect, socket, watching, timer_id, timer,
                       connection, conn_attached, connects, fails, opened,
                       is_write_end_shutdown, handshake>>,
           "preconnect" \in edges' <=> "preconnect" \in edges,
           "preconnect" \in batch' <=> "preconnect" \in batch,
           \/ batch' = {} \/ pc' \in {"dispatch", "recv"}
           \/ pc' = pc /\ batch' = batch,
           process' = process \/ process' \in {"bad_descriptor", "dangling",
                                               "stdin_closed"},
           \/ pc' = pc
           \/ /\ pc \notin {"start", "try"} /\ pc' \notin {"start", "try"}
              /\ pc' = "recv" => connects # 0,
           process' # process => pc \notin {"start", "try"},
           process' = "running" => process = "running"
    PROVE  PhaseInv'
<1>1. AttemptInv'
  BY DEF PhaseInv, AttemptInv
<1>2. OwnerInv'
  BY DEF PhaseInv, OwnerInv
<1>3. EventInv'
  BY DEF PhaseInv, EventInv, Reported
<1> QED
  BY <1>1, <1>2, <1>3 DEF PhaseInv

\* A connection is closed once: the one who closes it has found it open.
LEMMA ClosingStep ==
    ASSUME TypeOK, PhaseInv, connects = 1, process = "running",
           connection \in opened,
           \/ AbortConnection
           \/ /\ is_write_end_shutdown' = TRUE
              /\ UNCHANGED <<conn_attached, opened, process>>
           \/ /\ conn_attached' = FALSE
              /\ UNCHANGED <<is_write_end_shutdown, opened, process>>,
           UNCHANGED <<preconnect, socket, watching, timer_id, timer,
                       connection, connects, fails, handshake>>,
           "preconnect" \in edges' <=> "preconnect" \in edges,
           "preconnect" \in batch' <=> "preconnect" \in batch,
           pc' \in {"dispatch", "recv"}, pc' = pc \/ pc' = "dispatch"
    PROVE  PhaseInv'
<1>1. process' = "running" /\ opened' \subseteq opened
  BY DEF AbortConnection, Close
<1>2. /\ conn_attached' => connection \in opened'
      /\ connection \notin opened' => is_write_end_shutdown'
  BY DEF AbortConnection, PhaseInv, OwnerInv
<1>3. AttemptInv'
  BY <1>1 DEF PhaseInv, AttemptInv
<1>4. OwnerInv'
  BY <1>1, <1>2 DEF PhaseInv, OwnerInv, AttemptInv
<1>5. EventInv'
  BY DEF PhaseInv, EventInv, Reported
<1> QED
  BY <1>3, <1>4, <1>5 DEF PhaseInv

\* Every step keeps phases, owners and events.
LEMMA PhaseStep ==
    ASSUME TypeOK, PhaseInv, [Next]_vars
    PROVE  PhaseInv'
<1> USE DEF preconnectVars, clientVars, connVars, userVars, loopVars,
            systemVars
<1>0. /\ connects \in {0, 1}
      /\ connects # 0 => ~ preconnect
  BY DEF TypeOK, PhaseInv, OwnerInv
<1>1. CASE Start
  <2>1. /\ pc = "start" /\ pc' = "try" /\ preconnect' = TRUE /\ opened' = {0}
        /\ UNCHANGED <<socket, watching, timer_id, timer, connection,
                       conn_attached, connects, fails, process, handshake,
                       edges, batch>>
    BY <1>1 DEF Start
  <2>2. AttemptInv'
    BY <2>1 DEF PhaseInv, AttemptInv
  <2>3. OwnerInv'
    BY <2>1 DEF PhaseInv, OwnerInv, AttemptInv
  <2>4. EventInv'
    BY <2>1 DEF PhaseInv, EventInv, Reported
  <2> QED
    BY <2>2, <2>3, <2>4 DEF PhaseInv
<1>2. CASE TryOnce
  <2>1. /\ pc = "try" /\ pc' = "check" /\ batch' = batch
        /\ \/ NewConnectionCallback \/ AwaitHandshake \/ ScheduleRetry
           \/ InvalidConnect \/ UnknownError
    BY <1>2 DEF TryOnce
  <2>2. /\ opened = {socket} /\ ~ timer /\ process = "running" /\ ~ watching
        /\ connects = 0 /\ fails = 0
    BY <2>1 DEF PhaseInv, AttemptInv
  <2>3. preconnect /\ batch = {}
    BY <2>1, <2>2 DEF PhaseInv, OwnerInv, EventInv
  <2> QED
    BY <2>1, <2>2, <2>3, OutcomeStep
<1>3. CASE CheckStop
  <2>1. /\ pc = "check" /\ pc' \in {"exited", "poll"}
        /\ UNCHANGED <<preconnect, socket, watching, timer_id, timer,
                       connection, conn_attached, connects, fails, opened,
                       is_write_end_shutdown, handshake, edges, batch, process>>
    BY <1>3 DEF CheckStop
  <2>2. batch = {}
    BY <2>1 DEF PhaseInv, EventInv
  <2> QED
    BY <2>1, <2>2, OtherStep
<1>4. CASE Poll
  <2>1. /\ pc = "poll" /\ pc' = "dispatch" /\ batch' = edges /\ edges' = {}
        /\ UNCHANGED <<preconnect, socket, watching, timer_id, timer,
                       connection, conn_attached, connects, fails, opened,
                       is_write_end_shutdown, handshake, process>>
    BY <1>4 DEF Poll
  <2>2. batch = {}
    BY <2>1 DEF PhaseInv, EventInv
  <2>3. AttemptInv'
    BY <2>1 DEF PhaseInv, AttemptInv
  <2>4. OwnerInv'
    BY <2>1 DEF PhaseInv, OwnerInv
  <2>5. EventInv'
    BY <2>1, <2>2 DEF PhaseInv, EventInv, Reported
  <2> QED
    BY <2>3, <2>4, <2>5 DEF PhaseInv
<1>5. CASE DispatchPreconnect
  <2>1. /\ process = "running" /\ pc = "dispatch" /\ pc' = pc
        /\ "preconnect" \in batch /\ batch' = batch \ {"preconnect"}
        /\ preconnect
        /\ NewConnectionCallback \/ ScheduleRetry
    BY <1>5 DEF DispatchPreconnect, Dispatch, Running
  <2>2. watching
    BY <2>1 DEF PhaseInv, EventInv, Reported
  <2>3. /\ opened = {socket} /\ connects = 0 /\ fails = 0 /\ ~ timer
    BY <2>2 DEF PhaseInv, OwnerInv, AttemptInv, EventInv
  <2> QED
    BY <2>1, <2>3, OutcomeStep
<1>6. CASE DispatchConnection
  <2>1. /\ process = "running" /\ pc = "dispatch"
        /\ batch' = batch \ {"connection"}
        /\ UNCHANGED <<connection, preconnect, socket, watching, timer_id,
                       timer, connects, fails, handshake>>
    BY <1>6 DEF DispatchConnection, Dispatch, Running
  <2>2. CASE connection \notin opened
    <3>1. /\ process' = "bad_descriptor"
          /\ UNCHANGED <<pc, connVars, edges, opened>>
      BY <1>6, <2>2 DEF DispatchConnection
    <3> QED
      BY <2>1, <3>1, OtherStep
  <2>3. CASE connection \in opened
    <3>1. connects = 1
      BY <1>0, <2>3, SocketFacts DEF PhaseInv, OwnerInv, TypeOK
    <3>2. pc' = pc \/ pc' = "recv"
      BY <1>6, <2>3 DEF DispatchConnection
    <3>3. CASE server = "open"
      <4>1. UNCHANGED <<conn_attached, is_write_end_shutdown, edges, opened,
                        process>>
        BY <1>6, <2>3, <3>3 DEF DispatchConnection
      <4> QED
        BY <2>1, <3>1, <3>2, <4>1, OtherStep
    <3>4. CASE server # "open"
      <4>1. pc' = pc
        BY <1>6, <2>3, <3>4 DEF DispatchConnection
      <4>2. CASE is_write_end_shutdown
        <5>1. /\ conn_attached' = FALSE /\ edges' = edges \ {"connection"}
              /\ UNCHANGED <<is_write_end_shutdown, opened, process>>
          BY <1>6, <2>3, <3>4, <4>2 DEF DispatchConnection
        <5> QED
          BY <2>1, <2>3, <3>1, <4>1, <5>1, ClosingStep
      <4>3. CASE ~ is_write_end_shutdown
        <5>1. ShutdownAtEof
          BY <1>6, <2>3, <3>4, <4>3 DEF DispatchConnection
        <5> QED
          BY <2>1, <2>3, <3>1, <4>1, <5>1, ClosingStep DEF ShutdownAtEof
      <4> QED
        BY <4>2, <4>3
    <3> QED
      BY <3>3, <3>4
  <2> QED
    BY <2>2, <2>3
<1>7. CASE RecvReturns
  <2>1. /\ process = "running" /\ pc = "recv" /\ pc' = "dispatch"
        /\ UNCHANGED <<connection, preconnect, socket, watching, timer_id,
                       timer, connects, fails, handshake, batch>>
    BY <1>7 DEF RecvReturns, Running
  <2>2. connects = 1
    BY <1>0, <2>1 DEF PhaseInv, OwnerInv
  <2>3. CASE is_write_end_shutdown
    <3>1. /\ edges' = edges \cup {"connection"}
          /\ UNCHANGED <<conn_attached, is_write_end_shutdown, opened, process>>
      BY <1>7, <2>3 DEF RecvReturns
    <3> QED
      BY <2>1, <3>1, OtherStep
  <2>4. CASE ~ is_write_end_shutdown
    <3>1. ShutdownAtEof
      BY <1>7, <2>4 DEF RecvReturns
    <3>2. connection \in opened
      BY <2>2, <2>4 DEF PhaseInv, OwnerInv
    <3>3. /\ \/ AbortConnection
             \/ /\ is_write_end_shutdown' = TRUE
                /\ UNCHANGED <<conn_attached, opened, process>>
          /\ "preconnect" \in edges' <=> "preconnect" \in edges
      BY <3>1 DEF ShutdownAtEof
    <3> QED
      BY <2>1, <2>2, <3>2, <3>3, ClosingStep
  <2> QED
    BY <2>3, <2>4
<1>8. ASSUME NEW end \in BOOLEAN, DispatchStdin(end) PROVE PhaseInv'
  <2>1. /\ process = "running" /\ pc = "dispatch" /\ pc' = pc
        /\ batch' = batch \ {"stdin"}
        /\ UNCHANGED <<connection, preconnect, socket, watching, timer_id,
                       timer, connects, fails, handshake>>
    BY <1>8 DEF DispatchStdin, Dispatch, Running
  <2>2. \/ /\ AbortConnection /\ edges' = edges \ {"connection"}
           /\ conn_attached
        \/ /\ process' \in {"dangling", "stdin_closed", process}
           /\ UNCHANGED <<conn_attached, is_write_end_shutdown, edges, opened>>
    BY <1>8 DEF DispatchStdin
  <2>3. conn_attached => connects = 1 /\ connection \in opened
    BY <1>0 DEF PhaseInv, OwnerInv
  <2>4. CASE AbortConnection /\ edges' = edges \ {"connection"} /\ conn_attached
    BY <2>1, <2>3, <2>4, ClosingStep
  <2>5. CASE /\ process' \in {"dangling", "stdin_closed", process}
             /\ UNCHANGED <<conn_attached, is_write_end_shutdown, edges, opened>>
    BY <2>1, <2>5, OtherStep
  <2> QED
    BY <2>2, <2>4, <2>5
<1>9. CASE DispatchSignal
  <2>1. /\ process = "running" /\ pc = "dispatch" /\ pc' = pc
        /\ batch' = batch \ {"signal"}
        /\ UNCHANGED <<preconnect, socket, connection, connects, handshake>>
    BY <1>9 DEF DispatchSignal, Dispatch, Running
  <2>2. "preconnect" \in edges' <=> "preconnect" \in edges
    BY <1>9 DEF DispatchSignal
  <2>3. CASE preconnect /\ timer_id # "none"
    <3>1. /\ timer' = FALSE /\ timer_id' = "none" /\ watching' = FALSE
          /\ opened' = opened \ {socket} /\ fails' = fails + 1
          /\ process' = IF socket \in opened THEN process ELSE "double_close"
          /\ UNCHANGED <<conn_attached, is_write_end_shutdown>>
      BY <1>9, <2>3 DEF DispatchSignal, Cancel, Close
    <3>2. opened = {socket} /\ connects = 0 /\ ~ watching
      BY <2>3 DEF PhaseInv, OwnerInv, EventInv
    <3>3. opened' = {} /\ process' = "running"
      BY <2>1, <3>1, <3>2
    <3>4. fails' # 0 /\ fails \in Nat
      BY <3>1 DEF TypeOK
    <3>5. AttemptInv'
      BY <2>1, <3>1, <3>2, <3>3, <3>4 DEF PhaseInv, AttemptInv
    <3>6. OwnerInv'
      BY <2>1, <3>1, <3>2, <3>3 DEF PhaseInv, OwnerInv
    <3>7. EventInv'
      BY <2>1, <2>2, <3>1, <3>2 DEF PhaseInv, EventInv, Reported
    <3> QED
      BY <3>5, <3>6, <3>7 DEF PhaseInv
  <2>4. CASE preconnect /\ timer_id = "none"
    <3>1. UNCHANGED <<timer, timer_id, watching, opened, process, fails,
                      conn_attached, is_write_end_shutdown>>
      BY <1>9, <2>4 DEF DispatchSignal, Cancel
    <3> QED
      BY <2>1, <2>2, <3>1, OtherStep
  <2>5. CASE ~ preconnect
    <3>1. UNCHANGED <<timer, timer_id, watching, fails>>
      BY <1>9, <2>5 DEF DispatchSignal
    <3>2. connects = 1
      BY <1>0, <2>1, <2>5 DEF PhaseInv, OwnerInv
    <3>3. CASE is_write_end_shutdown
      <4>1. UNCHANGED <<conn_attached, is_write_end_shutdown, opened, process>>
        BY <1>9, <2>5, <3>3 DEF DispatchSignal
      <4> QED
        BY <2>1, <2>2, <3>1, <4>1, OtherStep
    <3>4. CASE ~ is_write_end_shutdown
      <4>1. ShutdownWrite
        BY <1>9, <2>5, <3>4 DEF DispatchSignal
      <4>2. connection \in opened
        BY <3>2, <3>4 DEF PhaseInv, OwnerInv
      <4> QED
        BY <2>1, <2>2, <3>1, <3>2, <4>1, <4>2, ClosingStep DEF ShutdownWrite
    <3> QED
      BY <3>3, <3>4
  <2> QED
    BY <2>3, <2>4, <2>5
<1>10. CASE ExpireTimers
  <2>1. /\ process = "running" /\ pc = "dispatch" /\ batch = {} /\ batch' = {}
        /\ UNCHANGED <<preconnect, socket, watching, connection, conn_attached,
                       connects, fails, opened, is_write_end_shutdown,
                       handshake, edges, process>>
    BY <1>10 DEF ExpireTimers, Running
  <2>2. CASE due /\ timer
    <3>1. timer' = FALSE /\ timer_id' = "expired" /\ pc' = "try"
      BY <1>10, <2>2 DEF ExpireTimers
    <3>2. /\ timer_id = "pending" /\ connects = 0 /\ fails = 0 /\ ~ watching
          /\ socket # 0
      BY <2>2 DEF PhaseInv, AttemptInv, EventInv
    <3>3. preconnect /\ opened = {socket}
      BY <2>1, <3>2 DEF PhaseInv, OwnerInv
    <3>4. AttemptInv'
      BY <2>1, <3>1, <3>2, <3>3 DEF PhaseInv, AttemptInv
    <3>5. OwnerInv'
      BY <2>1, <3>1, <3>2, <3>3 DEF PhaseInv, OwnerInv
    <3>6. EventInv'
      BY <2>1, <3>1, <3>2 DEF PhaseInv, EventInv, Reported
    <3> QED
      BY <3>4, <3>5, <3>6 DEF PhaseInv
  <2>3. CASE ~ (due /\ timer)
    <3>1. pc' = "check" /\ timer_id' = timer_id /\ timer' = timer
      BY <1>10, <2>3 DEF ExpireTimers, TypeOK
    <3> QED
      BY <2>1, <3>1, OtherStep
  <2> QED
    BY <2>2, <2>3
<1>11. ASSUME NEW result \in {"done", "failed"}, HandshakeEnds(result)
       PROVE  PhaseInv'
  <2>1. /\ handshake = "pending" /\ handshake' # "pending"
        /\ UNCHANGED <<preconnect, socket, watching, timer_id, timer,
                       connection, conn_attached, connects, fails, opened,
                       is_write_end_shutdown, batch, pc, process>>
    BY <1>11 DEF HandshakeEnds
  <2>2. watching /\ "preconnect" \notin Reported
    BY <2>1 DEF PhaseInv, EventInv
  <2>3. edges' = edges \cup {"preconnect"}
    BY <1>11, <2>2 DEF HandshakeEnds
  <2>4. AttemptInv'
    BY <2>1 DEF PhaseInv, AttemptInv
  <2>5. OwnerInv'
    BY <2>1 DEF PhaseInv, OwnerInv
  <2>6. EventInv'
    BY <2>1, <2>2, <2>3 DEF PhaseInv, EventInv, Reported
  <2> QED
    BY <2>4, <2>5, <2>6 DEF PhaseInv
<1>12. CASE \/ ServerSends \/ UserTypes \/ UserInterrupts
            \/ \E how \in {"fin", "reset"} : ServerCloses(how)
  <2>1. /\ UNCHANGED <<preconnect, socket, watching, timer_id, timer,
                       connection, conn_attached, connects, fails, opened,
                       is_write_end_shutdown, handshake, batch, pc, process>>
        /\ "preconnect" \in edges' <=> "preconnect" \in edges
    BY <1>12 DEF ServerSends, UserTypes, UserInterrupts, ServerCloses
  <2> QED
    BY <2>1, OtherStep
<1>13. CASE UNCHANGED vars
  BY <1>13, OtherStep DEF vars
<1> QED
  BY <1>1, <1>2, <1>3, <1>4, <1>5, <1>6, <1>7, <1>8, <1>9, <1>10, <1>11, <1>12,
     <1>13 DEF Next, LoopStep, Handshake

-----------------------------------------------------------------------------
(* The theorems *)

\* Types, phases, owners and events together are invariant.
LEMMA ClientInvariant == Spec => []ClientInv
<1>1. Init => ClientInv
  <2> SUFFICES ASSUME Init PROVE ClientInv
    OBVIOUS
  <2>1. AttemptInv
    BY DEF Init, AttemptInv
  <2>2. OwnerInv
    BY DEF Init, OwnerInv
  <2>3. EventInv
    BY DEF Init, EventInv, Reported
  <2> QED
    BY <2>1, <2>2, <2>3, TypeInit DEF ClientInv, PhaseInv
<1>2. ClientInv /\ [Next]_vars => ClientInv'
  BY TypeStep, PhaseStep DEF ClientInv, PhaseInv
<1> QED
  BY <1>1, <1>2, PTL DEF Spec

\* Every member of the client, its connector and its connection keeps its
\* type, and no more sockets are made than the limit on retries allows.
THEOREM TypeCorrect == Spec => []TypeOK
<1>1. ClientInv => TypeOK
  BY DEF ClientInv
<1> QED
  BY <1>1, ClientInvariant, PTL

\* Whatever the order of retries, hand-over, abort and stop(), a socket that is
\* open belongs to the connection or to the PreconnectSocketfd, and none is
\* closed twice.
THEOREM NoSocketIsLost == Spec => []SocketsAccountedFor
<1>1. ClientInv => SocketsAccountedFor
  <2> SUFFICES ASSUME ClientInv PROVE SocketsAccountedFor
    OBVIOUS
  <2>1. process # "double_close" /\ opened \subseteq {socket}
    BY DEF ClientInv, PhaseInv, OwnerInv
  <2>2. CASE opened = {}
    BY <2>1, <2>2 DEF SocketsAccountedFor
  <2>3. CASE opened # {}
    <3>1. pc # "start" /\ connects \in {0, 1}
      BY <2>3 DEF ClientInv, PhaseInv, AttemptInv, TypeOK
    <3>2. preconnect \/ connection = socket
      BY <3>1 DEF ClientInv, PhaseInv, OwnerInv
    <3> QED
      BY <2>1, <3>2 DEF SocketsAccountedFor
  <2> QED
    BY <2>2, <2>3
<1> QED
  BY <1>1, ClientInvariant, PTL

\* Until the outcome of start() is known exactly one of the retry timer and the
\* watched handshake carries the attempt on, afterwards neither does, and a
\* client that has connected has not failed.
THEOREM AttemptsAreCarriedOn == Spec => []OneContinuation
<1>1. ClientInv => OneContinuation
  <2> SUFFICES ASSUME ClientInv, pc \notin {"start", "try"},
                      process = "running"
               PROVE  /\ connects = 0 \/ fails = 0
                      /\ connects + fails > 0 => ~ timer /\ ~ watching
                      /\ connects + fails = 0 =>
                            /\ timer # watching
                            /\ watching => \/ handshake = "pending"
                                           \/ "preconnect" \in Reported
    BY DEF OneContinuation, Reported
  <2>1. connects \in Nat /\ fails \in Nat
    BY DEF ClientInv, TypeOK
  <2>2. /\ connects + fails > 0 => connects # 0 \/ fails # 0
        /\ connects + fails = 0 => connects = 0 /\ fails = 0
    BY <2>1
  <2>3. connects = 0 \/ fails = 0
    BY DEF ClientInv, PhaseInv, AttemptInv
  <2>4. connects + fails > 0 => ~ timer /\ ~ watching
    BY <2>2 DEF ClientInv, PhaseInv, AttemptInv
  <2>5. connects + fails = 0 => timer # watching
    BY <2>2 DEF ClientInv, PhaseInv, AttemptInv
  <2>6. watching => handshake = "pending" \/ "preconnect" \in Reported
    BY DEF ClientInv, PhaseInv, EventInv
  <2> QED
    BY <2>3, <2>4, <2>5, <2>6, Zenon
<1> QED
  BY <1>1, ClientInvariant, PTL

=============================================================================
