---------------------- MODULE TcpConnectSocketfdProofs ----------------------
(***************************************************************************)
(* Proofs about TcpConnectSocketfd, for any number of requests and checks, *)
(* any size of a reply and of the send buffer, and a peer that may or may  *)
(* not reset the connection.                                               *)
(*                                                                         *)
(* A connection that is not detached has not been closed and is in the map *)
(* (LifeInv); output waits for the write event or for nothing (OutputInv); *)
(* what is ready and not on the ready list is still to be handled by the   *)
(* dispatch under way (EdgeInv).  CountInv bounds the output by the        *)
(* requests taken, and OnceInv says who has closed a connection that was   *)
(* neither reset nor checked.                                              *)
(***************************************************************************)
EXTENDS TcpConnectSocketfd, TLAPS

\* start() has queued the registration and the worker has not run it.
Registering == functors # <<>> /\ functors[1] = "register"

\* Registration, detachment, the map and the functors of the worker.
LifeInv ==
    /\ process # "dangling"
    /\ close_functors <= closes
    /\ ~ is_detached => /\ closes = 0 /\ fd_open /\ in_map
                        /\ attached \/ Registering
    /\ attached \/ is_reading \/ is_writing => ~ is_detached
    /\ Registering => ~ attached /\ ~ is_detached /\ pc = "poll"
    /\ ~ in_map /\ closes = 0 => functors = <<>> /\ pc = "poll"
    /\ pc = "close" => attached

\* The registration is the first functor; the others are checks.
QueueInv ==
    \A i \in DOMAIN functors :
        /\ functors[i] = "register" => i = 1
        /\ functors[i] = "check" => checks > 0

\* What waits to be written, and the end of the output.
OutputInv ==
    /\ local_fin => output = 0 /\ ~ is_writing
    /\ local_fin => is_write_end_shutdown \/ process = "recursion"
    /\ is_write_end_shutdown => ~ is_writing /\ parser = "gone"
    /\ pc \in {"shutdown_write", "write_complete"} => ~ is_writing
    /\ output > 0 => \/ is_writing
                     \/ is_detached /\ (peer = "reset" \/ is_write_end_shutdown)
    /\ "close" \in active => peer = "reset" \/ local_fin
    /\ pc = "answered" => parser = "open" \/ is_write_end_shutdown
    /\ ~ in_map /\ closes = 0 => output = 0

\* A request is answered once.
Answers == requests - (Len(unread) + Len(input))
               + (IF pc = "answered" THEN 1 ELSE 0)
CountInv ==
    /\ Len(unread) + Len(input) <= requests
    /\ pc \in {"message", "answered"} => input # <<>>
    /\ output <= ReplySize * Answers

\* A connection that is neither reset nor checked is closed by one event.
OnceInv ==
    peer # "reset" /\ checks = 0 /\ closes > 0 =>
        closes = 1 /\ is_detached /\ parser = "gone"

\* What is ready is on the ready list, or the dispatch has still to handle it.
HangUp == peer = "reset" \/ (peer = "fin" /\ local_fin)
Readable == is_reading /\ (unread # <<>> \/ peer # "open")
Writable == is_writing /\ (backlog < SendRoom \/ local_fin \/ peer = "reset")
EdgeInv ==
    process = "running" /\ attached =>
        /\ HangUp => edge \/ (pc = "close" /\ "close" \in active)
        /\ Readable => edge \/ (pc \in {"close", "read"} /\ "read" \in active)
        /\ Writable => \/ edge
                       \/ /\ pc \in {"close", "read", "message", "answered",
                                     "after_read", "write"}
                          /\ "write" \in active

\* TypeOK, by the groups of variables, without the bound on the output, which
\* CountInv gives.
KernelOK == /\ unread \in Seq(Kinds) /\ peer \in {"open", "fin", "reset"}
            /\ local_fin \in BOOLEAN /\ backlog \in 0 .. SendRoom
            /\ requests \in 0 .. MaxRequests
PollOK == /\ is_reading \in BOOLEAN /\ is_writing \in BOOLEAN
          /\ is_detached \in BOOLEAN /\ attached \in BOOLEAN
          /\ edge \in BOOLEAN
CloseOK == /\ is_write_end_shutdown \in BOOLEAN /\ is_reset \in BOOLEAN
           /\ is_aborted \in BOOLEAN /\ fd_open \in BOOLEAN
           /\ parser \in {"open", "closing", "gone"}
           /\ close_functors \in Nat /\ closes \in Nat
BufferOK == /\ input \in Seq(Kinds) /\ output \in Nat
            /\ write_complete \in {"none", "shutdown"}
WorkerOK == /\ pc \in WorkerStates
            /\ return_to \in {"after_read", "write", "end"}
            /\ active \subseteq {"close", "error", "read", "write"}
            /\ functors \in Seq({"register", "check"})
MainOK == in_map \in BOOLEAN /\ checks \in 0 .. MaxChecks
Types == /\ KernelOK /\ PollOK /\ CloseOK /\ BufferOK /\ WorkerOK /\ MainOK
         /\ process \in Outcomes

ConnectionInv ==
    Types /\ QueueInv /\ LifeInv /\ OutputInv /\ CountInv /\ OnceInv /\ EdgeInv

-----------------------------------------------------------------------------
(* Constants, sequences and minima *)

\* What ConnectionAssumption says of the constants.
LEMMA ConstantFacts ==
    /\ MaxRequests \in Nat /\ MaxChecks \in Nat
    /\ ReplySize \in Nat /\ ReplySize > 0
    /\ SendRoom \in Nat /\ SendRoom > 0
    /\ Kinds \subseteq {"keep", "close", "bad"}
BY ConnectionAssumption DEF ConnectionAssumption

\* The minimum of two numbers.
LEMMA MinOfTwo ==
    ASSUME NEW a \in Int, NEW b \in Int
    PROVE  Min({a, b}) = IF a <= b THEN a ELSE b
<1> DEFINE m == IF a <= b THEN a ELSE b
<1>1. m \in {a, b} /\ \A y \in {a, b} : m <= y
  OBVIOUS
<1>2. \A x \in {a, b} : (\A y \in {a, b} : x <= y) => x = m
  OBVIOUS
<1> QED
  BY <1>1, <1>2 DEF Min

\* More answers allow more output, one answer allows a reply.
LEMMA Product ==
    ASSUME NEW r \in Nat, NEW a \in Nat, NEW b \in Nat,
           NEW o \in Nat, NEW p \in Nat, o <= r * a,
           \/ p <= o /\ a <= b
           \/ p <= o + r /\ a + 1 <= b
    PROVE  p <= r * b
<1>1. CASE p <= o /\ a <= b
  <2>1. PICK d \in Nat : b = a + d
    BY <1>1, b - a \in Nat
  <2>2. r * b = r * a + r * d /\ r * d >= 0
    BY <2>1
  <2> QED
    BY <1>1, <2>2
<1>2. CASE p <= o + r /\ a + 1 <= b
  <2>1. PICK d \in Nat : b = a + 1 + d
    BY <1>2, b - (a + 1) \in Nat
  <2>2. r * b = r * a + r + r * d /\ r * d >= 0
    BY <2>1
  <2> QED
    BY <1>2, <2>2
<1> QED
  BY <1>1, <1>2

\* How many units the send buffer takes.
LEMMA SentFacts ==
    ASSUME Types, NEW size \in Nat
    PROVE  /\ SendAsManyData(size) \in 0 .. size
           /\ backlog + SendAsManyData(size) \in 0 .. SendRoom
           /\ SendAsManyData(size) < size =>
                 backlog + SendAsManyData(size) = SendRoom
<1>1. backlog \in 0 .. SendRoom
  BY DEF Types, KernelOK
<1>2. SendAsManyData(size) =
          IF size <= SendRoom - backlog THEN size ELSE SendRoom - backlog
  BY <1>1, ConstantFacts, MinOfTwo DEF SendAsManyData
<1> QED
  BY <1>1, <1>2, ConstantFacts


-----------------------------------------------------------------------------
(* Types *)

\* The states of the worker and the ends of the process, one by one.
LEMMA StateNames ==
    /\ "poll" \in WorkerStates /\ "close" \in WorkerStates
    /\ "read" \in WorkerStates /\ "message" \in WorkerStates
    /\ "answered" \in WorkerStates /\ "after_read" \in WorkerStates
    /\ "shutdown_write" \in WorkerStates /\ "write" \in WorkerStates
    /\ "write_complete" \in WorkerStates /\ "end" \in WorkerStates
    /\ "running" \in Outcomes /\ "aborted_twice" \in Outcomes
    /\ "closed_twice" \in Outcomes /\ "dangling" \in Outcomes
    /\ "recursion" \in Outcomes /\ "reentered" \in Outcomes
    /\ \A r \in {"after_read", "write", "end"} : r \in WorkerStates
BY Zenon DEF WorkerStates, Outcomes

\* Registration and detachment keep the types.
LEMMA PollTypes ==
    ASSUME Types,
           \/ \E r, w, f \in BOOLEAN : RegisterEvent(r, w, f)
           \/ Detach \/ UNCHANGED pollVars
    PROVE  PollOK'
<1>1. ASSUME NEW r \in BOOLEAN, NEW w \in BOOLEAN, NEW f \in BOOLEAN,
             RegisterEvent(r, w, f)
      PROVE  PollOK'
  BY <1>1 DEF RegisterEvent, PollOK
<1>2. CASE Detach
  BY <1>2 DEF Detach, PollOK
<1>3. CASE UNCHANGED pollVars
  BY <1>3 DEF pollVars, Types, PollOK
<1> QED
  BY <1>1, <1>2, <1>3

\* abort_from_event_loop() keeps the types.
LEMMA AbortTypes ==
    ASSUME Types, Abort
    PROVE  PollOK' /\ CloseOK' /\ process' \in Outcomes
<1>1. CASE is_aborted
  BY <1>1, StateNames DEF Abort, pollVars, closeVars, Types, PollOK, CloseOK
<1>2. CASE ~ is_aborted
  <2>1. /\ Detach /\ UNCHANGED process
        /\ close_functors' = close_functors + 1 /\ closes' = closes + 1
        /\ is_write_end_shutdown' = TRUE /\ is_reset' = TRUE
        /\ is_aborted' = TRUE /\ fd_open' = FALSE /\ parser' = "gone"
    BY <1>2 DEF Abort, PostClose
  <2>2. close_functors' \in Nat /\ closes' \in Nat
    BY <2>1 DEF Types, CloseOK
  <2>3. CloseOK'
    BY <2>1, <2>2 DEF CloseOK
  <2> QED
    BY <2>1, <2>3, PollTypes DEF Types
<1> QED
  BY <1>1, <1>2

\* send() keeps the types.
LEMMA SendTypes ==
    ASSUME Types, Send
    PROVE  /\ PollOK' /\ CloseOK' /\ process' \in Outcomes
           /\ output' \in Nat /\ backlog' \in 0 .. SendRoom
<1> DEFINE sent == SendAsManyData(ReplySize)
<1>0. /\ sent \in 0 .. ReplySize /\ backlog + sent \in 0 .. SendRoom
      /\ output \in Nat /\ backlog \in 0 .. SendRoom
      /\ is_reading \in BOOLEAN /\ local_fin \in BOOLEAN
  BY SentFacts, ConstantFacts DEF Types, BufferOK, KernelOK, PollOK
<1>1. CASE is_detached
  BY <1>0, <1>1, PollTypes DEF Send, closeVars, Types, CloseOK
<1>2. CASE ~ is_detached /\ is_writing
  BY <1>0, <1>2, PollTypes, ConstantFacts DEF Send, closeVars, Types, CloseOK
<1>3. CASE ~ is_detached /\ ~ is_writing /\ (peer = "reset" \/ local_fin)
  BY <1>0, <1>3, AbortTypes DEF Send
<1>4. CASE ~ is_detached /\ ~ is_writing /\ ~ (peer = "reset" \/ local_fin)
  <2>1. /\ backlog' = backlog + sent
        /\ output' = output + (ReplySize - sent)
        /\ RegisterEvent(is_reading, TRUE, local_fin) \/ UNCHANGED pollVars
        /\ UNCHANGED <<closeVars, process>>
    BY <1>4 DEF Send
  <2>2. output' \in Nat /\ backlog' \in 0 .. SendRoom
    BY <1>0, <2>1, ConstantFacts
  <2>3. PollOK'
    BY <1>0, <2>1, PollTypes
  <2> QED
    BY <2>1, <2>2, <2>3 DEF closeVars, Types, CloseOK
<1> QED
  BY <1>1, <1>2, <1>3, <1>4

\* A group of variables that a step does not touch keeps its types.
LEMMA Unchanged ==
    ASSUME Types
    PROVE  /\ UNCHANGED kernelVars => KernelOK'
           /\ UNCHANGED closeVars => CloseOK'
           /\ UNCHANGED bufferVars => BufferOK'
           /\ UNCHANGED workerVars => WorkerOK'
           /\ UNCHANGED mainVars => MainOK'
           /\ UNCHANGED process => process' \in Outcomes
BY ZenonT(60) DEF Types, KernelOK, CloseOK, BufferOK, WorkerOK, MainOK, kernelVars,
       closeVars, bufferVars, workerVars, mainVars

\* The rest of the input and of the functors.
LEMMA TailTypes ==
    ASSUME Types
    PROVE  /\ input # <<>> => Tail(input) \in Seq(Kinds)
           /\ functors # <<>> => Tail(functors) \in Seq({"register", "check"})
           /\ <<>> \in Seq(Kinds)
<1>1. input \in Seq(Kinds) /\ functors \in Seq({"register", "check"})
  BY DEF Types, BufferOK, WorkerOK
<1> QED
  BY <1>1

\* forward_read_position() leaves what was not sent.
LEMMA ForwardFacts ==
    ASSUME NEW size \in Nat, NEW n \in 0 .. size
    PROVE  ForwardReadPosition(size, n) = size - n
<1>1. Min({n, size}) = n
  BY MinOfTwo
<1> QED
  BY <1>1 DEF ForwardReadPosition

\* Every step of the worker keeps the types.
LEMMA WorkerTypeStep ==
    ASSUME Types, CountInv, WorkerStep
    PROVE  Types'
<1>0. /\ local_fin \in BOOLEAN /\ is_reading \in BOOLEAN
      /\ is_writing \in BOOLEAN /\ backlog \in 0 .. SendRoom /\ output \in Nat
      /\ unread \in Seq(Kinds) /\ input \in Seq(Kinds)
      /\ functors \in Seq({"register", "check"})
  BY DEF Types, KernelOK, PollOK, BufferOK, WorkerOK
<1>1. CASE Poll
  <2>1. /\ edge' = FALSE
        /\ UNCHANGED <<is_reading, is_writing, is_detached, attached>>
    BY <1>1 DEF Poll
  <2>2. PollOK'
    BY <2>1 DEF Types, PollOK
  <2>3. /\ active' \subseteq {"close", "error", "read", "write"}
        /\ pc' \in WorkerStates /\ process' \in Outcomes
    BY <1>1, StateNames DEF Poll, Ready, Types, WorkerOK
  <2>4. WorkerOK'
    BY <1>1, <2>3 DEF Poll, Types, WorkerOK
  <2> QED
    BY <1>1, <2>2, <2>3, <2>4, Unchanged DEF Poll, Types
<1>2. CASE CloseEvent
  <2>1. PollOK'
    BY <1>2, PollTypes DEF CloseEvent
  <2>2. CloseOK'
    BY <1>2 DEF CloseEvent, PostClose, Types, CloseOK
  <2>3. WorkerOK'
    BY <1>2, StateNames DEF CloseEvent, Types, WorkerOK
  <2> QED
    BY <1>2, <2>1, <2>2, <2>3, Unchanged DEF CloseEvent, Types
<1>3. CASE ReadEvent
  <2>1. PollOK'
    <3>1. RegisterEvent(FALSE, is_writing, local_fin) \/ UNCHANGED pollVars
      BY <1>3 DEF ReadEvent
    <3> QED
      BY <1>0, <3>1, PollTypes
  <2>2. unread' \in Seq(Kinds) /\ input' \in Seq(Kinds)
    <3>1. SubSeq(unread, Len(unread) + 1, Len(unread)) \in Seq(Kinds)
      BY <1>0
    <3>2. input \o unread \in Seq(Kinds)
      BY <1>0
    <3> QED
      BY <1>0, <1>3, <3>1, <3>2 DEF ReadEvent, ReceiveAll
  <2>3. KernelOK' /\ BufferOK'
    BY <1>3, <2>2 DEF ReadEvent, Types, KernelOK, BufferOK
  <2>4. WorkerOK'
    BY <1>3, StateNames DEF ReadEvent, Types, WorkerOK
  <2> QED
    BY <1>3, <2>1, <2>3, <2>4, Unchanged DEF ReadEvent, Types
<1>4. CASE MessageAfterClose
  BY <1>4, Unchanged, PollTypes, StateNames DEF MessageAfterClose, Types
<1>5. CASE MessageFails
  <2>1. PollOK' /\ CloseOK' /\ process' \in Outcomes
    BY <1>5, AbortTypes DEF MessageFails
  <2>2. input # <<>>
    BY <1>5 DEF MessageFails, CountInv
  <2>3. BufferOK'
    <3>1. input' \in Seq(Kinds) /\ UNCHANGED <<output, write_complete>>
      BY <1>5, <2>2, TailTypes DEF MessageFails
    <3> QED
      BY <3>1 DEF Types, BufferOK
  <2>4. WorkerOK'
    BY <1>5, StateNames DEF MessageFails, Types, WorkerOK
  <2> QED
    BY <1>5, <2>1, <2>3, <2>4, Unchanged DEF MessageFails, Types
<1>6. CASE MessageAnswered
  <2>1. /\ PollOK' /\ CloseOK' /\ process' \in Outcomes
        /\ output' \in Nat /\ backlog' \in 0 .. SendRoom
    BY <1>6, SendTypes DEF MessageAnswered
  <2>2. KernelOK' /\ BufferOK'
    BY <1>6, <2>1 DEF MessageAnswered, Types, KernelOK, BufferOK
  <2>3. WorkerOK'
    BY <1>6, StateNames DEF MessageAnswered, Types, WorkerOK
  <2> QED
    BY <1>6, <2>1, <2>2, <2>3, Unchanged DEF MessageAnswered, Types
<1>7. CASE Answered
  <2>1. input # <<>>
    BY <1>7 DEF Answered, CountInv
  <2>2. input' \in Seq(Kinds) /\ write_complete' \in {"none", "shutdown"}
    <3>1. input' \in Seq(Kinds)
      BY <1>7, <2>1, TailTypes DEF Answered
    <3>2. write_complete' \in {"none", "shutdown"}
      BY <1>7 DEF Answered, Types, BufferOK
    <3> QED
      BY <3>1, <3>2
  <2>3. BufferOK'
    BY <1>7, <2>2 DEF Answered, Types, BufferOK
  <2>4. CloseOK'
    BY <1>7 DEF Answered, Types, CloseOK
  <2>5. WorkerOK'
    BY <1>7, StateNames DEF Answered, Types, WorkerOK
  <2> QED
    BY <1>7, <2>3, <2>4, <2>5, Unchanged, PollTypes DEF Answered, Types
<1>8. CASE AfterRead
  <2>1. BufferOK'
    <3>1. input' \in Seq(Kinds) /\ UNCHANGED <<output, write_complete>>
      BY <1>0, <1>8, TailTypes DEF AfterRead
    <3> QED
      BY <3>1 DEF Types, BufferOK
  <2>2. WorkerOK'
    BY <1>8, StateNames DEF AfterRead, Types, WorkerOK
  <2> QED
    BY <1>8, <2>1, <2>2, Unchanged, PollTypes DEF AfterRead, Types
<1>9. CASE ShutdownWrite
  <2>1. /\ local_fin' \in BOOLEAN /\ pc' \in WorkerStates
    BY <1>0, <1>9, StateNames DEF ShutdownWrite, Types, WorkerOK
  <2>2. KernelOK' /\ WorkerOK'
    BY <1>9, <2>1 DEF ShutdownWrite, Types, KernelOK, WorkerOK
  <2>3. PollOK' /\ CloseOK' /\ process' \in Outcomes
    <3>1. CASE is_write_end_shutdown
      BY <1>9, <3>1, PollTypes, Unchanged DEF ShutdownWrite
    <3>2. CASE ~ is_write_end_shutdown /\ peer = "reset"
      BY <1>9, <3>2, AbortTypes DEF ShutdownWrite
    <3>3. CASE ~ is_write_end_shutdown /\ peer # "reset"
      <4>1. \/ RegisterEvent(is_reading, FALSE, TRUE)
            \/ /\ edge' = attached
               /\ UNCHANGED <<is_reading, is_writing, is_detached, attached>>
        BY <1>9, <3>3 DEF ShutdownWrite
      <4>2. PollOK'
        <5>1. CASE RegisterEvent(is_reading, FALSE, TRUE)
          BY <1>0, <5>1, PollTypes
        <5>2. CASE /\ edge' = attached
                   /\ UNCHANGED <<is_reading, is_writing, is_detached, attached>>
          BY <5>2 DEF Types, PollOK
        <5> QED
          BY <4>1, <5>1, <5>2
      <4>3. \/ process' = "recursion" /\ UNCHANGED closeVars
            \/ /\ is_write_end_shutdown' = TRUE /\ parser' = "gone"
               /\ UNCHANGED <<is_reset, is_aborted, fd_open, close_functors,
                              closes, process>>
        BY <1>9, <3>3 DEF ShutdownWrite
      <4>4. CloseOK' /\ process' \in Outcomes
        BY <4>3, StateNames DEF closeVars, Types, CloseOK
      <4> QED
        BY <4>2, <4>4
    <3> QED
      BY <3>1, <3>2, <3>3
  <2> QED
    BY <1>9, <2>2, <2>3, Unchanged DEF ShutdownWrite, Types
<1>10. CASE WriteEvent
  <2> DEFINE sent == SendAsManyData(output)
             done == "write" \notin active \/ is_detached
                       \/ is_write_end_shutdown
             broken == output > 0 /\ (peer = "reset" \/ local_fin)
  <2>0. sent \in 0 .. output /\ backlog + sent \in 0 .. SendRoom
    BY <1>0, SentFacts
  <2>1. CASE done
    BY <1>10, <2>1, Unchanged, PollTypes, StateNames, ZenonT(60)
       DEF WriteEvent, Types, KernelOK, BufferOK, WorkerOK
  <2>2. CASE ~ done /\ broken
    <3>1. PollOK' /\ CloseOK' /\ process' \in Outcomes
      BY <1>10, <2>2, AbortTypes DEF WriteEvent
    <3>2. /\ pc' = "end"
          /\ UNCHANGED <<backlog, output, unread, peer, local_fin, requests,
                         input, write_complete, return_to, active, functors,
                         mainVars>>
      BY <1>10, <2>2 DEF WriteEvent
    <3> QED
      BY <3>1, <3>2, Unchanged, StateNames
         DEF Types, KernelOK, BufferOK, WorkerOK
  <2>3. CASE ~ done /\ ~ broken
    <3>1. /\ backlog' = backlog + sent
          /\ output' = ForwardReadPosition(output, sent)
          /\ pc' \in {"end", "write_complete"}
          /\ UNCHANGED pollVars \/ RegisterEvent(is_reading, FALSE, local_fin)
          /\ UNCHANGED <<closeVars, process, unread, peer, local_fin, requests,
                         input, write_complete, return_to, active, functors,
                         mainVars>>
      BY <1>10, <2>3 DEF WriteEvent
    <3>2. output' \in Nat
      <4>1. output' = output - sent
        BY <1>0, <2>0, <3>1, ForwardFacts
      <4> QED
        BY <1>0, <2>0, <4>1
    <3>3. PollOK'
      BY <1>0, <3>1, PollTypes
    <3>4. KernelOK' /\ BufferOK'
      BY <2>0, <3>1, <3>2 DEF Types, KernelOK, BufferOK
    <3>5. WorkerOK'
      BY <3>1, StateNames DEF Types, WorkerOK
    <3> QED
      BY <3>1, <3>3, <3>4, <3>5, Unchanged DEF Types
  <2> QED
    BY <2>1, <2>2, <2>3
<1>11. CASE WriteComplete
  <2>1. WorkerOK'
    BY <1>11, StateNames DEF WriteComplete, Types, WorkerOK
  <2> QED
    BY <1>11, <2>1, Unchanged, PollTypes DEF WriteComplete, Types
<1>12. CASE EndDispatch
  <2>1. WorkerOK'
    BY <1>12, StateNames DEF EndDispatch, Types, WorkerOK
  <2>2. CloseOK'
    BY <1>12 DEF EndDispatch, DestroyIfUnused, Types, CloseOK
  <2> QED
    BY <1>12, <2>1, <2>2, Unchanged, PollTypes DEF EndDispatch, Types
<1>13. CASE RunRegister
  <2>1. PollOK'
    BY <1>0, <1>13, PollTypes DEF RunRegister
  <2>2. WorkerOK'
    <3>1. /\ functors' \in Seq({"register", "check"})
          /\ UNCHANGED <<pc, return_to, active>>
      BY <1>13, TailTypes DEF RunRegister
    <3> QED
      BY <3>1 DEF Types, WorkerOK
  <2> QED
    BY <1>13, <2>1, <2>2, Unchanged DEF RunRegister, Types
<1>14. ASSUME NEW idle \in BOOLEAN, RunCheck(idle) PROVE Types'
  <2>1. WorkerOK'
    <3>1. /\ functors' \in Seq({"register", "check"})
          /\ UNCHANGED <<pc, return_to, active>>
      BY <1>14, TailTypes DEF RunCheck
    <3> QED
      BY <3>1 DEF Types, WorkerOK
  <2>2. PollOK' /\ CloseOK' /\ process' \in Outcomes
    <3>1. CASE idle
      BY <1>14, <3>1, AbortTypes DEF RunCheck
    <3>2. CASE ~ idle
      <4>1. CloseOK'
        BY <1>14, <3>2 DEF RunCheck, DestroyIfUnused, Types, CloseOK
      <4> QED
        BY <1>14, <3>2, <4>1, PollTypes, Unchanged DEF RunCheck
    <3> QED
      BY <3>1, <3>2
  <2> QED
    BY <1>14, <2>1, <2>2, Unchanged DEF RunCheck, Types
<1> QED
  BY <1>1, <1>2, <1>3, <1>4, <1>5, <1>6, <1>7, <1>8, <1>9, <1>10, <1>11, <1>12,
     <1>13, <1>14 DEF WorkerStep

\* The steps of the main loop and of the peer.
OtherStep ==
    \/ NewConnection \/ EraseConnection \/ RemoveInactive
    \/ \E kind \in Kinds : PeerSends(kind)
    \/ \E how \in {"fin", "reset"} : PeerCloses(how)
    \/ PeerReads

\* Every step keeps the types.
LEMMA TypeStep ==
    ASSUME Types, CountInv, [Next]_vars
    PROVE  Types'
<1>0. unread \in Seq(Kinds) /\ functors \in Seq({"register", "check"})
  BY DEF Types, KernelOK, WorkerOK
<1>1. CASE NewConnection
  <2>1. PollOK' /\ CloseOK'
    BY <1>1 DEF NewConnection, Types, PollOK, CloseOK
  <2>2. <<"register">> \in Seq({"register", "check"})
    OBVIOUS
  <2>3. WorkerOK' /\ MainOK'
    BY <1>1, <2>2 DEF NewConnection, Types, WorkerOK, MainOK
  <2> QED
    BY <1>1, <2>1, <2>3, Unchanged DEF NewConnection, Types
<1>2. CASE EraseConnection
  <2>1. close_functors' \in Nat
    <3>1. /\ close_functors \in Nat /\ close_functors > 0
          /\ close_functors' = close_functors - 1
      BY <1>2 DEF EraseConnection, Types, CloseOK
    <3> QED
      BY <3>1
  <2>2. CloseOK'
    BY <1>2, <2>1 DEF EraseConnection, DestroyIfUnused, Types, CloseOK
  <2>3. MainOK' /\ process' \in Outcomes
    BY <1>2, StateNames DEF EraseConnection, Types, MainOK
  <2> QED
    BY <1>2, <2>2, <2>3, Unchanged, PollTypes DEF EraseConnection, Types
<1>3. CASE RemoveInactive
  <2>1. functors' \in Seq({"register", "check"})
    BY <1>0, <1>3 DEF RemoveInactive
  <2>2. WorkerOK'
    BY <1>3, <2>1 DEF RemoveInactive, Types, WorkerOK
  <2>3. MainOK'
    BY <1>3, ConstantFacts DEF RemoveInactive, Types, MainOK
  <2> QED
    BY <1>3, <2>2, <2>3, Unchanged, PollTypes DEF RemoveInactive, Types
<1>4. ASSUME NEW kind \in Kinds, PeerSends(kind) PROVE Types'
  <2>1. unread' \in Seq(Kinds)
    BY <1>0, <1>4 DEF PeerSends
  <2>2. requests' \in 0 .. MaxRequests
    BY <1>4, ConstantFacts DEF PeerSends, Types, KernelOK
  <2>3. KernelOK'
    BY <1>4, <2>1, <2>2 DEF PeerSends, Types, KernelOK
  <2>4. PollOK'
    BY <1>4 DEF PeerSends, Types, PollOK
  <2> QED
    BY <1>4, <2>3, <2>4, Unchanged DEF PeerSends, Types
<1>5. ASSUME NEW how \in {"fin", "reset"}, PeerCloses(how) PROVE Types'
  <2>1. KernelOK'
    BY <1>5 DEF PeerCloses, Types, KernelOK
  <2>2. PollOK'
    BY <1>5 DEF PeerCloses, Types, PollOK
  <2> QED
    BY <1>5, <2>1, <2>2, Unchanged DEF PeerCloses, Types
<1>6. CASE PeerReads
  <2>1. KernelOK'
    BY <1>6, ConstantFacts DEF PeerReads, Types, KernelOK
  <2>2. PollOK'
    BY <1>6 DEF PeerReads, Types, PollOK
  <2> QED
    BY <1>6, <2>1, <2>2, Unchanged DEF PeerReads, Types
<1>7. CASE UNCHANGED vars
  BY <1>7, Unchanged, PollTypes DEF vars, Types
<1> QED
  BY <1>1, <1>2, <1>3, <1>4, <1>5, <1>6, <1>7, WorkerTypeStep DEF Next

-----------------------------------------------------------------------------
(* The number of replies *)

\* The bound on the output is a bound by a product of natural numbers.
LEMMA AnswersType ==
    ASSUME Types, CountInv
    PROVE  Answers \in Nat /\ Answers <= requests
<1>1. /\ unread \in Seq(Kinds) /\ input \in Seq(Kinds) /\ requests \in Nat
      /\ Len(unread) + Len(input) <= requests
      /\ pc = "answered" => input # <<>>
  BY ConstantFacts DEF Types, KernelOK, BufferOK, CountInv
<1>2. /\ Len(unread) \in Nat /\ Len(input) \in Nat
      /\ pc = "answered" => Len(input) > 0
  BY <1>1
<1> QED
  BY <1>1, <1>2 DEF Answers

\* The bound is kept if the output grows by a reply only with an answer.
LEMMA OutputBound ==
    ASSUME Types, Types', CountInv, Answers' \in Nat,
           \/ output' <= output /\ Answers <= Answers'
           \/ output' <= output + ReplySize /\ Answers + 1 <= Answers'
    PROVE  output' <= ReplySize * Answers'
<1>1. /\ Answers \in Nat /\ output \in Nat /\ output' \in Nat
      /\ output <= ReplySize * Answers
  BY AnswersType DEF Types, BufferOK, CountInv
<1> QED
  BY <1>1, Product, ConstantFacts

\* A step that neither receives nor takes a request and sends no reply.
LEMMA CountKept ==
    ASSUME Types, Types', CountInv, UNCHANGED <<unread, input, requests>>,
           output' <= output,
           pc' \in {"message", "answered"} \/ pc = "answered" => pc' = pc
    PROVE  CountInv'
<1>1. /\ Len(unread)' = Len(unread) /\ Len(input)' = Len(input)
      /\ Len(unread)' + Len(input)' <= requests'
      /\ pc' \in {"message", "answered"} => input' # <<>>
  BY DEF CountInv
<1>2. Answers' = Answers
  BY <1>1 DEF Answers
<1>3. output' <= ReplySize * Answers'
  BY <1>2, AnswersType, OutputBound
<1> QED
  BY <1>1, <1>3 DEF CountInv

\* send() adds at most a reply to the output.
LEMMA SendOutput ==
    ASSUME Types, Send
    PROVE  output' <= output + ReplySize
<1> DEFINE sent == SendAsManyData(ReplySize)
<1>0. output \in Nat /\ ReplySize \in Nat /\ sent \in 0 .. ReplySize
  BY SentFacts, ConstantFacts DEF Types, BufferOK
<1>1. \/ output' = output
      \/ output' = output + ReplySize
      \/ output' = output + (ReplySize - sent)
  BY DEF Send
<1> QED
  BY <1>0, <1>1

\* The lengths of the sequences of requests, as numbers.
LEMMA Lengths ==
    ASSUME Types
    PROVE  /\ Len(unread) \in Nat /\ Len(input) \in Nat /\ requests \in Nat
           /\ input # <<>> => Len(input) > 0 /\ Len(Tail(input)) = Len(input) - 1
           /\ Len(input \o unread) = Len(input) + Len(unread)
           /\ unread # <<>> => input \o unread # <<>>
           /\ \A k \in Kinds : Len(Append(unread, k)) = Len(unread) + 1
           /\ SubSeq(unread, Len(unread) + 1, Len(unread)) = <<>>
<1>1. unread \in Seq(Kinds) /\ input \in Seq(Kinds) /\ requests \in Nat
  BY ConstantFacts DEF Types, KernelOK, BufferOK
<1>2. /\ Len(unread) \in Nat /\ Len(input) \in Nat
      /\ input # <<>> => Len(input) > 0 /\ Len(Tail(input)) = Len(input) - 1
      /\ Len(input \o unread) = Len(input) + Len(unread)
      /\ \A k \in Kinds : Len(Append(unread, k)) = Len(unread) + 1
  BY <1>1
<1>3. unread # <<>> => input \o unread # <<>>
  <2>1. unread # <<>> => Len(unread) > 0
    BY <1>1
  <2>2. input \o unread = <<>> => Len(input \o unread) = 0
    OBVIOUS
  <2> QED
    BY <1>2, <2>1, <2>2
<1>4. SubSeq(unread, Len(unread) + 1, Len(unread)) = <<>>
  BY <1>1
<1> QED
  BY <1>1, <1>2, <1>3, <1>4

\* The number of answers is a natural number.
LEMMA Differences ==
    ASSUME NEW q \in Nat, NEW l \in Nat, NEW m \in Nat, l + m <= q
    PROVE  q - (l + m) + 0 \in Nat /\ q - (l + m) + 1 \in Nat
OBVIOUS

\* A step that takes a request, or drops the input, or receives a request.
LEMMA CountRule ==
    ASSUME Types, Types', CountInv, NEW l \in Nat, NEW m \in Nat,
           Len(unread)' = l, Len(input)' = m, l + m <= requests',
           pc' \in {"message", "answered"} => m > 0,
           \/ output' <= output /\ Answers <= Answers'
           \/ output' <= output + ReplySize /\ Answers + 1 <= Answers'
    PROVE  CountInv'
<1>1. requests' \in Nat
  BY ConstantFacts DEF Types, KernelOK
<1>2. Answers' = requests' - (l + m) + (IF pc' = "answered" THEN 1 ELSE 0)
  BY DEF Answers
<1>3. Answers' \in Nat
  BY <1>1, <1>2, Differences
<1>4. output' <= ReplySize * Answers'
  BY <1>3, OutputBound
<1>5. pc' \in {"message", "answered"} => input' # <<>>
  <2>1. input' = <<>> => Len(input)' = 0
    OBVIOUS
  <2> QED
    BY <2>1
<1> QED
  BY <1>4, <1>5 DEF CountInv

\* Every step keeps the count of the replies.
LEMMA CountStep ==
    ASSUME Types, Types', CountInv, [Next]_vars
    PROVE  CountInv'
<1>0. /\ Len(unread) \in Nat /\ Len(input) \in Nat /\ requests \in Nat
      /\ Len(unread) + Len(input) <= requests
      /\ pc \in {"message", "answered"} => Len(input) > 0
      /\ output \in Nat /\ Answers \in Nat
  BY Lengths, AnswersType DEF CountInv, Types, BufferOK
<1>1. CASE ReadEvent
  <2>1. CASE "read" \in active
    <3>1. /\ UNCHANGED <<requests, output>> /\ pc = "read"
          /\ pc' \in {"message", "after_read"}
          /\ pc' = "message" => Len(unread) > 0
      <4>1. unread # <<>> => Len(unread) > 0
        BY DEF Types, KernelOK
      <4> QED
        BY <1>1, <2>1, <4>1 DEF ReadEvent, ReceiveAll
    <3>2. /\ input' = input \o unread
          /\ unread' = SubSeq(unread, Len(unread) + 1, Len(unread))
      BY <1>1, <2>1 DEF ReadEvent, ReceiveAll
    <3>b. unread' = <<>>
      BY <3>2, Lengths
    <3>3. /\ Len(unread)' = 0 /\ Len(input)' = Len(input) + Len(unread)
      BY <3>2, <3>b, Lengths
    <3>4. pc' \in {"message", "answered"} => Len(input) + Len(unread) > 0
      BY <1>0, <3>1
    <3>5. Answers' = Answers
      BY <1>0, <3>1, <3>3 DEF Answers
    <3> QED
      BY <1>0, <3>1, <3>3, <3>4, <3>5, CountRule
  <2>2. CASE "read" \notin active
    BY <1>0, <1>1, <2>2, CountKept DEF ReadEvent
  <2> QED
    BY <2>1, <2>2
<1>2. CASE MessageFails
  <2>0. input' = Tail(input)
    BY <1>2 DEF MessageFails
  <2>1. /\ UNCHANGED <<unread, requests, output>>
        /\ pc = "message" /\ pc' = "after_read"
    BY <1>2 DEF MessageFails, kernelVars
  <2>2. Len(unread)' = Len(unread) /\ Len(input)' = Len(input) - 1
    BY <2>0, <2>1, Lengths DEF CountInv
  <2>3. Len(input) > 0
    BY <1>0, <2>1
  <2>4. Answers' = Answers + 1
    BY <1>0, <2>1, <2>2 DEF Answers
  <2> QED
    BY <1>0, <2>1, <2>2, <2>3, <2>4, CountRule
<1>3. CASE MessageAnswered
  <2>1. /\ UNCHANGED <<unread, requests, input>>
        /\ pc = "message" /\ pc' = "answered"
        /\ output' <= output + ReplySize
    BY <1>3, SendOutput DEF MessageAnswered
  <2>2. Len(unread)' = Len(unread) /\ Len(input)' = Len(input)
    BY <2>1
  <2>3. Len(input) > 0
    BY <1>0, <2>1
  <2>4. Answers' = Answers + 1
    BY <1>0, <2>1, <2>2 DEF Answers
  <2> QED
    BY <1>0, <2>1, <2>2, <2>3, <2>4, CountRule
<1>4. CASE Answered
  <2>0. input' = Tail(input)
    BY <1>4 DEF Answered
  <2>1. /\ UNCHANGED <<unread, requests, output>>
        /\ pc = "answered" /\ pc' \in {"after_read", "shutdown_write"}
    BY <1>4 DEF Answered, kernelVars
  <2>2. Len(unread)' = Len(unread) /\ Len(input)' = Len(input) - 1
    BY <2>0, <2>1, Lengths DEF CountInv
  <2>3. Len(input) > 0
    BY <1>0, <2>1
  <2>4. Answers' = Answers
    BY <1>0, <2>1, <2>2 DEF Answers
  <2> QED
    BY <1>0, <2>1, <2>2, <2>3, <2>4, CountRule
<1>5. CASE AfterRead
  <2>1. /\ UNCHANGED <<unread, requests, output>>
        /\ pc = "after_read" /\ pc' \in {"write", "shutdown_write"}
    BY <1>5 DEF AfterRead, kernelVars
  <2>2. Len(unread)' = Len(unread)
    BY <2>1
  <2>3. CASE is_reading
    <3>1. input' = input
      BY <1>5, <2>3 DEF AfterRead
    <3> QED
      BY <1>0, <2>1, <3>1, CountKept
  <2>4. CASE ~ is_reading
    <3>1. Len(input)' = 0
      BY <1>5, <2>4 DEF AfterRead
    <3>2. Answers <= Answers'
      BY <1>0, <2>1, <2>2, <3>1 DEF Answers
    <3> QED
      BY <1>0, <2>1, <2>2, <3>1, <3>2, CountRule
  <2> QED
    BY <2>3, <2>4
<1>6. CASE WriteEvent
  <2>1. UNCHANGED <<unread, input, requests>> /\ pc = "write"
        /\ pc' \in {"end", "write_complete"}
    BY <1>6 DEF WriteEvent
  <2>2. output' <= output
    <3>1. SendAsManyData(output) \in 0 .. output
      BY <1>0, SentFacts
    <3>2. output' = output \/ output' = output - SendAsManyData(output)
      BY <1>0, <1>6, <3>1, ForwardFacts DEF WriteEvent
    <3> QED
      BY <1>0, <3>1, <3>2
  <2> QED
    BY <2>1, <2>2, CountKept
<1>7. ASSUME NEW kind \in Kinds, PeerSends(kind) PROVE CountInv'
  <2>1. /\ UNCHANGED <<pc, input, output>> /\ requests' = requests + 1
        /\ unread' = Append(unread, kind)
    BY <1>7 DEF PeerSends, bufferVars, workerVars
  <2>2. Len(unread)' = Len(unread) + 1 /\ Len(input)' = Len(input)
    BY <2>1, Lengths
  <2>3. pc \in {"message", "answered"} => Len(input) > 0
    BY <1>0
  <2>4. Answers' = Answers
    BY <1>0, <2>1, <2>2 DEF Answers
  <2> QED
    BY <1>0, <2>1, <2>2, <2>3, <2>4, CountRule
<1>8. CASE \/ Poll \/ CloseEvent \/ MessageAfterClose \/ ShutdownWrite
           \/ WriteComplete \/ EndDispatch \/ RunRegister
           \/ \E idle \in BOOLEAN : RunCheck(idle)
  <2>1. /\ UNCHANGED <<unread, input, requests, output>>
    BY <1>8 DEF Poll, CloseEvent, MessageAfterClose, ShutdownWrite,
       WriteComplete, EndDispatch, RunRegister, RunCheck, kernelVars, bufferVars
  <2>2. pc' \in {"message", "answered"} \/ pc = "answered" => pc' = pc
    BY <1>8 DEF Poll, CloseEvent, MessageAfterClose, ShutdownWrite, Types,
       WorkerOK, WriteComplete, EndDispatch, RunRegister, RunCheck, workerVars
  <2> QED
    BY <1>0, <2>1, <2>2, CountKept
<1>9. CASE \/ NewConnection \/ EraseConnection \/ RemoveInactive
           \/ \E how \in {"fin", "reset"} : PeerCloses(how)
           \/ PeerReads \/ UNCHANGED vars
  <2>1. UNCHANGED <<unread, input, requests, output, pc>>
    BY <1>9 DEF NewConnection, EraseConnection, RemoveInactive, PeerCloses,
       PeerReads, vars, kernelVars, bufferVars, workerVars
  <2> QED
    BY <1>0, <2>1, CountKept
<1> QED
  BY <1>1, <1>2, <1>3, <1>4, <1>5, <1>6, <1>7, <1>8, <1>9 DEF Next, WorkerStep

-----------------------------------------------------------------------------
(* The functors of the worker *)

\* What taking or adding a functor does to the registration.
LEMMA FunctorFacts ==
    ASSUME Types, QueueInv
    PROVE  /\ functors # <<>> /\ functors' = Tail(functors) => ~ Registering'
           /\ functors' = Append(functors, "check") =>
                 (Registering' <=> Registering)
           /\ functors # <<>> /\ Head(functors) = "register" => Registering
           /\ functors # <<>> /\ Head(functors) = "check" =>
                 ~ Registering /\ checks > 0
<1>1. functors \in Seq({"register", "check"})
  BY DEF Types, WorkerOK
<1>2. ASSUME functors # <<>>, functors' = Tail(functors), Registering'
      PROVE  FALSE
  <2>1. Tail(functors) # <<>> /\ Tail(functors)[1] = "register"
    BY <1>2 DEF Registering
  <2>2. 2 \in DOMAIN functors /\ functors[2] = "register"
    BY <1>1, <1>2, <2>1
  <2> QED
    BY <2>2 DEF QueueInv
<1>3. ASSUME functors' = Append(functors, "check")
      PROVE  Registering' <=> Registering
  <2>1. CASE functors = <<>>
    <3>1. Append(functors, "check")[1] = "check"
      BY <2>1
    <3> QED
      BY <1>3, <2>1, <3>1 DEF Registering
  <2>2. CASE functors # <<>>
    <3>1. /\ Append(functors, "check") # <<>>
          /\ Append(functors, "check")[1] = functors[1]
      BY <1>1, <2>2
    <3> QED
      BY <1>3, <2>2, <3>1 DEF Registering
  <2> QED
    BY <2>1, <2>2
<1>4. functors # <<>> => Head(functors) = functors[1] /\ 1 \in DOMAIN functors
  BY <1>1
<1>5. functors # <<>> /\ Head(functors) = "register" => Registering
  BY <1>4 DEF Registering
<1>6. functors # <<>> /\ Head(functors) = "check" => ~ Registering /\ checks > 0
  BY <1>4 DEF Registering, QueueInv
<1> QED
  BY <1>2, <1>3, <1>5, <1>6

\* Every step keeps the order of the functors.
LEMMA QueueStep ==
    ASSUME Types, QueueInv, [Next]_vars
    PROVE  QueueInv'
<1>0. functors \in Seq({"register", "check"}) /\ checks \in Nat
  BY ConstantFacts DEF Types, WorkerOK, MainOK
<1>1. CASE UNCHANGED <<functors, checks>>
  BY <1>1 DEF QueueInv
<1>2. CASE functors # <<>> /\ functors' = Tail(functors) /\ checks' = checks
  <2>1. SUFFICES ASSUME NEW i \in DOMAIN Tail(functors)
                 PROVE  /\ Tail(functors)[i] = "register" => i = 1
                        /\ Tail(functors)[i] = "check" => checks > 0
    BY <1>2 DEF QueueInv
  <2>2. i + 1 \in DOMAIN functors /\ Tail(functors)[i] = functors[i + 1] /\ i > 0
    BY <1>0, <1>2, <2>1
  <2>3. i + 1 # 1
    BY <1>0, <1>2, <2>1, <2>2
  <2> QED
    BY <2>2, <2>3 DEF QueueInv
<1>3. CASE functors' = <<"register">> /\ checks' = checks
  BY <1>3 DEF QueueInv
<1>4. CASE functors' = Append(functors, "check") /\ checks' = checks + 1
  <2>1. SUFFICES ASSUME NEW i \in DOMAIN Append(functors, "check")
                 PROVE  /\ Append(functors, "check")[i] = "register" => i = 1
                        /\ checks + 1 > 0
    BY <1>4 DEF QueueInv
  <2>2. CASE i \in DOMAIN functors
    BY <1>0, <2>2 DEF QueueInv
  <2>3. CASE i \notin DOMAIN functors
    <3>1. Append(functors, "check")[i] = "check"
      BY <1>0, <2>1, <2>3
    <3> QED
      BY <1>0, <3>1
  <2> QED
    BY <2>2, <2>3
<1>5. CASE RunRegister \/ \E idle \in BOOLEAN : RunCheck(idle)
  BY <1>2, <1>5 DEF RunRegister, RunCheck, mainVars
<1>6. CASE \/ Poll \/ CloseEvent \/ ReadEvent \/ MessageAfterClose
           \/ MessageFails \/ MessageAnswered \/ Answered \/ AfterRead
           \/ ShutdownWrite \/ WriteEvent \/ WriteComplete \/ EndDispatch
  BY <1>1, <1>6 DEF Poll, CloseEvent, ReadEvent, MessageAfterClose, MessageFails,
     MessageAnswered, Answered, AfterRead, ShutdownWrite, WriteEvent,
     WriteComplete, EndDispatch, mainVars, workerVars
<1>7. CASE NewConnection
  BY <1>3, <1>7 DEF NewConnection
<1>8. CASE RemoveInactive
  BY <1>4, <1>8 DEF RemoveInactive
<1>9. CASE \/ EraseConnection \/ \E kind \in Kinds : PeerSends(kind)
           \/ \E how \in {"fin", "reset"} : PeerCloses(how)
           \/ PeerReads \/ UNCHANGED vars
  BY <1>1, <1>9 DEF EraseConnection, PeerSends, PeerCloses, PeerReads, vars,
     workerVars, mainVars
<1> QED
  BY <1>5, <1>6, <1>7, <1>8, <1>9 DEF Next, WorkerStep

-----------------------------------------------------------------------------
(* Registration, detachment and the map *)

\* A step of the dispatch that leaves the registration alone.
LEMMA LifeKept ==
    ASSUME Types, LifeInv,
           UNCHANGED <<is_detached, is_reading, is_writing, attached, closes,
                       close_functors, fd_open, in_map, functors>>,
           process' # "dangling",
           pc' = "close" => attached,
           pc = "poll" => pc' = "poll" \/ attached
    PROVE  LifeInv'
<1>1. Registering' <=> Registering
  BY DEF Registering
<1> QED
  BY <1>1 DEF LifeInv

\* A (re)registration of a descriptor that is not detached.
LEMMA LifeRegistered ==
    ASSUME Types, LifeInv, NEW r, NEW w, NEW f, RegisterEvent(r, w, f),
           ~ is_detached, ~ Registering', UNCHANGED <<closeVars, in_map>>,
           process' # "dangling", pc' # "close"
    PROVE  LifeInv'
<1>1. is_detached' = FALSE /\ attached' = TRUE
  BY DEF RegisterEvent
<1>2. UNCHANGED <<closes, close_functors, fd_open, in_map>>
  BY DEF closeVars
<1>3. closes = 0 /\ fd_open /\ in_map /\ close_functors <= closes
  BY DEF LifeInv
<1> QED
  BY <1>1, <1>2, <1>3 DEF LifeInv

\* Detachment with a call of the close callback.
LEMMA LifeDetached ==
    ASSUME Types, LifeInv, Detach, PostClose, ~ Registering',
           process' # "dangling", pc' # "close"
    PROVE  LifeInv'
<1>1. /\ is_detached' = TRUE /\ attached' = FALSE /\ is_reading' = FALSE
      /\ is_writing' = FALSE
  BY DEF Detach
<1>2. /\ closes \in Nat /\ close_functors \in Nat /\ close_functors <= closes
      /\ closes' = closes + 1 /\ close_functors' = close_functors + 1
  BY DEF PostClose, LifeInv, Types, CloseOK
<1>3. close_functors' <= closes' /\ closes' # 0
  BY <1>2
<1> QED
  BY <1>1, <1>3 DEF LifeInv

\* abort_from_event_loop(), in a dispatch or in a functor.
LEMMA LifeAborted ==
    ASSUME Types, LifeInv, Abort, ~ Registering, ~ Registering', pc' # "close",
           UNCHANGED in_map, in_map \/ closes # 0, process = "running"
    PROVE  LifeInv'
<1>1. CASE is_aborted
  <2>1. /\ process' = "aborted_twice"
        /\ UNCHANGED <<is_detached, is_reading, is_writing, attached, closes,
                       close_functors, fd_open>>
    BY <1>1 DEF Abort, pollVars, closeVars
  <2> QED
    BY <2>1 DEF LifeInv
<1>2. CASE ~ is_aborted
  BY <1>2, LifeDetached DEF Abort
<1> QED
  BY <1>1, <1>2

\* send() keeps it.
LEMMA LifeSent ==
    ASSUME Types, LifeInv, Send, pc = "message", pc' = "answered",
           UNCHANGED <<in_map, functors>>, process = "running"
    PROVE  LifeInv'
<1>1. ~ Registering /\ ~ Registering' /\ (in_map \/ closes # 0)
  BY DEF LifeInv, Registering
<1>2. CASE \/ is_detached
           \/ ~ is_detached /\ is_writing
  <2>1. UNCHANGED <<pollVars, closeVars, process>>
    BY <1>2 DEF Send
  <2> QED
    BY <2>1, LifeKept DEF pollVars, closeVars
<1>3. CASE ~ is_detached /\ ~ is_writing /\ (peer = "reset" \/ local_fin)
  <2>1. Abort
    BY <1>3 DEF Send
  <2> QED
    BY <1>1, <2>1, LifeAborted
<1>4. CASE ~ is_detached /\ ~ is_writing /\ ~ (peer = "reset" \/ local_fin)
  <2>1. /\ RegisterEvent(is_reading, TRUE, local_fin) \/ UNCHANGED pollVars
        /\ UNCHANGED <<closeVars, process>>
    BY <1>4 DEF Send
  <2>2. CASE RegisterEvent(is_reading, TRUE, local_fin)
    BY <1>1, <1>4, <2>1, <2>2, LifeRegistered
  <2>3. CASE UNCHANGED pollVars
    BY <2>1, <2>3, LifeKept DEF pollVars, closeVars
  <2> QED
    BY <2>1, <2>2, <2>3
<1> QED
  BY <1>2, <1>3, <1>4

\* Every step of the worker keeps it.
LEMMA WorkerLifeStep ==
    ASSUME Types, QueueInv, LifeInv, WorkerStep
    PROVE  LifeInv'
<1>0. /\ pc # "poll" => ~ Registering /\ (in_map \/ closes # 0)
      /\ ~ is_detached => in_map
      /\ attached \/ is_reading \/ is_writing => ~ is_detached
      /\ process # "dangling"
  BY DEF LifeInv
<1>a. functors' = functors => (Registering' <=> Registering)
  BY DEF Registering
<1>1. CASE Poll
  <2>1. process' = "running" \/ process' = process
    BY <1>0, <1>1 DEF Poll, Alive
  <2>2. /\ attached
        /\ UNCHANGED <<is_detached, is_reading, is_writing, attached, closes,
                       close_functors, fd_open, in_map, functors>>
    BY <1>1 DEF Poll, closeVars, mainVars
  <2> QED
    BY <1>0, <2>1, <2>2, LifeKept
<1>2. CASE CloseEvent
  <2>1. CASE "close" \in active
    BY <1>0, <1>a, <1>2, <2>1, LifeDetached DEF CloseEvent
  <2>2. CASE "close" \notin active
    BY <1>0, <1>2, <2>2, LifeKept DEF CloseEvent, pollVars, mainVars
  <2> QED
    BY <2>1, <2>2
<1>3. CASE ReadEvent
  <2>1. /\ pc = "read" /\ pc' \in {"message", "after_read", "write"}
        /\ process' = process /\ UNCHANGED <<closeVars, in_map, functors>>
        /\ \/ UNCHANGED pollVars
           \/ RegisterEvent(FALSE, is_writing, local_fin) /\ is_reading
    BY <1>3 DEF ReadEvent, mainVars
  <2>2. CASE UNCHANGED pollVars
    BY <1>0, <2>1, <2>2, LifeKept DEF pollVars, closeVars
  <2>3. CASE RegisterEvent(FALSE, is_writing, local_fin) /\ is_reading
    BY <1>0, <1>a, <2>1, <2>3, LifeRegistered
  <2> QED
    BY <2>1, <2>2, <2>3
<1>4. CASE MessageAfterClose
  BY <1>0, <1>4, LifeKept
     DEF MessageAfterClose, pollVars, closeVars, workerVars, mainVars
<1>5. CASE MessageFails
  BY <1>0, <1>a, <1>5, LifeAborted DEF MessageFails, mainVars
<1>6. CASE MessageAnswered
  BY <1>6, LifeSent DEF MessageAnswered, mainVars
<1>7. CASE Answered
  BY <1>0, <1>7, LifeKept DEF Answered, pollVars, mainVars
<1>8. CASE AfterRead
  BY <1>0, <1>8, LifeKept DEF AfterRead, pollVars, closeVars, mainVars
<1>9. CASE ShutdownWrite
  <2>0. /\ pc = "shutdown_write" /\ process = "running"
        /\ pc' \in {"shutdown_write", "after_read", "write", "end"}
        /\ UNCHANGED <<in_map, functors>>
    BY <1>9 DEF ShutdownWrite, mainVars, Types, WorkerOK
  <2>1. CASE is_write_end_shutdown
    BY <1>0, <1>9, <2>0, <2>1, LifeKept DEF ShutdownWrite, pollVars, closeVars
  <2>2. CASE ~ is_write_end_shutdown /\ peer = "reset"
    BY <1>0, <1>a, <1>9, <2>0, <2>2, LifeAborted DEF ShutdownWrite
  <2>3. CASE ~ is_write_end_shutdown /\ peer # "reset"
    <3>1. /\ \/ RegisterEvent(is_reading, FALSE, TRUE) /\ is_writing
             \/ UNCHANGED <<is_reading, is_writing, is_detached, attached>>
          /\ process' \in {"recursion", "running"}
          /\ UNCHANGED <<closes, close_functors, fd_open>>
      BY <1>9, <2>0, <2>3 DEF ShutdownWrite, closeVars
    <3>2. CASE UNCHANGED <<is_reading, is_writing, is_detached, attached>>
      BY <1>0, <2>0, <3>1, <3>2, LifeKept
    <3>3. CASE RegisterEvent(is_reading, FALSE, TRUE) /\ is_writing
      <4>1. is_detached' = FALSE /\ attached' = TRUE
        BY <3>3 DEF RegisterEvent
      <4>2. ~ is_detached /\ ~ Registering'
        BY <1>0, <1>a, <2>0, <3>3
      <4> QED
        BY <2>0, <3>1, <4>1, <4>2 DEF LifeInv
    <3> QED
      BY <3>1, <3>2, <3>3
  <2> QED
    BY <2>1, <2>2, <2>3
<1>10. CASE WriteEvent
  <2>0. /\ pc = "write" /\ process = "running" /\ pc' \in {"end", "write_complete"}
        /\ UNCHANGED <<in_map, functors>>
    BY <1>10 DEF WriteEvent, mainVars
  <2>1. \/ UNCHANGED <<pollVars, closeVars, process>>
        \/ Abort
        \/ /\ ~ is_detached /\ RegisterEvent(is_reading, FALSE, local_fin)
           /\ UNCHANGED <<closeVars, process>>
    BY <1>10 DEF WriteEvent
  <2>2. CASE UNCHANGED <<pollVars, closeVars, process>>
    BY <1>0, <2>0, <2>2, LifeKept DEF pollVars, closeVars
  <2>3. CASE Abort
    BY <1>0, <1>a, <2>0, <2>3, LifeAborted
  <2>4. CASE /\ ~ is_detached /\ RegisterEvent(is_reading, FALSE, local_fin)
             /\ UNCHANGED <<closeVars, process>>
    BY <1>0, <1>a, <2>0, <2>4, LifeRegistered
  <2> QED
    BY <2>1, <2>2, <2>3, <2>4
<1>11. CASE WriteComplete
  BY <1>0, <1>11, LifeKept DEF WriteComplete, pollVars, closeVars, mainVars
<1>12. CASE EndDispatch
  <2>1. /\ pc = "end" /\ pc' = "poll" /\ process' = process
        /\ UNCHANGED <<is_detached, is_reading, is_writing, attached, closes,
                       close_functors, in_map, functors>>
    BY <1>12 DEF EndDispatch, pollVars, mainVars
  <2>2. ~ is_detached => fd_open' = fd_open
    BY <1>0, <1>12 DEF EndDispatch, DestroyIfUnused, Alive, Types, CloseOK
  <2>3. ~ Registering /\ ~ Registering'
    BY <1>0, <1>a, <2>1
  <2> QED
    BY <2>1, <2>2, <2>3 DEF LifeInv
<1>13. CASE RunRegister
  <2>1. Registering /\ ~ Registering'
    BY <1>13, FunctorFacts DEF RunRegister
  <2>2. ~ is_detached
    BY <2>1 DEF LifeInv
  <2> QED
    BY <1>0, <1>13, <2>1, <2>2, LifeRegistered DEF RunRegister, mainVars
<1>14. ASSUME NEW idle \in BOOLEAN, RunCheck(idle) PROVE LifeInv'
  <2>1. ~ Registering /\ ~ Registering' /\ functors # <<>>
    BY <1>14, FunctorFacts DEF RunCheck
  <2>2. in_map \/ closes # 0
    BY <2>1 DEF LifeInv
  <2>3. CASE idle
    BY <1>14, <2>1, <2>2, <2>3, LifeAborted DEF RunCheck, mainVars
  <2>4. CASE ~ idle
    <3>1. /\ pc = "poll" /\ pc' = "poll" /\ process' = process
          /\ UNCHANGED <<is_detached, is_reading, is_writing, attached, closes,
                         close_functors, in_map>>
      BY <1>14, <2>4 DEF RunCheck, pollVars, mainVars
    <3>2. ~ is_detached => fd_open' = fd_open
      BY <1>0, <1>14, <2>4 DEF RunCheck, DestroyIfUnused, Alive, Types, CloseOK
    <3> QED
      BY <2>1, <2>2, <3>1, <3>2 DEF LifeInv
  <2> QED
    BY <2>3, <2>4
<1> QED
  BY <1>1, <1>2, <1>3, <1>4, <1>5, <1>6, <1>7, <1>8, <1>9, <1>10, <1>11, <1>12,
     <1>13, <1>14 DEF WorkerStep

\* Every step keeps it.
LEMMA LifeStep ==
    ASSUME Types, QueueInv, LifeInv, [Next]_vars
    PROVE  LifeInv'
<1>0. functors' = functors => (Registering' <=> Registering)
  BY DEF Registering
<1>1. CASE NewConnection
  <2>1. /\ ~ in_map /\ closes = 0 /\ process' = process /\ process # "dangling"
        /\ in_map' = TRUE /\ fd_open' = TRUE /\ is_detached' = FALSE
        /\ UNCHANGED <<attached, closes, close_functors, pc>>
    BY <1>1 DEF NewConnection, LifeInv
  <2>2. ~ attached /\ pc = "poll" /\ close_functors <= closes
    BY <2>1 DEF LifeInv
  <2>3. Registering'
    BY <1>1 DEF NewConnection, Registering
  <2> QED
    BY <2>1, <2>2, <2>3 DEF LifeInv
<1>2. CASE EraseConnection
  <2>1. /\ close_functors \in Nat /\ closes \in Nat /\ close_functors > 0
        /\ close_functors <= closes
        /\ close_functors' = close_functors - 1
    BY <1>2 DEF EraseConnection, Types, CloseOK, LifeInv
  <2>2. closes # 0 /\ close_functors' <= closes
    BY <2>1
  <2>3. /\ UNCHANGED <<is_detached, is_reading, is_writing, attached, closes,
                       functors, pc>>
        /\ process' # "dangling"
    BY <1>2 DEF EraseConnection, pollVars, workerVars
  <2> QED
    BY <1>0, <2>2, <2>3 DEF LifeInv
<1>3. CASE RemoveInactive
  <2>1. /\ in_map /\ process' = process
        /\ UNCHANGED <<is_detached, is_reading, is_writing, attached, closes,
                       close_functors, fd_open, in_map, pc>>
    BY <1>3 DEF RemoveInactive, pollVars, closeVars
  <2>2. Registering' <=> Registering
    BY <1>3, FunctorFacts DEF RemoveInactive
  <2> QED
    BY <2>1, <2>2 DEF LifeInv
<1>4. CASE \/ \E kind \in Kinds : PeerSends(kind)
           \/ \E how \in {"fin", "reset"} : PeerCloses(how)
           \/ PeerReads \/ UNCHANGED vars
  <2>1. UNCHANGED <<is_detached, is_reading, is_writing, attached, closes,
                    close_functors, fd_open, in_map, functors, pc, process>>
    BY <1>4 DEF PeerSends, PeerCloses, PeerReads, vars, pollVars, closeVars,
       workerVars, mainVars
  <2> QED
    BY <1>0, <2>1 DEF LifeInv
<1> QED
  BY <1>1, <1>2, <1>3, <1>4, WorkerLifeStep DEF Next

-----------------------------------------------------------------------------
(* The output and the end of it *)

\* A step that leaves the write event, the output and the flags alone.
LEMMA OutputKept ==
    ASSUME OutputInv, process = "running",
           UNCHANGED <<local_fin, output, is_writing, is_detached, peer, active,
                       is_write_end_shutdown, parser, in_map, closes>>,
           pc' \in {"shutdown_write", "write_complete"} => ~ is_writing,
           pc' = "answered" => pc = "answered"
    PROVE  OutputInv'
BY DEF OutputInv

\* abort_from_event_loop() keeps it.
LEMMA OutputAborted ==
    ASSUME Types, OutputInv, Abort, process = "running",
           UNCHANGED <<local_fin, output, peer, active, in_map>>,
           pc' \in {"shutdown_write", "write_complete"} => ~ is_writing,
           pc' = "answered" => parser = "open"
    PROVE  OutputInv'
<1>1. CASE is_aborted
  <2>1. /\ UNCHANGED <<is_writing, is_detached, is_write_end_shutdown, parser,
                       closes>>
    BY <1>1 DEF Abort, pollVars, closeVars
  <2> QED
    BY <2>1 DEF OutputInv
<1>2. CASE ~ is_aborted
  <2>1. /\ is_writing' = FALSE /\ is_detached' = TRUE
        /\ is_write_end_shutdown' = TRUE /\ parser' = "gone"
    BY <1>2 DEF Abort, Detach
  <2>2. closes' # 0
    BY <1>2 DEF Abort, PostClose, Types, CloseOK
  <2> QED
    BY <2>1, <2>2 DEF OutputInv
<1> QED
  BY <1>1, <1>2

\* send() keeps it: what does not fit waits with the write event enabled.
LEMMA OutputSent ==
    ASSUME Types, LifeInv, OutputInv, Send, process = "running",
           pc = "message", pc' = "answered", parser = "open",
           UNCHANGED <<local_fin, peer, active, in_map>>
    PROVE  OutputInv'
<1> DEFINE sent == SendAsManyData(ReplySize)
<1>0. /\ output \in Nat /\ ReplySize \in Nat /\ sent \in 0 .. ReplySize
      /\ ~ is_write_end_shutdown /\ ~ local_fin
      /\ in_map \/ closes # 0
  BY SentFacts, ConstantFacts DEF Types, BufferOK, LifeInv, OutputInv
<1>1. CASE is_detached
  BY <1>1 DEF Send, pollVars, closeVars, OutputInv
<1>2. CASE ~ is_detached /\ is_writing
  <2>1. UNCHANGED <<is_writing, is_detached, is_write_end_shutdown, parser,
                    closes>>
    BY <1>2 DEF Send, pollVars, closeVars
  <2> QED
    BY <1>0, <1>2, <2>1 DEF OutputInv
<1>3. CASE ~ is_detached /\ ~ is_writing /\ (peer = "reset" \/ local_fin)
  BY <1>3, OutputAborted DEF Send
<1>4. CASE ~ is_detached /\ ~ is_writing /\ ~ (peer = "reset" \/ local_fin)
  <2>1. /\ output' = output + (ReplySize - sent)
        /\ IF sent < ReplySize THEN RegisterEvent(is_reading, TRUE, local_fin)
                               ELSE UNCHANGED pollVars
        /\ UNCHANGED <<is_write_end_shutdown, parser, closes>>
    BY <1>4 DEF Send, closeVars
  <2>2. CASE sent < ReplySize
    <3>1. is_writing' = TRUE
      BY <2>1, <2>2 DEF RegisterEvent
    <3> QED
      BY <1>0, <2>1, <3>1 DEF OutputInv
  <2>3. CASE ~ (sent < ReplySize)
    <3>1. output' = output /\ UNCHANGED <<is_writing, is_detached>>
      BY <1>0, <2>1, <2>3 DEF pollVars
    <3> QED
      BY <1>0, <2>1, <3>1 DEF OutputInv
  <2> QED
    BY <2>2, <2>3
<1> QED
  BY <1>1, <1>2, <1>3, <1>4

\* Every step keeps it.
LEMMA OutputStep ==
    ASSUME Types, QueueInv, LifeInv, OutputInv, [Next]_vars
    PROVE  OutputInv'
<1>0. attached \/ is_reading \/ is_writing => ~ is_detached
  BY DEF LifeInv
<1>1. CASE Poll
  <2>1. /\ process = "running" /\ pc = "poll"
        /\ UNCHANGED <<local_fin, output, is_writing, is_detached, peer, closes,
                       is_write_end_shutdown, parser, in_map>>
    BY <1>1 DEF Poll, kernelVars, bufferVars, closeVars, mainVars
  <2>2. pc' \in {"poll", "close"} /\ (active' = active
           \/ active' = Ready(is_reading, is_writing, local_fin))
    BY <1>1 DEF Poll
  <2>3. "close" \in active' => peer = "reset" \/ local_fin
    BY <2>2 DEF Ready, OutputInv
  <2> QED
    BY <2>1, <2>2, <2>3 DEF OutputInv
<1>2. CASE CloseEvent
  <2>1. /\ process = "running" /\ process' = process /\ pc' = "read"
        /\ UNCHANGED <<local_fin, output, peer, active, is_write_end_shutdown,
                       parser, in_map>>
    BY <1>2 DEF CloseEvent, kernelVars, bufferVars, mainVars
  <2>2. CASE "close" \in active
    <3>1. is_writing' = FALSE /\ is_detached' = TRUE
      BY <1>2, <2>2 DEF CloseEvent, Detach
    <3>2. closes' # 0
      BY <1>2, <2>2 DEF CloseEvent, PostClose, Types, CloseOK
    <3>3. output \in Nat
      BY DEF Types, BufferOK
    <3> QED
      BY <2>1, <2>2, <3>1, <3>2, <3>3 DEF OutputInv
  <2>3. CASE "close" \notin active
    BY <1>2, <2>1, <2>3, OutputKept DEF CloseEvent, pollVars
  <2> QED
    BY <2>2, <2>3
<1>3. CASE ReadEvent
  <2>1. /\ process = "running" /\ pc' \in {"message", "after_read", "write"}
        /\ UNCHANGED <<local_fin, output, peer, active, is_write_end_shutdown,
                       parser, in_map, closes>>
        /\ \/ UNCHANGED pollVars
           \/ RegisterEvent(FALSE, is_writing, local_fin) /\ is_reading
    BY <1>3 DEF ReadEvent, closeVars, mainVars
  <2>2. UNCHANGED <<is_writing, is_detached>>
    BY <1>0, <2>1 DEF pollVars, RegisterEvent, Types, PollOK
  <2> QED
    BY <2>1, <2>2, OutputKept
<1>4. CASE MessageAfterClose
  BY <1>4, OutputKept DEF MessageAfterClose, kernelVars, pollVars, closeVars,
     bufferVars, workerVars, mainVars, OutputInv
<1>5. CASE MessageFails
  BY <1>5, OutputAborted DEF MessageFails, kernelVars, mainVars
<1>6. CASE MessageAnswered
  BY <1>6, OutputSent DEF MessageAnswered, mainVars
<1>7. CASE Answered
  <2>1. /\ process = "running" /\ pc = "answered" /\ process' = process
        /\ pc' \in {"after_read", "shutdown_write"}
        /\ pc' = "shutdown_write" => ~ is_writing
        /\ parser' # parser => ~ is_write_end_shutdown
        /\ UNCHANGED <<local_fin, output, is_writing, is_detached, peer, active,
                       is_write_end_shutdown, in_map, closes>>
    BY <1>7 DEF Answered, kernelVars, pollVars, mainVars
  <2> QED
    BY <2>1 DEF OutputInv
<1>8. CASE AfterRead
  BY <1>8, OutputKept DEF AfterRead, NothingLeft, kernelVars, pollVars,
     closeVars, mainVars
<1>9. CASE ShutdownWrite
  <2>0. /\ pc = "shutdown_write" /\ process = "running"
        /\ pc' \in {"shutdown_write", "after_read", "write", "end"}
        /\ UNCHANGED <<output, peer, active, in_map>> /\ ~ is_writing
        /\ output \in Nat
    BY <1>9 DEF ShutdownWrite, bufferVars, mainVars, Types, WorkerOK, BufferOK,
       OutputInv
  <2>1. CASE is_write_end_shutdown
    BY <1>9, <2>0, <2>1, OutputKept DEF ShutdownWrite, pollVars, closeVars
  <2>2. CASE ~ is_write_end_shutdown /\ peer = "reset"
    BY <1>9, <2>0, <2>2, OutputAborted DEF ShutdownWrite
  <2>3. CASE ~ is_write_end_shutdown /\ peer # "reset"
    <3>1. UNCHANGED <<is_writing, is_detached, closes>>
      BY <1>9, <2>0, <2>3 DEF ShutdownWrite, closeVars
    <3>2. \/ process' = "recursion" /\ UNCHANGED <<is_write_end_shutdown, parser>>
          \/ is_write_end_shutdown' = TRUE /\ parser' = "gone"
      BY <1>9, <2>3 DEF ShutdownWrite, closeVars
    <3>3. output = 0
      BY <2>0, <2>3 DEF OutputInv
    <3> QED
      BY <2>0, <2>3, <3>1, <3>2, <3>3 DEF OutputInv
  <2> QED
    BY <2>1, <2>2, <2>3
<1>10. CASE WriteEvent
  <2> DEFINE sent == SendAsManyData(output)
             done == "write" \notin active \/ is_detached
                       \/ is_write_end_shutdown
             broken == output > 0 /\ (peer = "reset" \/ local_fin)
  <2>0. /\ pc = "write" /\ process = "running"
        /\ UNCHANGED <<local_fin, peer, active, in_map>>
    BY <1>10 DEF WriteEvent, mainVars
  <2>a. output \in Nat /\ sent \in 0 .. output
    BY SentFacts DEF Types, BufferOK
  <2>1. CASE done
    <3>1. pc' = "end" /\ UNCHANGED <<output, pollVars, closeVars>>
      BY <1>10, <2>1 DEF WriteEvent
    <3> QED
      BY <2>0, <3>1, OutputKept DEF pollVars, closeVars
  <2>2. CASE ~ done /\ broken
    <3>1. Abort /\ UNCHANGED output /\ pc' = "end"
      BY <1>10, <2>2 DEF WriteEvent
    <3> QED
      BY <2>0, <3>1, OutputAborted
  <2>3. CASE ~ done /\ ~ broken
    <3>1. /\ UNCHANGED <<is_write_end_shutdown, parser, closes>>
          /\ output' = ForwardReadPosition(output, sent)
          /\ IF sent < output
             THEN pc' = "end" /\ UNCHANGED pollVars
             ELSE /\ pc' = "write_complete"
                  /\ RegisterEvent(is_reading, FALSE, local_fin)
      BY <1>10, <2>3 DEF WriteEvent, closeVars
    <3>2. output' = output - sent
      BY <2>a, <3>1, ForwardFacts
    <3>3. ~ is_write_end_shutdown /\ ~ local_fin /\ ~ is_detached
      BY <2>0, <2>3 DEF OutputInv
    <3>4. CASE sent < output
      <4>1. /\ pc' = "end" /\ UNCHANGED <<is_writing, is_detached>>
            /\ output > 0
        BY <2>a, <3>1, <3>4 DEF pollVars
      <4>2. is_writing
        BY <3>3, <4>1 DEF OutputInv
      <4>3. ~ in_map /\ closes = 0 => FALSE
        BY <4>1 DEF OutputInv
      <4> QED
        BY <2>0, <3>1, <3>3, <4>1, <4>2, <4>3 DEF OutputInv
    <3>5. CASE ~ (sent < output)
      <4>1. pc' = "write_complete" /\ is_writing' = FALSE /\ output' = 0
        BY <2>a, <3>1, <3>2, <3>5 DEF RegisterEvent
      <4> QED
        BY <2>0, <3>1, <3>3, <4>1 DEF OutputInv
    <3> QED
      BY <3>4, <3>5
  <2> QED
    BY <2>1, <2>2, <2>3
<1>11. CASE WriteComplete
  <2>1. ~ is_writing
    BY <1>11 DEF WriteComplete, OutputInv
  <2> QED
    BY <1>11, <2>1, OutputKept DEF WriteComplete, kernelVars, pollVars,
       closeVars, bufferVars, mainVars
<1>12. CASE EndDispatch
  <2>1. /\ process' = process /\ pc' = "poll" /\ active' = {}
        /\ UNCHANGED <<local_fin, output, is_writing, is_detached, peer,
                       is_write_end_shutdown, parser, in_map, closes>>
    BY <1>12 DEF EndDispatch, kernelVars, pollVars, bufferVars, mainVars
  <2> QED
    BY <2>1 DEF OutputInv
<1>13. CASE RunRegister
  <2>1. ~ is_detached
    BY <1>13, FunctorFacts DEF RunRegister, LifeInv
  <2>2. UNCHANGED <<is_writing, is_detached>>
    BY <1>13, <2>1 DEF RunRegister, RegisterEvent, Types, PollOK
  <2> QED
    BY <1>13, <2>2, OutputKept
       DEF RunRegister, kernelVars, closeVars, bufferVars, mainVars
<1>14. ASSUME NEW idle \in BOOLEAN, RunCheck(idle) PROVE OutputInv'
  <2>1. CASE idle
    BY <1>14, <2>1, OutputAborted
       DEF RunCheck, kernelVars, bufferVars, mainVars
  <2>2. CASE ~ idle
    BY <1>14, <2>2, OutputKept
       DEF RunCheck, kernelVars, pollVars, bufferVars, mainVars
  <2> QED
    BY <2>1, <2>2
<1>15. CASE NewConnection
  <2>1. /\ ~ in_map /\ closes = 0 /\ in_map' = TRUE /\ process' = process
        /\ UNCHANGED <<local_fin, output, is_writing, peer, active, pc,
                       is_write_end_shutdown, parser, closes>>
    BY <1>15 DEF NewConnection, kernelVars, bufferVars
  <2>2. output = 0
    BY <2>1 DEF OutputInv
  <2> QED
    BY <2>1, <2>2 DEF OutputInv
<1>16. CASE EraseConnection
  <2>1. closes # 0
    BY <1>16 DEF EraseConnection, LifeInv, Types, CloseOK
  <2>2. /\ process = "running"
        /\ UNCHANGED <<local_fin, output, is_writing, is_detached, peer, active,
                       is_write_end_shutdown, parser, closes, pc>>
    BY <1>16 DEF EraseConnection, kernelVars, pollVars, bufferVars, workerVars
  <2> QED
    BY <2>1, <2>2 DEF OutputInv
<1>17. CASE RemoveInactive
  BY <1>17, OutputKept DEF RemoveInactive, kernelVars, pollVars, closeVars,
     bufferVars, OutputInv
<1>18. ASSUME NEW how \in {"fin", "reset"}, PeerCloses(how) PROVE OutputInv'
  <2>1. /\ peer # "reset" /\ process' = process
        /\ UNCHANGED <<local_fin, output, is_writing, is_detached, active,
                       is_write_end_shutdown, parser, in_map, closes, pc>>
    BY <1>18 DEF PeerCloses, PeerConnected, closeVars, bufferVars, workerVars,
       mainVars
  <2> QED
    BY <2>1 DEF OutputInv
<1>19. CASE \/ \E kind \in Kinds : PeerSends(kind)
            \/ PeerReads \/ UNCHANGED vars
  <2>1. UNCHANGED <<local_fin, output, is_writing, is_detached, peer, active,
                    is_write_end_shutdown, parser, in_map, closes, pc, process>>
    BY <1>19 DEF PeerSends, PeerReads, vars, kernelVars, pollVars, closeVars,
       bufferVars, workerVars, mainVars
  <2> QED
    BY <2>1 DEF OutputInv
<1> QED
  BY <1>1, <1>2, <1>3, <1>4, <1>5, <1>6, <1>7, <1>8, <1>9, <1>10, <1>11, <1>12,
     <1>13, <1>14, <1>15, <1>16, <1>17, <1>18, <1>19 DEF Next, WorkerStep

-----------------------------------------------------------------------------
(* One close *)

\* Every step keeps it: an event of the peer's end comes with the end of the
\* output, after which no message is answered, and a message that does not
\* parse is the first thing that closes the connection.
LEMMA OnceStep ==
    ASSUME Types, QueueInv, LifeInv, OutputInv, OnceInv, [Next]_vars
    PROVE  OnceInv'
<1>0. /\ attached \/ is_reading \/ is_writing => ~ is_detached
      /\ ~ is_detached => closes = 0
      /\ closes \in Nat
  BY DEF LifeInv, Types, CloseOK
<1>1. CASE CloseEvent
  <2>1. /\ process = "running" /\ pc = "close"
        /\ UNCHANGED <<peer, checks, parser, is_write_end_shutdown>>
    BY <1>1 DEF CloseEvent, kernelVars, mainVars
  <2>2. CASE "close" \in active
    <3>1. closes = 0
      BY <1>0, <2>1 DEF LifeInv
    <3>2. closes' = closes + 1 /\ is_detached' = TRUE
      BY <1>1, <2>2 DEF CloseEvent, Detach, PostClose
    <3>3. peer # "reset" => parser = "gone"
      BY <2>1, <2>2 DEF OutputInv
    <3> QED
      BY <2>1, <3>1, <3>2, <3>3 DEF OnceInv
  <2>3. CASE "close" \notin active
    BY <1>1, <2>1, <2>3 DEF CloseEvent, pollVars, OnceInv
  <2> QED
    BY <2>2, <2>3
<1>2. ASSUME Abort, UNCHANGED <<peer, checks>>,
             peer = "reset" \/ checks > 0 \/ closes = 0
      PROVE  OnceInv'
  <2>1. CASE is_aborted
    BY <1>2, <2>1 DEF Abort, pollVars, closeVars, OnceInv
  <2>2. CASE ~ is_aborted
    <3>1. closes' = closes + 1 /\ is_detached' = TRUE /\ parser' = "gone"
      BY <1>2, <2>2 DEF Abort, Detach, PostClose
    <3>2. checks \in Nat
      BY ConstantFacts DEF Types, MainOK
    <3> QED
      BY <1>0, <1>2, <3>1, <3>2 DEF OnceInv
  <2> QED
    BY <2>1, <2>2
<1>3. ASSUME parser = "open"
      PROVE  peer = "reset" \/ checks > 0 \/ closes = 0
  <2>1. checks \in Nat
    BY ConstantFacts DEF Types, MainOK
  <2> QED
    BY <1>0, <1>3, <2>1 DEF OnceInv
<1>4. CASE MessageFails
  BY <1>2, <1>3, <1>4 DEF MessageFails, kernelVars, mainVars
<1>5. CASE MessageAnswered
  <2>1. UNCHANGED <<peer, checks>> /\ parser = "open"
    BY <1>5 DEF MessageAnswered, mainVars
  <2>2. \/ Abort
        \/ UNCHANGED closeVars /\ UNCHANGED pollVars
        \/ /\ UNCHANGED closeVars /\ ~ is_detached
    BY <1>5 DEF MessageAnswered, Send
  <2>3. CASE Abort
    BY <1>2, <1>3, <2>1, <2>3
  <2>4. CASE UNCHANGED closeVars /\ UNCHANGED pollVars
    BY <2>1, <2>4 DEF closeVars, pollVars, OnceInv
  <2>5. CASE UNCHANGED closeVars /\ ~ is_detached
    BY <1>0, <2>1, <2>5 DEF closeVars, OnceInv
  <2> QED
    BY <2>2, <2>3, <2>4, <2>5
<1>6. CASE Answered
  <2>1. /\ pc = "answered" /\ UNCHANGED <<peer, checks, closes, is_detached>>
        /\ parser' # parser => ~ is_write_end_shutdown
    BY <1>6 DEF Answered, kernelVars, pollVars, mainVars
  <2>2. parser' # parser => parser = "open"
    BY <2>1 DEF OutputInv
  <2> QED
    BY <2>1, <2>2 DEF OnceInv
<1>7. CASE ShutdownWrite
  <2>1. UNCHANGED <<peer, checks>>
    BY <1>7 DEF ShutdownWrite, mainVars
  <2>2. ~ is_writing
    BY <1>7 DEF ShutdownWrite, OutputInv
  <2>3. \/ peer = "reset" /\ Abort
        \/ /\ UNCHANGED <<closes, is_detached>>
           /\ parser' = parser \/ parser' = "gone"
    BY <1>7, <2>2 DEF ShutdownWrite, pollVars, closeVars
  <2> QED
    BY <1>2, <2>1, <2>3 DEF OnceInv
<1>8. CASE WriteEvent
  <2>1. UNCHANGED <<peer, checks>> /\ process = "running"
    BY <1>8 DEF WriteEvent, mainVars
  <2>2. \/ Abort /\ output > 0 /\ (peer = "reset" \/ local_fin)
        \/ UNCHANGED <<closes, is_detached, parser>>
        \/ UNCHANGED <<closes, parser>> /\ ~ is_detached
    BY <1>8 DEF WriteEvent, pollVars, closeVars
  <2>3. CASE Abort /\ output > 0 /\ (peer = "reset" \/ local_fin)
    <3>1. local_fin => output = 0
      BY DEF OutputInv
    <3>2. peer = "reset"
      BY <2>3, <3>1
    <3> QED
      BY <1>2, <2>1, <2>3, <3>2
  <2>4. CASE UNCHANGED <<closes, is_detached, parser>>
    BY <2>1, <2>4 DEF OnceInv
  <2>5. CASE UNCHANGED <<closes, parser>> /\ ~ is_detached
    BY <1>0, <2>1, <2>5 DEF OnceInv
  <2> QED
    BY <2>2, <2>3, <2>4, <2>5
<1>9. CASE ReadEvent
  <2>1. /\ UNCHANGED <<peer, checks, closes, parser>>
        /\ is_detached' = is_detached \/ is_reading
    BY <1>9 DEF ReadEvent, closeVars, mainVars, pollVars
  <2> QED
    BY <1>0, <2>1 DEF OnceInv
<1>10. CASE RunRegister
  <2>1. ~ is_detached
    BY <1>10, FunctorFacts DEF RunRegister, LifeInv
  <2> QED
    BY <1>0, <1>10, <2>1
       DEF RunRegister, kernelVars, closeVars, mainVars, OnceInv
<1>11. ASSUME NEW idle \in BOOLEAN, RunCheck(idle) PROVE OnceInv'
  <2>1. checks > 0 /\ UNCHANGED <<peer, checks>>
    BY <1>11, FunctorFacts DEF RunCheck, kernelVars, mainVars
  <2>2. checks \in Nat
    BY ConstantFacts DEF Types, MainOK
  <2> QED
    BY <2>1, <2>2 DEF OnceInv
<1>12. CASE RemoveInactive
  <2>1. checks' = checks + 1 /\ checks \in Nat
    BY <1>12, ConstantFacts DEF RemoveInactive, Types, MainOK
  <2> QED
    BY <2>1 DEF OnceInv
<1>13. CASE NewConnection
  BY <1>0, <1>13 DEF NewConnection, OnceInv
<1>14. ASSUME NEW how \in {"fin", "reset"}, PeerCloses(how) PROVE OnceInv'
  BY <1>14 DEF PeerCloses, PeerConnected, closeVars, mainVars, OnceInv
<1>15. CASE \/ Poll \/ MessageAfterClose \/ AfterRead \/ WriteComplete
            \/ EndDispatch \/ EraseConnection
            \/ \E kind \in Kinds : PeerSends(kind)
            \/ PeerReads \/ UNCHANGED vars
  <2>1. UNCHANGED <<peer, checks, closes, is_detached, parser>>
    BY <1>15 DEF Poll, MessageAfterClose, AfterRead, WriteComplete,
       EndDispatch, EraseConnection, PeerSends, PeerReads, vars, kernelVars,
       pollVars, closeVars, mainVars
  <2> QED
    BY <2>1 DEF OnceInv
<1> QED
  BY <1>1, <1>4, <1>5, <1>6, <1>7, <1>8, <1>9, <1>10, <1>11, <1>12, <1>13,
     <1>14, <1>15 DEF Next, WorkerStep

-----------------------------------------------------------------------------
(* The ready list *)

\* Ready() is empty exactly when nothing asked for is ready.
LEMMA ReadyFacts ==
    ASSUME NEW r \in BOOLEAN, NEW w \in BOOLEAN, NEW f \in BOOLEAN
    PROVE  /\ "close" \in Ready(r, w, f) <=>
                 peer = "reset" \/ (peer = "fin" /\ f)
           /\ "read" \in Ready(r, w, f) <=>
                 r /\ (unread # <<>> \/ peer # "open")
           /\ "write" \in Ready(r, w, f) <=>
                 w /\ (backlog < SendRoom \/ f \/ peer = "reset")
BY DEF Ready

\* EPOLL_CTL_ADD and MOD put a descriptor that is ready on the ready list.
LEMMA EdgeRegistered ==
    ASSUME NEW r \in BOOLEAN, NEW w \in BOOLEAN, NEW f \in BOOLEAN,
           RegisterEvent(r, w, f), local_fin' = f, peer' = peer,
           r => unread' = unread, w => (backlog' < SendRoom => backlog < SendRoom)
    PROVE  EdgeInv'
<1>1. /\ is_reading' = r /\ is_writing' = w
      /\ edge' = (edge \/ Ready(r, w, f) # {})
  BY DEF RegisterEvent
<1>2. HangUp' => "close" \in Ready(r, w, f)
  BY ReadyFacts DEF HangUp
<1>3. Readable' => "read" \in Ready(r, w, f)
  BY <1>1, ReadyFacts DEF Readable
<1>4. Writable' => "write" \in Ready(r, w, f)
  BY <1>1, ReadyFacts DEF Writable
<1>5. HangUp' \/ Readable' \/ Writable' => edge' = TRUE
  BY <1>1, <1>2, <1>3, <1>4
<1> QED
  BY <1>5 DEF EdgeInv

\* A step of the dispatch past the events that are still unhandled.
LEMMA EdgeKept ==
    ASSUME EdgeInv, process = "running",
           UNCHANGED <<attached, is_reading, is_writing, edge, peer, local_fin,
                       unread, active>>,
           backlog' < SendRoom => backlog < SendRoom,
           pc \in {"message", "answered", "after_read", "shutdown_write",
                   "write", "write_complete", "end"},
           \/ pc' = pc
           \/ pc' \in {"message", "answered", "after_read", "write"}
           \/ ~ attached \/ ~ is_writing \/ "write" \notin active
    PROVE  EdgeInv'
BY DEF EdgeInv, HangUp, Readable, Writable

\* abort_from_event_loop() takes the descriptor off.
LEMMA EdgeAborted ==
    ASSUME Abort
    PROVE  EdgeInv'
<1>1. CASE is_aborted
  BY <1>1 DEF Abort, EdgeInv
<1>2. CASE ~ is_aborted
  BY <1>2 DEF Abort, Detach, EdgeInv
<1> QED
  BY <1>1, <1>2

\* Every step of the worker keeps it.
LEMMA WorkerEdgeStep ==
    ASSUME Types, QueueInv, LifeInv, OutputInv, EdgeInv, WorkerStep
    PROVE  EdgeInv'
<1>0. /\ local_fin \in BOOLEAN /\ is_reading \in BOOLEAN
      /\ is_writing \in BOOLEAN /\ edge \in BOOLEAN
      /\ backlog \in Nat /\ SendRoom \in Nat /\ output \in Nat
      /\ attached => ~ is_detached
  BY ConstantFacts DEF Types, KernelOK, PollOK, BufferOK, LifeInv
<1>1. CASE Poll
  <2> DEFINE events == Ready(is_reading, is_writing, local_fin)
  <2>1. /\ UNCHANGED <<attached, is_reading, is_writing, peer, local_fin, unread,
                       backlog>>
        /\ IF events = {} THEN TRUE ELSE active' = events /\ pc' = "close"
    BY <1>1 DEF Poll, kernelVars
  <2>2. /\ HangUp' => "close" \in events
        /\ Readable' => "read" \in events
        /\ Writable' => "write" \in events
    BY <1>0, <2>1, ReadyFacts DEF HangUp, Readable, Writable
  <2> QED
    BY <2>1, <2>2 DEF EdgeInv
<1>2. CASE CloseEvent
  <2>1. CASE "close" \in active
    BY <1>2, <2>1 DEF CloseEvent, Detach, EdgeInv
  <2>2. CASE "close" \notin active
    <3>1. /\ process = "running" /\ pc = "close" /\ pc' = "read"
          /\ UNCHANGED <<attached, is_reading, is_writing, edge, peer, local_fin,
                         unread, backlog, active>>
      BY <1>2, <2>2 DEF CloseEvent, pollVars, kernelVars
    <3> QED
      BY <2>2, <3>1 DEF EdgeInv, HangUp, Readable, Writable
  <2> QED
    BY <2>1, <2>2
<1>3. CASE ReadEvent
  <2>0. /\ process = "running" /\ pc = "read"
        /\ UNCHANGED <<peer, local_fin, backlog, active>>
    BY <1>3 DEF ReadEvent
  <2>1. CASE "read" \in active
    <3>1. unread' = <<>>
      <4>1. unread' = SubSeq(unread, Len(unread) + 1, Len(unread))
        BY <1>3, <2>1 DEF ReadEvent, ReceiveAll
      <4> QED
        BY <4>1, Lengths
    <3>2. /\ pc' \in {"message", "after_read"}
          /\ IF peer # "open" /\ unread' = <<>> /\ is_reading
             THEN RegisterEvent(FALSE, is_writing, local_fin)
             ELSE UNCHANGED pollVars
      BY <1>3, <2>1 DEF ReadEvent
    <3>3. CASE peer # "open" /\ is_reading
      BY <1>0, <2>0, <3>1, <3>2, <3>3, EdgeRegistered
    <3>4. CASE ~ (peer # "open" /\ is_reading)
      <4>1. UNCHANGED <<attached, is_reading, is_writing, edge>>
        BY <3>2, <3>4 DEF pollVars
      <4>2. ~ Readable'
        BY <2>0, <3>1, <3>4, <4>1 DEF Readable
      <4>3. HangUp' = HangUp /\ Writable' = Writable
        BY <2>0, <4>1 DEF HangUp, Writable
      <4> QED
        BY <2>0, <3>2, <4>1, <4>2, <4>3 DEF EdgeInv
    <3> QED
      BY <3>3, <3>4
  <2>2. CASE "read" \notin active
    <3>1. /\ pc' = "write"
          /\ UNCHANGED <<attached, is_reading, is_writing, edge, unread>>
      BY <1>3, <2>2 DEF ReadEvent, pollVars
    <3> QED
      BY <2>0, <2>2, <3>1 DEF EdgeInv, HangUp, Readable, Writable
  <2> QED
    BY <2>1, <2>2
<1>4. CASE MessageAfterClose
  BY <1>4 DEF MessageAfterClose, EdgeInv
<1>5. CASE MessageFails
  BY <1>5, EdgeAborted DEF MessageFails
<1>6. CASE MessageAnswered
  <2> DEFINE sent == SendAsManyData(ReplySize)
  <2>0. /\ process = "running" /\ pc = "message" /\ pc' = "answered" /\ Send
        /\ UNCHANGED <<unread, peer, local_fin, active>>
    BY <1>6 DEF MessageAnswered
  <2>1. sent \in Nat
    BY SentFacts, ConstantFacts
  <2>2. \/ UNCHANGED <<backlog, pollVars>>
        \/ Abort
        \/ /\ backlog' = backlog + sent
           /\ \/ RegisterEvent(is_reading, TRUE, local_fin)
              \/ UNCHANGED pollVars
    BY <2>0 DEF Send
  <2>3. CASE Abort
    BY <2>3, EdgeAborted
  <2>4. CASE RegisterEvent(is_reading, TRUE, local_fin) /\ backlog' = backlog + sent
    <3>1. backlog' < SendRoom => backlog < SendRoom
      BY <1>0, <2>1, <2>4
    <3> QED
      BY <1>0, <2>0, <2>4, <3>1, EdgeRegistered
  <2>5. CASE UNCHANGED pollVars /\ (backlog' = backlog + sent \/ backlog' = backlog)
    <3>1. backlog' < SendRoom => backlog < SendRoom
      BY <1>0, <2>1, <2>5
    <3> QED
      BY <2>0, <2>5, <3>1, EdgeKept DEF pollVars
  <2> QED
    BY <2>2, <2>3, <2>4, <2>5
<1>7. CASE Answered
  <2>1. /\ process = "running" /\ pc = "answered"
        /\ pc' = "after_read" \/ ~ is_writing
        /\ UNCHANGED <<attached, is_reading, is_writing, edge, peer, local_fin,
                       unread, backlog, active>>
    BY <1>7 DEF Answered, kernelVars, pollVars
  <2> QED
    BY <2>1, EdgeKept
<1>8. CASE AfterRead
  <2>1. /\ process = "running" /\ pc = "after_read"
        /\ pc' = "write" \/ ~ is_writing
        /\ UNCHANGED <<attached, is_reading, is_writing, edge, peer, local_fin,
                       unread, backlog, active>>
    BY <1>8 DEF AfterRead, NothingLeft, kernelVars, pollVars
  <2> QED
    BY <2>1, EdgeKept
<1>9. CASE ShutdownWrite
  <2>0. /\ process = "running" /\ pc = "shutdown_write" /\ ~ is_writing
        /\ UNCHANGED <<unread, peer, backlog, active>>
    BY <1>9 DEF ShutdownWrite, OutputInv
  <2>1. \/ UNCHANGED <<local_fin, pollVars>>
        \/ Abort
        \/ edge' = attached /\ attached' = attached
    BY <1>9, <2>0 DEF ShutdownWrite
  <2>2. CASE UNCHANGED <<local_fin, pollVars>>
    BY <2>0, <2>2, EdgeKept DEF pollVars
  <2>3. CASE Abort
    BY <2>3, EdgeAborted
  <2>4. CASE edge' = attached /\ attached' = attached
    BY <2>4 DEF EdgeInv
  <2> QED
    BY <2>1, <2>2, <2>3, <2>4
<1>10. CASE WriteEvent
  <2> DEFINE sent == SendAsManyData(output)
             done == "write" \notin active \/ is_detached
                       \/ is_write_end_shutdown
             broken == output > 0 /\ (peer = "reset" \/ local_fin)
  <2>0. /\ process = "running" /\ pc = "write"
        /\ UNCHANGED <<unread, peer, local_fin, active>>
    BY <1>10 DEF WriteEvent
  <2>1. CASE done
    <3>1. UNCHANGED <<backlog, pollVars>>
      BY <1>10, <2>1 DEF WriteEvent
    <3>2. ~ attached \/ ~ is_writing \/ "write" \notin active
      BY <1>0, <2>1 DEF OutputInv
    <3> QED
      BY <2>0, <3>1, <3>2, EdgeKept DEF pollVars
  <2>2. CASE ~ done /\ broken
    BY <1>10, <2>2, EdgeAborted DEF WriteEvent
  <2>3. CASE ~ done /\ ~ broken
    <3>1. /\ backlog' = backlog + sent
          /\ IF sent < output
             THEN pc' = "end" /\ UNCHANGED pollVars
             ELSE RegisterEvent(is_reading, FALSE, local_fin)
      BY <1>10, <2>3 DEF WriteEvent
    <3>2. CASE sent < output
      <4>1. backlog' = SendRoom
        BY <1>0, <3>1, <3>2, SentFacts
      <4>2. sent \in 0 .. output
        BY <1>0, SentFacts
      <4>3. output > 0
        BY <1>0, <3>2, <4>2
      <4>4. UNCHANGED <<attached, is_reading, is_writing, edge>>
        BY <3>1, <3>2 DEF pollVars
      <4>5. ~ (backlog' < SendRoom)
        BY <1>0, <4>1
      <4>6. ~ Writable'
        BY <2>0, <2>3, <4>3, <4>5 DEF Writable
      <4>7. HangUp' = HangUp /\ Readable' = Readable
        BY <2>0, <4>4 DEF HangUp, Readable
      <4> QED
        BY <2>0, <4>4, <4>6, <4>7 DEF EdgeInv
    <3>3. CASE ~ (sent < output)
      BY <1>0, <2>0, <3>1, <3>3, EdgeRegistered
    <3> QED
      BY <3>2, <3>3
  <2> QED
    BY <2>1, <2>2, <2>3
<1>11. CASE WriteComplete
  <2>1. ~ is_writing
    BY <1>11 DEF WriteComplete, OutputInv
  <2>2. /\ process = "running" /\ pc = "write_complete"
        /\ UNCHANGED <<attached, is_reading, is_writing, edge, peer, local_fin,
                       unread, backlog, active>>
    BY <1>11 DEF WriteComplete, kernelVars, pollVars
  <2> QED
    BY <2>1, <2>2, EdgeKept
<1>12. CASE EndDispatch
  <2>1. /\ process = "running" /\ pc = "end"
        /\ UNCHANGED <<attached, is_reading, is_writing, edge, peer, local_fin,
                       unread, backlog>>
    BY <1>12 DEF EndDispatch, kernelVars, pollVars
  <2> QED
    BY <2>1 DEF EdgeInv, HangUp, Readable, Writable
<1>13. CASE RunRegister
  BY <1>0, <1>13, EdgeRegistered DEF RunRegister, kernelVars
<1>14. ASSUME NEW idle \in BOOLEAN, RunCheck(idle) PROVE EdgeInv'
  <2>1. CASE idle
    BY <1>14, <2>1, EdgeAborted DEF RunCheck
  <2>2. CASE ~ idle
    BY <1>14, <2>2 DEF RunCheck, pollVars, kernelVars, EdgeInv, HangUp,
       Readable, Writable
  <2> QED
    BY <2>1, <2>2
<1> QED
  BY <1>1, <1>2, <1>3, <1>4, <1>5, <1>6, <1>7, <1>8, <1>9, <1>10, <1>11, <1>12,
     <1>13, <1>14 DEF WorkerStep

\* Every step keeps it.
LEMMA EdgeStep ==
    ASSUME Types, QueueInv, LifeInv, OutputInv, EdgeInv, [Next]_vars
    PROVE  EdgeInv'
<1>0. edge \in BOOLEAN /\ attached \in BOOLEAN /\ is_reading \in BOOLEAN
      /\ is_writing \in BOOLEAN
  BY DEF Types, PollOK
<1>1. CASE NewConnection
  <2>1. ~ attached /\ attached' = attached
    BY <1>1 DEF NewConnection, LifeInv
  <2> QED
    BY <2>1 DEF EdgeInv
<1>2. CASE EraseConnection \/ RemoveInactive
  <2>1. /\ process = "running"
        /\ UNCHANGED <<attached, is_reading, is_writing, edge, peer, local_fin,
                       unread, backlog, active, pc>>
    BY <1>2 DEF EraseConnection, RemoveInactive, kernelVars, pollVars,
       workerVars
  <2> QED
    BY <2>1 DEF EdgeInv, HangUp, Readable, Writable
<1>3. ASSUME NEW kind \in Kinds, PeerSends(kind) PROVE EdgeInv'
  <2>1. /\ process = "running" /\ edge' = (edge \/ (attached /\ is_reading))
        /\ UNCHANGED <<attached, is_reading, is_writing, peer, local_fin,
                       backlog, active, pc>>
    BY <1>3 DEF PeerSends, PeerConnected, workerVars
  <2>2. attached' /\ Readable' => edge'
    BY <1>0, <2>1 DEF Readable
  <2>3. HangUp' = HangUp /\ Writable' = Writable
    BY <2>1 DEF HangUp, Writable
  <2>4. edge => edge'
    BY <1>0, <2>1
  <2> QED
    BY <2>1, <2>2, <2>3, <2>4 DEF EdgeInv
<1>4. ASSUME NEW how \in {"fin", "reset"}, PeerCloses(how) PROVE EdgeInv'
  <2>1. edge' = (edge \/ attached) /\ attached' = attached
    BY <1>4 DEF PeerCloses
  <2>2. attached' => edge'
    BY <1>0, <2>1
  <2> QED
    BY <2>2 DEF EdgeInv
<1>5. CASE PeerReads
  <2>1. /\ process = "running" /\ edge' = (edge \/ (attached /\ is_writing))
        /\ UNCHANGED <<attached, is_reading, is_writing, peer, local_fin,
                       unread, active, pc>>
    BY <1>5 DEF PeerReads, PeerConnected, workerVars
  <2>2. attached' /\ Writable' => edge'
    BY <1>0, <2>1 DEF Writable
  <2>3. HangUp' = HangUp /\ Readable' = Readable
    BY <2>1 DEF HangUp, Readable
  <2>4. edge => edge'
    BY <1>0, <2>1
  <2> QED
    BY <2>1, <2>2, <2>3, <2>4 DEF EdgeInv
<1>6. CASE UNCHANGED vars
  BY <1>6 DEF vars, kernelVars, pollVars, workerVars, EdgeInv, HangUp, Readable,
     Writable
<1> QED
  BY <1>1, <1>2, <1>3, <1>4, <1>5, <1>6, WorkerEdgeStep DEF Next

-----------------------------------------------------------------------------
(* The theorems *)

\* The inductive invariant holds in every reachable state.
LEMMA ConnectionInvariant == Spec => []ConnectionInv
<1>1. Init => ConnectionInv
  <2> SUFFICES ASSUME Init PROVE ConnectionInv
    OBVIOUS
  <2>1. KernelOK /\ PollOK /\ CloseOK /\ MainOK
    <3>1. 0 \in 0 .. SendRoom /\ 0 \in 0 .. MaxRequests /\ 0 \in 0 .. MaxChecks
      BY ConstantFacts
    <3>2. KernelOK
      <4>1. /\ unread = <<>> /\ peer = "open" /\ local_fin = FALSE
            /\ backlog = 0 /\ requests = 0
        BY DEF Init
      <4>2. unread \in Seq(Kinds)
        BY <4>1
      <4> QED
        BY <3>1, <4>1, <4>2 DEF KernelOK
    <3>3. MainOK
      BY <3>1 DEF Init, MainOK
    <3> QED
      BY <3>2, <3>3 DEF Init, PollOK, CloseOK
  <2>2. BufferOK /\ WorkerOK /\ process \in Outcomes
    BY StateNames DEF Init, BufferOK, WorkerOK
  <2>3. QueueInv /\ LifeInv
    BY DEF Init, QueueInv, LifeInv, Registering
  <2>4. OutputInv /\ OnceInv /\ EdgeInv
    BY DEF Init, OutputInv, OnceInv, EdgeInv
  <2>5. CountInv
    <3>1. /\ Len(unread) = 0 /\ Len(input) = 0 /\ pc = "poll"
          /\ output = 0 /\ requests = 0
      BY DEF Init
    <3>2. Answers = 0
      <4>1. Answers = 0 - (0 + 0) + 0
        BY <3>1 DEF Answers
      <4> QED
        BY <4>1
    <3> QED
      BY <3>1, <3>2, ConstantFacts DEF CountInv
  <2> QED
    BY <2>1, <2>2, <2>3, <2>4, <2>5 DEF ConnectionInv, Types
<1>2. ConnectionInv /\ [Next]_vars => ConnectionInv'
  BY TypeStep, CountStep, QueueStep, LifeStep, OutputStep, OnceStep, EdgeStep
     DEF ConnectionInv
<1> QED
  BY <1>1, <1>2, PTL DEF Spec

\* The variables keep their types; in particular the output never exceeds the
\* replies to the requests sent so far (TypeOK).
THEOREM TypeCorrect == Spec => []TypeOK
<1>1. ConnectionInv => TypeOK
  <2> SUFFICES ASSUME ConnectionInv PROVE TypeOK
    OBVIOUS
  <2>1. Types /\ CountInv
    BY DEF ConnectionInv
  <2>2. /\ Answers \in Nat /\ Answers <= MaxRequests /\ output \in Nat
        /\ output <= ReplySize * Answers
    BY <2>1, AnswersType, ConstantFacts
       DEF CountInv, Types, BufferOK, KernelOK
  <2>3. output <= ReplySize * MaxRequests
    BY <2>2, Product, ConstantFacts
  <2>4. output \in 0 .. ReplySize * MaxRequests
    <3>1. ReplySize * MaxRequests \in Nat
      BY ConstantFacts
    <3> QED
      BY <2>2, <2>3, <3>1
  <2> QED
    BY <2>1, <2>4 DEF TypeOK, Types, KernelOK, PollOK, CloseOK, BufferOK,
       WorkerOK, MainOK
<1> QED
  BY <1>1, ConnectionInvariant, PTL

\* Whenever the worker waits in epoll_wait() with an open connection, what is
\* ready is on the ready list and unsent output has the write event enabled
\* (_read_event_callback, send, _write_event_callback, _register_event).
THEOREM EventsAreNotLost == Spec => []NothingStuck
<1>1. ConnectionInv => NothingStuck
  <2> SUFFICES ASSUME ConnectionInv, process = "running", pc = "poll", in_map,
                      ~ is_detached
               PROVE  /\ \/ attached
                         \/ \E i \in DOMAIN functors : functors[i] = "register"
                      /\ output > 0 => is_writing
                      /\ attached /\ Ready(is_reading, is_writing, local_fin) # {}
                            => edge
    BY DEF NothingStuck
  <2>1. Types /\ LifeInv /\ OutputInv /\ EdgeInv
    BY DEF ConnectionInv
  <2>2. attached \/ \E i \in DOMAIN functors : functors[i] = "register"
    <3>1. attached \/ Registering
      BY <2>1 DEF LifeInv
    <3>2. functors # <<>> => 1 \in DOMAIN functors
      BY <2>1 DEF Types, WorkerOK
    <3> QED
      BY <3>1, <3>2 DEF Registering
  <2>3. output > 0 => is_writing
    BY <2>1 DEF OutputInv
  <2>4. Ready(is_reading, is_writing, local_fin) # {} =>
            HangUp \/ Readable \/ Writable
    BY DEF Ready, HangUp, Readable, Writable
  <2>5. attached /\ (HangUp \/ Readable \/ Writable) => edge
    BY <2>1 DEF EdgeInv
  <2> QED
    BY <2>2, <2>3, <2>4, <2>5
<1> QED
  BY <1>1, ConnectionInvariant, PTL

\* When the write end is shut down, every reply was handed to the socket
\* (shutdown_write, the tests after a read and after the last write).
THEOREM RepliesAreNotCutOff == Spec => []NothingCutOff
<1>1. ConnectionInv => NothingCutOff
  BY DEF ConnectionInv, OutputInv, NothingCutOff
<1> QED
  BY <1>1, ConnectionInvariant, PTL

\* No event is dispatched to a destroyed connection, and a descriptor in epoll
\* is open and has an owner (detach_from_poller, ~TcpConnectSocketfd, the
\* functor of the close callback).
THEOREM EventsFindTheirConnection == Spec => []NoDanglingEvent
<1>1. ConnectionInv => NoDanglingEvent
  BY DEF ConnectionInv, LifeInv, NoDanglingEvent, Alive
<1> QED
  BY <1>1, ConnectionInvariant, PTL

\* Without a reset and without a check for inactivity, the close callback is
\* called at most once (_close_event_callback, abort_from_event_loop).
THEOREM OrderlyConnectionsCloseOnce == Spec => []OrderlyCloseOnce
<1>1. ConnectionInv => OrderlyCloseOnce
  <2> SUFFICES ASSUME ConnectionInv, peer # "reset", checks = 0
               PROVE  closes <= 1
    BY DEF OrderlyCloseOnce
  <2>1. closes \in Nat /\ (closes > 0 => closes = 1)
    BY DEF ConnectionInv, Types, CloseOK, OnceInv
  <2> QED
    BY <2>1
<1> QED
  BY <1>1, ConnectionInvariant, PTL
=============================================================================
