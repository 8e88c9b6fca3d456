--------------------------- MODULE TcpServerProofs ---------------------------
(***************************************************************************)
(* Proofs about TcpServer, for any number of workers and connections, any  *)
(* capacity of the queues and any limits of accept() and of descriptors.   *)
(*                                                                         *)
(* StartInv and StopInv say how far the main thread's start() and stop()   *)
(* have got relative to the workers: they show that a loop exists whenever *)
(* its queue is used.  A connection is given to the worker its identifier  *)
(* selects and stays with it (OwnInv), in one place at a time (PlaceInv),  *)
(* and the map holds what is in some place (MapInv), except that a         *)
(* connection the peer has reset may leave a close functor behind.         *)
(* ServedInv tells the connections a worker served from those it           *)
(* registered on its way out.                                              *)
(***************************************************************************)
EXTENDS TcpServer, FiniteSetTheorems, TLAPS

Unborn == {"none", "created", "make loop"}

Starting == {"start", "start thread", "await tid", "await loop"}

Closers == {"close", "close again"}

\* Clients are accepted once each, and no more than the limit in one callback.
CountInv ==
    /\ backlog + next_id <= arrivals
    /\ main_pc = "register" => next_id > 0 /\ accepted_now < AcceptLimit

\* start() waits for each loop before it starts the next thread.
StartInv ==
    /\ \A w \in Workers : loop_ptr[w] <=> worker_pc[w] \notin Unborn
    /\ main_pc \in Starting =>
          \A w \in Workers : /\ w > starting => worker_pc[w] = "none"
                             /\ w < starting => loop_ptr[w]
    /\ main_pc \in {"start", "start thread"} => worker_pc[starting] = "none"
    /\ main_pc \notin Starting => \A w \in Workers : loop_ptr[w]

\* stop() closes the listen socket before it stops a loop, and joins all loops
\* before the main loop ends.
StopInv ==
    /\ main_pc \in {"accept", "register"} => ~ listen_is_stopped
    /\ \A w \in Workers :
          /\ need_stop[w] => listen_is_stopped
          /\ worker_pc[w] \in {"exit", "exited"} => need_stop[w]
    /\ main_need_stop => IsJoinable
    /\ main_pc \in {"exited", "done", "advance"} =>
          main_need_stop /\ \A w \in Workers : main_queues[w] = <<>>

\* What a worker holds in each state of its loop.
WorkerInv ==
    \A w \in Workers :
        /\ closing[w] # NoConnection <=> worker_pc[w] \in Closers
        /\ batch[w] # <<>> => worker_pc[w] \in {"functors", "exit"}
        /\ worker_active[w] # {} => worker_pc[w] \in Closers \cup {"dispatch"}
        /\ worker_active[w] \subseteq registered[w]
        /\ worker_queues[w] # <<>> => worker_pc[w] \notin Unborn
        /\ worker_pc[w] \in {"exit", "exited"} => worker_queues[w] = <<>>
        /\ worker_pc[w] = "exited" => registered[w] = {}

\* The places of a connection.
Registering == IF main_pc = "register" THEN {next_id - 1} ELSE {}
Queued(w) == ToSet(worker_queues[w])
Popped(w) == ToSet(batch[w])
Closing(w) == IF worker_pc[w] = "close" THEN {closing[w]} ELSE {}
Closed(w) == ToSet(main_queues[w])
Open(w) == Queued(w) \cup Popped(w) \cup registered[w] \cup Closing(w)
With(w) == Open(w) \cup Closed(w)

\* A reset connection whose close callback is about to run once more.
Again(w) == IF worker_pc[w] = "close again" THEN {closing[w]} ELSE {}

\* The identifiers below this one have been handed to a worker.
HandedOut == IF main_pc = "register" THEN next_id - 1 ELSE next_id

\* A connection is with the worker that get_next_loop() chose for it.
OwnInv ==
    /\ \A w \in Workers :
          \A c \in With(w) \cup Again(w) :
              c \in 0 .. HandedOut - 1 /\ WorkerOf(c) = w
    /\ left_behind \cup served \cup reset \subseteq 0 .. HandedOut - 1

\* Only elements of R are in the queue q more than once.
RepeatsOnly(q, R) ==
    \A i, j \in DOMAIN q : i # j /\ q[i] = q[j] => q[i] \in R

\* It is in one place of that worker, and once, or it has been reset: then its
\* close functors are all that is left of it.
OnePlace(w) ==
    /\ IsInjective(worker_queues[w])
    /\ IsInjective(batch[w])
    /\ RepeatsOnly(main_queues[w], reset)
    /\ Queued(w) \cap (Popped(w) \cup registered[w] \cup Closing(w)
                         \cup Closed(w)) = {}
    /\ Popped(w) \cap (registered[w] \cup Closing(w) \cup Closed(w)) = {}
    /\ registered[w] \cap (Closing(w) \cup Closed(w)) = {}
    /\ Closing(w) \cap Closed(w) = {}
    /\ left_behind \cap With(w) = {}
    /\ reset \cap Open(w) = {} /\ Again(w) \subseteq reset

PlaceInv == (\A w \in Workers : OnePlace(w)) /\ reset \cap left_behind = {}

\* c is on its way through the two threads.
InSomePlace(c) == \/ c \in Registering \cup left_behind
                  \/ \E w \in Workers : c \in With(w)

\* The map holds the connections that are in some place, until it is destroyed;
\* only a reset one may have a close functor and not be in the map.
MapInv ==
    main_pc \notin {"done", "advance"} =>
        \A c \in Connections :
            /\ c \in tcp_connect_socketfds => InSomePlace(c)
            /\ InSomePlace(c) => c \in tcp_connect_socketfds \cup reset

\* No other connection makes LOG_FATAL end the process.
FatalInv == main_pc = "fatal" => reset # {}

\* A connection is served after it has been popped by a loop that goes on.
ServedPlace(w) ==
    /\ served \cap (Queued(w) \cup Popped(w)) = {}
    /\ worker_pc[w] = "exit" => served \cap registered[w] = {}

ServedInv ==
    /\ served \cap left_behind = {}
    /\ \A w \in Workers : ServedPlace(w)

ThreadInv == TypeOK /\ CountInv /\ StartInv /\ StopInv /\ WorkerInv

LocationInv == OwnInv /\ PlaceInv /\ MapInv /\ ServedInv /\ FatalInv

ServerInv == ThreadInv /\ LocationInv

-----------------------------------------------------------------------------
(* Constants and sequences *)

\* What ServerAssumption says of the constants, in the form the proofs use.
LEMMA ConstantFacts ==
    /\ NumWorkers \in Nat /\ NumWorkers > 0
    /\ MaxConnections \in Nat /\ Capacity \in Nat
    /\ AcceptLimit \in Nat /\ AcceptLimit > 0
    /\ 0 \in Workers /\ Workers \subseteq Nat
    /\ Connections \subseteq Nat /\ NoConnection \notin Connections
BY ServerAssumption DEF ServerAssumption, Workers, Connections, NoConnection

\* get_next_loop() gives every connection a worker.
LEMMA WorkerOfType == \A c \in Nat : WorkerOf(c) \in Workers
BY ConstantFacts DEF WorkerOf, Workers

\* Pushing into a queue adds one element to it.
LEMMA AppendSet ==
    ASSUME NEW S, NEW s \in Seq(S), NEW e \in S
    PROVE  /\ ToSet(Append(s, e)) = ToSet(s) \cup {e}
           /\ e \notin ToSet(s) /\ IsInjective(s) => IsInjective(Append(s, e))
           /\ \A R : RepeatsOnly(s, R) /\ (e \in ToSet(s) => e \in R)
                       => RepeatsOnly(Append(s, e), R)
<1>1. /\ DOMAIN s = 1 .. Len(s) /\ Len(s) \in Nat
      /\ DOMAIN Append(s, e) = 1 .. Len(s) + 1
  OBVIOUS
<1>2. /\ \A i \in DOMAIN s : i \in 1 .. Len(s) + 1 /\ Append(s, e)[i] = s[i]
      /\ Append(s, e)[Len(s) + 1] = e
      /\ Len(s) + 1 \in 1 .. Len(s) + 1
  BY <1>1
<1>3. \A i \in 1 .. Len(s) + 1 : i \in DOMAIN s \/ i = Len(s) + 1
  BY <1>1
<1>4. ToSet(Append(s, e)) = ToSet(s) \cup {e}
  BY <1>1, <1>2, <1>3 DEF ToSet
<1>5. ASSUME e \notin ToSet(s), IsInjective(s) PROVE IsInjective(Append(s, e))
  BY <1>1, <1>2, <1>3, <1>5 DEF ToSet, IsInjective
<1>6. ASSUME NEW R, RepeatsOnly(s, R), e \in ToSet(s) => e \in R
      PROVE  RepeatsOnly(Append(s, e), R)
  <2> SUFFICES ASSUME NEW i \in 1 .. Len(s) + 1, NEW j \in 1 .. Len(s) + 1,
                      i # j, Append(s, e)[i] = Append(s, e)[j]
               PROVE  Append(s, e)[i] \in R
    BY <1>1 DEF RepeatsOnly
  <2>1. CASE i \in DOMAIN s /\ j \in DOMAIN s
    BY <1>2, <1>6, <2>1 DEF RepeatsOnly
  <2>2. CASE i = Len(s) + 1 /\ j \in DOMAIN s
    BY <1>2, <1>6, <2>2 DEF ToSet
  <2>3. CASE j = Len(s) + 1 /\ i \in DOMAIN s
    BY <1>2, <1>6, <2>3 DEF ToSet
  <2> QED
    BY <1>3, <2>1, <2>2, <2>3
<1> QED
  BY <1>4, <1>5, <1>6

\* Taking the first functor of a batch removes one element from it.
LEMMA TailSet ==
    ASSUME NEW S, NEW s \in Seq(S), s # <<>>, IsInjective(s)
    PROVE  /\ Head(s) \in ToSet(s)
           /\ ToSet(Tail(s)) = ToSet(s) \ {Head(s)}
           /\ IsInjective(Tail(s))
<1>1. /\ DOMAIN s = 1 .. Len(s) /\ Len(s) \in Nat /\ Len(s) > 0
      /\ DOMAIN Tail(s) = 1 .. Len(s) - 1
      /\ Head(s) = s[1] /\ 1 \in DOMAIN s
      /\ \A i \in 1 .. Len(s) - 1 : Tail(s)[i] = s[i + 1] /\ i + 1 \in DOMAIN s
  OBVIOUS
<1>2. \A i \in DOMAIN s : i = 1 \/ (i - 1 \in 1 .. Len(s) - 1 /\ (i - 1) + 1 = i)
  BY <1>1
<1>3. \A i \in DOMAIN s : i # 1 => s[i] # s[1]
  BY <1>1 DEF IsInjective
<1>4. \A i \in 1 .. Len(s) - 1 : i + 1 # 1
  BY <1>1
<1>5. ToSet(Tail(s)) = ToSet(s) \ {Head(s)}
  <2>1. ASSUME NEW x \in ToSet(Tail(s)) PROVE x \in ToSet(s) \ {Head(s)}
    BY <1>1, <1>3, <1>4, <2>1 DEF ToSet
  <2>2. ASSUME NEW x \in ToSet(s) \ {Head(s)} PROVE x \in ToSet(Tail(s))
    <3>1. PICK i \in DOMAIN s : x = s[i]
      BY <2>2 DEF ToSet
    <3>2. i - 1 \in DOMAIN Tail(s) /\ Tail(s)[i - 1] = x
      BY <1>1, <1>2, <2>2, <3>1
    <3> QED
      BY <3>2 DEF ToSet
  <2> QED
    BY <2>1, <2>2
<1>6. IsInjective(Tail(s))
  BY <1>1 DEF IsInjective
<1> QED
  BY <1>1, <1>5, <1>6 DEF ToSet

\* An empty queue holds nothing, and only an empty one.
LEMMA EmptySet ==
    /\ ToSet(<<>>) = {}
    /\ IsInjective(<<>>)
    /\ \A R : RepeatsOnly(<<>>, R)
BY DEF ToSet, IsInjective, RepeatsOnly

-----------------------------------------------------------------------------
(* Types and counts *)

\* The constructor leaves every member with its type.
LEMMA TypeInit == Init => TypeOK
<1> SUFFICES ASSUME Init PROVE TypeOK
  OBVIOUS
<1>1. /\ arrivals \in 0 .. MaxConnections /\ backlog \in 0 .. MaxConnections
      /\ accepted_now \in 0 .. AcceptLimit /\ next_id \in 0 .. MaxConnections
      /\ starting \in Workers
  BY ConstantFacts DEF Init
<1>2. /\ main_queues \in [Workers -> Seq(Connections)]
      /\ worker_queues \in [Workers -> Seq(Connections)]
      /\ batch \in [Workers -> Seq(Connections)]
  BY DEF Init
<1>3. /\ woken \in [Workers -> BOOLEAN] /\ tid_set \in [Workers -> BOOLEAN]
      /\ loop_ptr \in [Workers -> BOOLEAN] /\ need_stop \in [Workers -> BOOLEAN]
      /\ triggered \in [Workers -> BOOLEAN]
  BY DEF Init
<1>4. /\ registered \in [Workers -> SUBSET Connections]
      /\ worker_active \in [Workers -> SUBSET Connections]
      /\ closing \in [Workers -> Connections \cup {NoConnection}]
  BY DEF Init
<1> QED
  BY <1>1, <1>2, <1>3, <1>4 DEF Init, TypeOK

\* The functors of the main loop's queues leave the types alone.
LEMMA FunctorTypes ==
    ASSUME TypeOK, NEW pc \in MainStates,
           InvokeAllFunctors(pc) \/ KeepFunctors(pc)
    PROVE  /\ tcp_connect_socketfds' \subseteq Connections
           /\ main_queues' \in [Workers -> Seq(Connections)]
           /\ main_pc' \in MainStates
<1>0. "fatal" \in MainStates
  BY DEF MainStates
<1>1. CASE AllEntriesFound /\ InvokeAllFunctors(pc)
  <2>1. /\ tcp_connect_socketfds' =
              tcp_connect_socketfds \
                  UNION {ToSet(main_queues[w]) : w \in Workers}
        /\ main_queues' = [w \in Workers |-> <<>>]
        /\ main_pc' = pc
    BY <1>1, Zenon DEF InvokeAllFunctors
  <2>2. main_queues' \in [Workers -> Seq(Connections)]
    BY <2>1
  <2> QED
    BY <2>1, <2>2 DEF TypeOK
<1>2. CASE KeepFunctors(pc) \/ ~ AllEntriesFound
  BY <1>0, <1>2 DEF KeepFunctors, InvokeAllFunctors, TypeOK
<1> QED
  BY <1>1, <1>2

\* The states of the two kinds of loops, one by one.
LEMMA StateNames ==
    /\ "start" \in MainStates /\ "start thread" \in MainStates
    /\ "await tid" \in MainStates /\ "await loop" \in MainStates
    /\ "check" \in MainStates /\ "poll" \in MainStates
    /\ "dispatch" \in MainStates /\ "accept" \in MainStates
    /\ "register" \in MainStates /\ "stop wait" \in MainStates
    /\ "stop join" \in MainStates /\ "exited" \in MainStates
    /\ "done" \in MainStates /\ "advance" \in MainStates
    /\ "fatal" \in MainStates
    /\ "none" \in WorkerStates /\ "created" \in WorkerStates
    /\ "make loop" \in WorkerStates /\ "check" \in WorkerStates
    /\ "poll" \in WorkerStates /\ "dispatch" \in WorkerStates
    /\ "close" \in WorkerStates /\ "close again" \in WorkerStates
    /\ "functors" \in WorkerStates
    /\ "exit" \in WorkerStates /\ "exited" \in WorkerStates
BY Zenon DEF MainStates, WorkerStates

\* Every step of the main thread keeps the types.
LEMMA MainTypeStep ==
    ASSUME TypeOK, CountInv, MainStep
    PROVE  TypeOK'
<1> USE DEF outsideVars, listenVars, stopVars, queueVars, threadVars,
            dispatchVars, workerVars, historyVars
<1>1. CASE StartListening
  BY <1>1, StateNames DEF StartListening, TypeOK
<1>2. CASE CreateThread
  BY <1>2, StateNames, ZenonT(60) DEF CreateThread, TypeOK
<1>3. CASE AwaitTid
  BY <1>3, StateNames, ZenonT(60) DEF AwaitTid, TypeOK
<1>4. CASE AwaitLoop
  <2>1. starting' \in Workers
    <3>1. starting \in 0 .. NumWorkers - 1
      BY DEF TypeOK, Workers
    <3>2. starting' = starting \/ (starting' = starting + 1
                                    /\ starting + 1 < NumWorkers)
      BY <1>4 DEF AwaitLoop
    <3> QED
      BY <3>1, <3>2, ConstantFacts DEF Workers
  <2> QED
    BY <1>4, <2>1, StateNames, ZenonT(60) DEF AwaitLoop, TypeOK
<1>5. CASE MainCheck
  BY <1>5, FunctorTypes, StateNames, ZenonT(60) DEF MainCheck, ExitDrain, TypeOK
<1>6. CASE MainPoll
  BY <1>6, StateNames DEF MainPoll, TypeOK
<1>7. CASE DispatchListen
  <2>1. accepted_now' \in 0 .. AcceptLimit
    BY <1>7, ConstantFacts DEF DispatchListen, TypeOK
  <2> QED
    BY <1>7, <2>1, StateNames, ZenonT(60) DEF DispatchListen, TypeOK
<1>8. CASE AcceptConnection
  <2>1. /\ backlog' \in 0 .. MaxConnections
        /\ next_id' \in 0 .. MaxConnections
        /\ next_id \in Connections
    BY <1>8, ConstantFacts
       DEF AcceptConnection, CanAccept, CountInv, TypeOK, Connections
  <2> QED
    BY <1>8, <2>1, StateNames, ZenonT(60) DEF AcceptConnection, TypeOK
<1>9. CASE PushRegistration
  <2> DEFINE c == next_id - 1
  <2>1. c \in Connections /\ c \in Nat
    BY <1>9, ConstantFacts DEF PushRegistration, CountInv, TypeOK, Connections
  <2>2. WorkerOf(c) \in Workers
    BY <2>1, WorkerOfType
  <2>3. accepted_now' \in 0 .. AcceptLimit
    BY <1>9, ConstantFacts DEF PushRegistration, CountInv, TypeOK
  <2>4. Append(worker_queues[WorkerOf(c)], c) \in Seq(Connections)
    BY <2>1, <2>2 DEF TypeOK
  <2>5. worker_queues' \in [Workers -> Seq(Connections)]
    BY <1>9, <2>2, <2>4 DEF PushRegistration, TypeOK
  <2>6. woken' \in [Workers -> BOOLEAN]
    BY <1>9 DEF PushRegistration, TypeOK
  <2> QED
    BY <1>9, <2>3, <2>5, <2>6, StateNames, ZenonT(60) DEF PushRegistration, TypeOK
<1>10. CASE AcceptAborted
  <2>1. accepted_now' \in 0 .. AcceptLimit /\ backlog' \in 0 .. MaxConnections
    BY <1>10, ConstantFacts DEF AcceptAborted, MayAcceptMore, TypeOK
  <2> QED
    BY <1>10, <2>1, StateNames, ZenonT(60) DEF AcceptAborted, TypeOK
<1>11. CASE AcceptEnds
  BY <1>11, StateNames, ZenonT(60) DEF AcceptEnds, TypeOK
<1>12. CASE DispatchSignal
  BY <1>12, StateNames DEF DispatchSignal, TypeOK
<1>13. CASE StopWait
  BY <1>13, FunctorTypes, StateNames, ZenonT(60) DEF StopWait, StopDrain, TypeOK
<1>14. CASE StopJoin
  BY <1>14, StateNames, ZenonT(60) DEF StopJoin, TypeOK
<1>15. CASE MainDrain
  BY <1>15, FunctorTypes, StateNames, ZenonT(60) DEF MainDrain, TypeOK
<1>16. CASE DestroyEmpty
  BY <1>16, StateNames, ZenonT(40) DEF DestroyEmpty, TypeOK
<1>17. CASE DestroyReset
  BY <1>17, StateNames, ZenonT(40) DEF DestroyReset, TypeOK
<1> QED
  BY <1>1, <1>2, <1>3, <1>4, <1>5, <1>6, <1>7, <1>8, <1>9, <1>10, <1>11,
     <1>12, <1>13, <1>14, <1>15, <1>16, <1>17 DEF MainStep

\* Every step of a worker keeps the types.
LEMMA WorkerTypeStep ==
    ASSUME TypeOK, WorkerInv, NEW w \in Workers, WorkerStep(w)
    PROVE  TypeOK'
<1> USE DEF outsideVars, listenVars, stopVars, queueVars, threadVars,
            dispatchVars, workerVars, historyVars
<1>1. CASE ThreadRuns(w)
  BY <1>1, StateNames, ZenonT(40) DEF ThreadRuns, TypeOK
<1>2. CASE MakeLoop(w)
  BY <1>2, StateNames, ZenonT(40) DEF MakeLoop, TypeOK
<1>3. CASE WorkerCheck(w)
  <2>1. CASE MayExit(w)
    <3>1. /\ batch \in [Workers -> Seq(Connections)]
          /\ worker_queues \in [Workers -> Seq(Connections)]
          /\ worker_pc \in [Workers -> WorkerStates]
      BY DEF TypeOK
    <3>2. /\ batch' = [batch EXCEPT ![w] = worker_queues[w]]
          /\ worker_queues' = [worker_queues EXCEPT ![w] = <<>>]
          /\ worker_pc' = [worker_pc EXCEPT ![w] = "exit"]
      BY <1>3, <2>1 DEF WorkerCheck
    <3>3. batch' \in [Workers -> Seq(Connections)]
      BY <3>1, <3>2
    <3>4. worker_queues' \in [Workers -> Seq(Connections)]
      BY <3>1, <3>2
    <3>5. worker_pc' \in [Workers -> WorkerStates]
      BY <3>1, <3>2, StateNames
    <3> QED
      BY <1>3, <3>3, <3>4, <3>5, ZenonT(40) DEF WorkerCheck, TypeOK
  <2>2. CASE ~ MayExit(w)
    BY <1>3, <2>2, StateNames, ZenonT(60) DEF WorkerCheck, TypeOK
  <2> QED
    BY <2>1, <2>2
<1>4. CASE WorkerPoll(w)
  BY <1>4, StateNames, ZenonT(40) DEF WorkerPoll, TypeOK
<1>5. ASSUME NEW c \in Connections, WorkerClose(w, c) PROVE TypeOK'
  BY <1>5, StateNames, ZenonT(60) DEF WorkerClose, Detach, TypeOK
<1>6. CASE PushClose(w) \/ PushCloseOfReset(w) \/ PushCloseAgain(w)
  <2>0. PushCloseFunctor(w)
    BY <1>6 DEF PushClose, PushCloseOfReset, PushCloseAgain
  <2>1. closing[w] \in Connections
    BY <1>6 DEF PushClose, PushCloseOfReset, PushCloseAgain, WorkerInv, Closers,
                TypeOK
  <2>2. Append(main_queues[w], closing[w]) \in Seq(Connections)
    BY <2>1 DEF TypeOK
  <2>3. main_queues' \in [Workers -> Seq(Connections)]
    BY <2>0, <2>2 DEF PushCloseFunctor, TypeOK
  <2>4. /\ closing' \in [Workers -> Connections \cup {NoConnection}]
        /\ worker_pc' \in [Workers -> WorkerStates]
        /\ reset' \subseteq Connections
    <3>1. CASE PushClose(w) \/ PushCloseAgain(w)
      <4>1. /\ closing' = [closing EXCEPT ![w] = NoConnection]
            /\ worker_pc' = [worker_pc EXCEPT ![w] = "dispatch"]
            /\ reset' = reset
        BY <3>1 DEF PushClose, PushCloseAgain
      <4> QED
        BY <4>1, StateNames DEF TypeOK
    <3>2. CASE PushCloseOfReset(w)
      BY <2>1, <3>2, StateNames DEF PushCloseOfReset, TypeOK
    <3> QED
      BY <1>6, <3>1, <3>2
  <2> QED
    BY <2>0, <2>3, <2>4 DEF PushCloseFunctor, TypeOK
<1>7. CASE WorkerPopAll(w)
  <2>1. CASE triggered[w]
    <3>1. /\ batch \in [Workers -> Seq(Connections)]
          /\ worker_queues \in [Workers -> Seq(Connections)]
          /\ worker_pc \in [Workers -> WorkerStates]
      BY DEF TypeOK
    <3>2. /\ batch' = [batch EXCEPT ![w] = worker_queues[w]]
          /\ worker_queues' = [worker_queues EXCEPT ![w] = <<>>]
          /\ worker_pc' = [worker_pc EXCEPT ![w] = "functors"]
      BY <1>7, <2>1 DEF WorkerPopAll
    <3>3. batch' \in [Workers -> Seq(Connections)]
      BY <3>1, <3>2
    <3>4. worker_queues' \in [Workers -> Seq(Connections)]
      BY <3>1, <3>2
    <3>5. worker_pc' \in [Workers -> WorkerStates]
      BY <3>1, <3>2, StateNames
    <3> QED
      BY <1>7, <3>3, <3>4, <3>5, ZenonT(40) DEF WorkerPopAll, TypeOK
  <2>2. CASE ~ triggered[w]
    BY <1>7, <2>2, StateNames, ZenonT(40) DEF WorkerPopAll, TypeOK
  <2> QED
    BY <2>1, <2>2
<1>8. CASE WorkerRegister(w)
  <2>1. /\ Head(batch[w]) \in Connections
        /\ Tail(batch[w]) \in Seq(Connections)
    BY <1>8 DEF WorkerRegister, TypeOK
  <2>2. batch' \in [Workers -> Seq(Connections)]
    BY <1>8, <2>1 DEF WorkerRegister, TypeOK
  <2>3. registered' \in [Workers -> SUBSET Connections]
    BY <1>8, <2>1 DEF WorkerRegister, TypeOK
  <2>4. served' \subseteq Connections
    BY <1>8, <2>1 DEF WorkerRegister, TypeOK
  <2> QED
    BY <1>8, <2>2, <2>3, <2>4, StateNames, ZenonT(40) DEF WorkerRegister, TypeOK
<1>9. CASE WorkerFunctorsDone(w)
  BY <1>9, StateNames, ZenonT(40) DEF WorkerFunctorsDone, TypeOK
<1>10. CASE WorkerExit(w)
  BY <1>10, StateNames, ZenonT(40) DEF WorkerExit, TypeOK
<1> QED
  BY <1>1, <1>2, <1>3, <1>4, <1>5, <1>6, <1>7, <1>8, <1>9, <1>10
     DEF WorkerStep

\* Every step keeps the types.
LEMMA TypeStep == TypeOK /\ CountInv /\ WorkerInv /\ [Next]_vars => TypeOK'
<1> SUFFICES ASSUME TypeOK, CountInv, WorkerInv, [Next]_vars PROVE TypeOK'
  OBVIOUS
<1> USE DEF outsideVars, listenVars, stopVars, queueVars, threadVars,
            dispatchVars, workerVars, historyVars
<1>1. CASE ClientConnects
  <2>1. arrivals' \in 0 .. MaxConnections /\ backlog' \in 0 .. MaxConnections
    BY <1>1, ConstantFacts DEF ClientConnects, CountInv, TypeOK
  <2> QED
    BY <1>1, <2>1 DEF ClientConnects, TypeOK
<1>2. CASE SignalArrives
  BY <1>2 DEF SignalArrives, TypeOK
<1>3. ASSUME NEW c \in Connections, ConnectionEnds(c) PROVE TypeOK'
  BY <1>3 DEF ConnectionEnds, TypeOK
<1>4. CASE UNCHANGED vars
  BY <1>4 DEF vars, TypeOK
<1> QED
  BY <1>1, <1>2, <1>3, <1>4, MainTypeStep, WorkerTypeStep DEF Next, OutsideStep

\* Every step keeps the counts of clients.
LEMMA CountStep == TypeOK /\ CountInv /\ [Next]_vars => CountInv'
<1> SUFFICES ASSUME TypeOK, CountInv, [Next]_vars PROVE CountInv'
  OBVIOUS
<1> USE ConstantFacts
        DEF CountInv, outsideVars, listenVars, stopVars, queueVars, threadVars,
            dispatchVars, workerVars, historyVars
<1>1. CASE MainStep
  <2>1. CASE AcceptConnection
    BY <1>1, <2>1 DEF AcceptConnection, CanAccept, MayAcceptMore, TypeOK
  <2>2. CASE PushRegistration
    BY <2>2 DEF PushRegistration, TypeOK
  <2>3. CASE AcceptAborted
    BY <2>3 DEF AcceptAborted, TypeOK
  <2>4. CASE ~ (AcceptConnection \/ PushRegistration \/ AcceptAborted)
    <3>1. UNCHANGED <<arrivals, backlog, next_id>> /\ main_pc' # "register"
      BY <1>1, <2>4
         DEF MainStep, StartListening, CreateThread, AwaitTid, AwaitLoop,
             MainCheck, MainPoll, DispatchListen, AcceptEnds, DispatchSignal,
             StopWait, StopJoin, MainDrain, DestroyEmpty, DestroyReset,
             ExitDrain, StopDrain, InvokeAllFunctors, KeepFunctors
    <3> QED
      BY <3>1
  <2> QED
    BY <2>1, <2>2, <2>3, <2>4
<1>2. ASSUME NEW w \in Workers, WorkerStep(w) PROVE CountInv'
  BY <1>2 DEF WorkerStep, ThreadRuns, MakeLoop, WorkerCheck, WorkerPoll,
              WorkerClose, PushClose, PushCloseOfReset, PushCloseAgain,
              PushCloseFunctor, WorkerPopAll, WorkerRegister,
              WorkerFunctorsDone, WorkerExit
<1>3. CASE ClientConnects
  BY <1>3 DEF ClientConnects, TypeOK
<1>4. CASE SignalArrives
  BY <1>4 DEF SignalArrives
<1>5. ASSUME NEW c \in Connections, ConnectionEnds(c) PROVE CountInv'
  BY <1>5 DEF ConnectionEnds
<1>6. CASE UNCHANGED vars
  BY <1>6 DEF vars
<1> QED
  BY <1>1, <1>2, <1>3, <1>4, <1>5, <1>6 DEF Next, OutsideStep

-----------------------------------------------------------------------------
(* Starting, stopping and the loops of the workers *)

\* A step of a worker is one of the states of its loop and of no other.
LEMMA WorkerMoves ==
    ASSUME TypeOK, NEW w \in Workers, WorkerStep(w)
    PROVE  /\ UNCHANGED <<main_pc, starting, next_id, listening, need_stop,
                          listen_is_stopped, main_need_stop>>
           /\ \A v \in Workers :
                 v # w => /\ worker_pc'[v] = worker_pc[v]
                          /\ loop_ptr'[v] = loop_ptr[v]
           /\ \/ /\ worker_pc[w] = "created" /\ worker_pc'[w] = "make loop"
                 /\ loop_ptr'[w] = loop_ptr[w]
              \/ /\ worker_pc[w] = "make loop" /\ worker_pc'[w] = "check"
                 /\ loop_ptr'[w] = TRUE
              \/ /\ worker_pc[w] = "check" /\ worker_pc'[w] = "exit"
                 /\ MayExit(w) /\ loop_ptr'[w] = loop_ptr[w]
              \/ /\ worker_pc[w] = "exit" /\ worker_pc'[w] \in {"exit", "exited"}
                 /\ loop_ptr'[w] = loop_ptr[w]
              \/ /\ worker_pc[w] \in {"check", "poll", "dispatch", "close",
                                      "close again", "functors"}
                 /\ worker_pc'[w] \in {"check", "poll", "dispatch", "close",
                                       "close again", "functors"}
                 /\ loop_ptr'[w] = loop_ptr[w]
<1> USE DEF outsideVars, listenVars, stopVars, queueVars, threadVars,
            dispatchVars, workerVars, historyVars
<1>0. /\ worker_pc \in [Workers -> WorkerStates]
      /\ loop_ptr \in [Workers -> BOOLEAN]
  BY DEF TypeOK
<1>1. CASE ThreadRuns(w)
  BY <1>0, <1>1 DEF ThreadRuns
<1>2. CASE MakeLoop(w)
  BY <1>0, <1>2 DEF MakeLoop
<1>3. CASE WorkerCheck(w)
  BY <1>0, <1>3 DEF WorkerCheck
<1>4. CASE WorkerPoll(w)
  BY <1>0, <1>4 DEF WorkerPoll
<1>5. CASE \E c \in Connections : WorkerClose(w, c)
  BY <1>0, <1>5 DEF WorkerClose
<1>6. CASE PushClose(w) \/ PushCloseOfReset(w) \/ PushCloseAgain(w)
  BY <1>0, <1>6
     DEF PushClose, PushCloseOfReset, PushCloseAgain, PushCloseFunctor
<1>7. CASE WorkerPopAll(w)
  BY <1>0, <1>7 DEF WorkerPopAll
<1>8. CASE WorkerRegister(w)
  BY <1>0, <1>8 DEF WorkerRegister
<1>9. CASE WorkerFunctorsDone(w)
  BY <1>0, <1>9 DEF WorkerFunctorsDone
<1>10. CASE WorkerExit(w)
  BY <1>0, <1>10 DEF WorkerExit
<1> QED
  BY <1>1, <1>2, <1>3, <1>4, <1>5, <1>6, <1>7, <1>8, <1>9, <1>10
     DEF WorkerStep

\* A step of the main thread leaves the workers' loops alone once start() has
\* returned.
LEMMA MainMoves ==
    ASSUME MainStep
    PROVE  \/ StartListening \/ CreateThread \/ AwaitTid \/ AwaitLoop
           \/ /\ main_pc \notin Starting /\ main_pc' \notin Starting
              /\ UNCHANGED <<worker_pc, loop_ptr>>
<1> USE DEF outsideVars, listenVars, stopVars, queueVars, threadVars,
            dispatchVars, workerVars, historyVars
<1> DEFINE Later == /\ main_pc \notin Starting /\ main_pc' \notin Starting
                    /\ UNCHANGED <<worker_pc, loop_ptr>>
<1>1. MainCheck => Later
  BY DEF MainCheck, ExitDrain, InvokeAllFunctors, KeepFunctors, Starting
<1>2. MainPoll => Later
  BY DEF MainPoll, Starting
<1>3. DispatchListen => Later
  BY DEF DispatchListen, Starting
<1>4. AcceptConnection \/ PushRegistration \/ AcceptAborted \/ AcceptEnds => Later
  BY DEF AcceptConnection, PushRegistration, AcceptAborted, AcceptEnds, Starting
<1>5. DispatchSignal => Later
  BY DEF DispatchSignal, Starting
<1>6. StopWait \/ StopJoin \/ MainDrain => Later
  BY DEF StopWait, StopJoin, MainDrain, StopDrain, InvokeAllFunctors,
         KeepFunctors, Starting
<1>7. DestroyEmpty \/ DestroyReset => Later
  BY DEF DestroyEmpty, DestroyReset, Starting
<1> QED
  BY <1>1, <1>2, <1>3, <1>4, <1>5, <1>6, <1>7 DEF MainStep

\* What neither a worker nor the main thread does leaves both alone.
LEMMA OutsideMoves ==
    ASSUME ClientConnects \/ SignalArrives
             \/ (\E c \in Connections : ConnectionEnds(c)) \/ UNCHANGED vars
    PROVE  UNCHANGED <<main_pc, active, starting, listenVars,
                       tcp_connect_socketfds, stopVars, queueVars, workerVars,
                       historyVars>>
BY DEF ClientConnects, SignalArrives, ConnectionEnds, vars

\* Every step of start(), and of the threads it starts, keeps StartInv.
LEMMA StartStep == TypeOK /\ StartInv /\ [Next]_vars => StartInv'
<1> SUFFICES ASSUME TypeOK, StartInv, [Next]_vars PROVE StartInv'
  OBVIOUS
<1>0. /\ worker_pc \in [Workers -> WorkerStates]
      /\ loop_ptr \in [Workers -> BOOLEAN]
      /\ starting \in Workers
      /\ Workers \subseteq Nat
  BY ConstantFacts DEF TypeOK
<1>1. CASE StartListening
  BY <1>1 DEF StartListening, StartInv, Starting, workerVars, threadVars
<1>2. CASE CreateThread
  <2>1. /\ main_pc = "start thread" /\ main_pc' = "await tid"
        /\ starting' = starting /\ loop_ptr' = loop_ptr
        /\ worker_pc' = [worker_pc EXCEPT ![starting] = "created"]
    BY <1>2 DEF CreateThread, threadVars
  <2>2. worker_pc[starting] = "none" /\ ~ loop_ptr[starting]
    BY <1>0, <2>1 DEF StartInv, Unborn
  <2> QED
    BY <1>0, <2>1, <2>2 DEF StartInv, Starting, Unborn
<1>3. CASE AwaitTid
  BY <1>3 DEF AwaitTid, StartInv, Starting, workerVars, threadVars
<1>4. CASE AwaitLoop
  <2>1. main_pc = "await loop" /\ loop_ptr[starting]
    BY <1>4 DEF AwaitLoop, LoopIsReady
  <2>2. UNCHANGED <<worker_pc, loop_ptr>>
    BY <1>4 DEF AwaitLoop, workerVars, threadVars
  <2>0. starting \in Nat
    BY ConstantFacts DEF TypeOK
  <2>3. CASE starting + 1 < NumWorkers
    <3>1. main_pc' = "start thread" /\ starting' = starting + 1
      BY <1>4, <2>3 DEF AwaitLoop
    <3>2. \A w \in Nat : /\ w > starting + 1 => w > starting
                         /\ w < starting + 1 => w < starting \/ w = starting
      BY <2>0
    <3>3. starting + 1 > starting /\ starting + 1 \in Workers
      BY <2>0, <2>3, ConstantFacts DEF Workers
    <3> QED
      BY <1>0, <2>1, <2>2, <3>1, <3>2, <3>3 DEF StartInv, Starting
  <2>4. CASE ~ (starting + 1 < NumWorkers)
    <3>1. main_pc' = "check"
      BY <1>4, <2>4 DEF AwaitLoop
    <3>2. \A w \in Workers : w < starting \/ w = starting
      BY <1>0, <2>4, ConstantFacts DEF Workers
    <3> QED
      BY <2>1, <2>2, <3>1, <3>2 DEF StartInv, Starting
  <2> QED
    BY <2>3, <2>4
<1>5. CASE /\ main_pc \notin Starting /\ main_pc' \notin Starting
           /\ UNCHANGED <<worker_pc, loop_ptr>>
  <2>1. main_pc' \notin {"start", "start thread"}
    BY <1>5 DEF Starting
  <2> QED
    BY <1>5, <2>1 DEF StartInv
<1>6. ASSUME NEW w \in Workers, WorkerStep(w) PROVE StartInv'
  <2>1. /\ UNCHANGED <<main_pc, starting>>
        /\ \A v \in Workers :
              v # w => /\ worker_pc'[v] = worker_pc[v]
                       /\ loop_ptr'[v] = loop_ptr[v]
    BY <1>6, WorkerMoves
  <2>2. worker_pc[w] # "none"
    BY <1>6, WorkerMoves
  <2>3. /\ loop_ptr'[w] <=> worker_pc'[w] \notin Unborn
        /\ loop_ptr[w] => loop_ptr'[w]
    BY <1>0, <1>6, WorkerMoves DEF StartInv, Unborn
  <2> QED
    BY <1>0, <2>1, <2>2, <2>3 DEF StartInv
<1>7. CASE UNCHANGED <<main_pc, starting, worker_pc, loop_ptr>>
  BY <1>7 DEF StartInv
<1>8. CASE MainStep
  BY <1>1, <1>2, <1>3, <1>4, <1>5, <1>8, MainMoves
<1>9. CASE \/ ClientConnects \/ SignalArrives
           \/ (\E c \in Connections : ConnectionEnds(c)) \/ UNCHANGED vars
  BY <1>7, <1>9, OutsideMoves DEF workerVars, threadVars
<1> QED
  BY <1>6, <1>8, <1>9 DEF Next, OutsideStep

\* Every step of stop(), and of the loops it stops, keeps StopInv.
LEMMA StopStep == TypeOK /\ StartInv /\ StopInv /\ [Next]_vars => StopInv'
<1> SUFFICES ASSUME TypeOK, StartInv, StopInv, [Next]_vars PROVE StopInv'
  OBVIOUS
<1> USE DEF listenVars, stopVars, queueVars, threadVars, workerVars
<1>0. /\ worker_pc \in [Workers -> WorkerStates]
      /\ need_stop \in [Workers -> BOOLEAN]
      /\ starting \in Workers
  BY DEF TypeOK
<1>1. CASE StartListening
  BY <1>1 DEF StartListening, StopInv, IsJoinable
<1>2. CASE CreateThread
  <2>1. worker_pc[starting] = "none"
    BY <1>2 DEF CreateThread, StartInv
  <2>2. ~ main_need_stop
    BY <1>0, <2>1 DEF StopInv, IsJoinable
  <2>3. /\ main_pc' = "await tid"
        /\ worker_pc' = [worker_pc EXCEPT ![starting] = "created"]
        /\ UNCHANGED <<listen_is_stopped, need_stop, main_need_stop>>
    BY <1>2 DEF CreateThread
  <2> QED
    BY <1>0, <2>2, <2>3 DEF StopInv
<1>3. CASE AwaitTid \/ AwaitLoop
  <2>1. /\ main_pc' \in {"await loop", "start thread", "check"}
        /\ UNCHANGED <<listen_is_stopped, need_stop, main_need_stop, worker_pc>>
    BY <1>3, Zenon DEF AwaitTid, AwaitLoop
  <2> QED
    BY <2>1 DEF StopInv, IsJoinable
<1>4. CASE MainCheck
  BY <1>4 DEF MainCheck, ExitDrain, InvokeAllFunctors, KeepFunctors, StopInv,
              IsJoinable
<1>5. CASE MainPoll
  BY <1>5 DEF MainPoll, StopInv, IsJoinable
<1>6. CASE DispatchListen
  BY <1>6 DEF DispatchListen, ListenCallbackMayAccept, StopInv, IsJoinable
<1>7. CASE AcceptConnection \/ AcceptAborted \/ AcceptEnds
  BY <1>7 DEF AcceptConnection, AcceptAborted, AcceptEnds, StopInv, IsJoinable
<1>8. CASE PushRegistration
  BY <1>8 DEF PushRegistration, StopInv, IsJoinable
<1>9. CASE DispatchSignal
  BY <1>9 DEF DispatchSignal, StopInv, IsJoinable
<1>10. CASE StopWait \/ MainDrain
  <2>1. main_pc' \in {"stop join", "check", "fatal"}
    BY <1>10 DEF StopWait, MainDrain, StopDrain, InvokeAllFunctors, KeepFunctors
  <2>2. UNCHANGED <<listen_is_stopped, need_stop, main_need_stop, worker_pc>>
    BY <1>10 DEF StopWait, MainDrain
  <2> QED
    BY <2>1, <2>2 DEF StopInv, IsJoinable
<1>11. CASE StopJoin
  BY <1>11 DEF StopJoin, StopInv, IsJoinable
<1>12. CASE DestroyEmpty \/ DestroyReset
  BY <1>12 DEF DestroyEmpty, DestroyReset, StopInv, IsJoinable
<1>13. ASSUME NEW w \in Workers, WorkerStep(w) PROVE StopInv'
  <2>1. /\ worker_pc[w] # "exited"
        /\ UNCHANGED <<main_pc, listen_is_stopped, need_stop, main_need_stop>>
    BY <1>13, WorkerMoves
  <2>2. ~ main_need_stop
    BY <2>1 DEF StopInv, IsJoinable
  <2>3. \A v \in Workers : v # w => worker_pc'[v] = worker_pc[v]
    BY <1>13, WorkerMoves
  <2>4. worker_pc'[w] \in {"exit", "exited"} => need_stop[w]
    BY <1>13, WorkerMoves DEF MayExit, StopInv
  <2> QED
    BY <2>1, <2>2, <2>3, <2>4 DEF StopInv
<1>14. CASE \/ ClientConnects \/ SignalArrives
            \/ (\E c \in Connections : ConnectionEnds(c)) \/ UNCHANGED vars
  BY <1>14, OutsideMoves DEF StopInv, IsJoinable
<1> QED
  BY <1>1, <1>2, <1>3, <1>4, <1>5, <1>6, <1>7, <1>8, <1>9, <1>10, <1>11, <1>12,
     <1>13, <1>14 DEF Next, MainStep, OutsideStep

\* Every step keeps what a worker holds in each state of its loop; the main
\* thread adds to the queue of a loop that is there and not about to exit.
LEMMA WorkerInvStep ==
    TypeOK /\ CountInv /\ StartInv /\ StopInv /\ WorkerInv /\ [Next]_vars
        => WorkerInv'
<1> SUFFICES ASSUME TypeOK, CountInv, StartInv, StopInv, WorkerInv, [Next]_vars
             PROVE  WorkerInv'
  OBVIOUS
<1> USE DEF listenVars, stopVars, queueVars, threadVars, dispatchVars,
            workerVars
<1>0. /\ worker_pc \in [Workers -> WorkerStates]
      /\ closing \in [Workers -> Connections \cup {NoConnection}]
      /\ batch \in [Workers -> Seq(Connections)]
      /\ worker_queues \in [Workers -> Seq(Connections)]
      /\ worker_active \in [Workers -> SUBSET Connections]
      /\ registered \in [Workers -> SUBSET Connections]
  BY DEF TypeOK
<1>1. CASE CreateThread
  <2>1. worker_pc[starting] = "none"
    BY <1>1 DEF CreateThread, StartInv
  <2>2. /\ worker_pc' = [worker_pc EXCEPT ![starting] = "created"]
        /\ UNCHANGED <<worker_queues, dispatchVars>>
    BY <1>1 DEF CreateThread
  <2> QED
    BY <1>0, <2>1, <2>2 DEF WorkerInv, Unborn, Closers
<1>2. CASE PushRegistration
  <2> DEFINE v == WorkerOf(next_id - 1)
  <2>1. worker_pc[v] \notin Unborn /\ worker_pc[v] \notin {"exit", "exited"}
    <3>1. v \in Workers
      <4>1. next_id - 1 \in Nat
        BY <1>2 DEF PushRegistration, CountInv, TypeOK
      <4> QED
        BY <4>1, WorkerOfType
    <3>2. main_pc = "register"
      BY <1>2 DEF PushRegistration
    <3>3. loop_ptr[v] /\ ~ need_stop[v]
      BY <3>1, <3>2 DEF StartInv, StopInv, Starting
    <3> QED
      BY <3>1, <3>3 DEF StartInv, StopInv
  <2>2. /\ worker_queues' =
              [worker_queues EXCEPT ![v] = Append(@, next_id - 1)]
        /\ UNCHANGED <<worker_pc, dispatchVars>>
    BY <1>2 DEF PushRegistration
  <2>3. \A u \in Workers : u # v => worker_queues'[u] = worker_queues[u]
    BY <1>0, <2>2
  <2> HIDE DEF v
  <2> QED
    BY <2>1, <2>2, <2>3 DEF WorkerInv
<1>3. CASE MainStep /\ ~ CreateThread /\ ~ PushRegistration
  <2>1. UNCHANGED <<worker_queues, worker_pc, dispatchVars>>
    BY <1>3
       DEF MainStep, StartListening, AwaitTid, AwaitLoop, MainCheck, MainPoll,
           DispatchListen, AcceptConnection, AcceptAborted, AcceptEnds,
           DispatchSignal, StopWait, StopJoin, MainDrain, DestroyEmpty,
           DestroyReset
  <2> QED
    BY <2>1 DEF WorkerInv
<1>4. ASSUME NEW w \in Workers, ThreadRuns(w) PROVE WorkerInv'
  BY <1>0, <1>4 DEF ThreadRuns, WorkerInv, Unborn, Closers
<1>5. ASSUME NEW w \in Workers, MakeLoop(w) PROVE WorkerInv'
  BY <1>0, <1>5 DEF MakeLoop, WorkerInv, Unborn, Closers
<1>6. ASSUME NEW w \in Workers, WorkerCheck(w) PROVE WorkerInv'
  <2>1. CASE MayExit(w)
    BY <1>0, <1>6, <2>1, ZenonT(40) DEF WorkerCheck, WorkerInv, Unborn, Closers
  <2>2. CASE ~ MayExit(w)
    BY <1>0, <1>6, <2>2, ZenonT(40) DEF WorkerCheck, WorkerInv, Unborn, Closers
  <2> QED
    BY <2>1, <2>2
<1>7. ASSUME NEW w \in Workers, WorkerPoll(w) PROVE WorkerInv'
  BY <1>0, <1>7 DEF WorkerPoll, WorkerInv, Unborn, Closers
<1>8. ASSUME NEW w \in Workers, NEW c \in Connections, WorkerClose(w, c)
      PROVE  WorkerInv'
  BY <1>0, <1>8, ConstantFacts
     DEF WorkerClose, Detach, WorkerInv, Unborn, Closers
<1>9. ASSUME NEW w \in Workers,
             PushClose(w) \/ PushCloseOfReset(w) \/ PushCloseAgain(w)
      PROVE  WorkerInv'
  <2>1. /\ worker_pc[w] \in Closers
        /\ UNCHANGED <<worker_queues, batch, worker_active, registered>>
        /\ \/ /\ closing' = [closing EXCEPT ![w] = NoConnection]
              /\ worker_pc' = [worker_pc EXCEPT ![w] = "dispatch"]
           \/ /\ closing' = closing
              /\ worker_pc' = [worker_pc EXCEPT ![w] = "close again"]
    BY <1>9 DEF PushClose, PushCloseOfReset, PushCloseAgain, PushCloseFunctor,
                Closers
  <2> QED
    BY <1>0, <2>1, ZenonT(40) DEF WorkerInv, Unborn, Closers
<1>10. ASSUME NEW w \in Workers, WorkerPopAll(w) PROVE WorkerInv'
  <2>1. CASE triggered[w]
    BY <1>0, <1>10, <2>1 DEF WorkerPopAll, WorkerInv, Unborn, Closers
  <2>2. CASE ~ triggered[w]
    BY <1>0, <1>10, <2>2 DEF WorkerPopAll, WorkerInv, Unborn, Closers
  <2> QED
    BY <2>1, <2>2
<1>11. ASSUME NEW w \in Workers, WorkerRegister(w) PROVE WorkerInv'
  BY <1>0, <1>11 DEF WorkerRegister, WorkerInv, Unborn, Closers
<1>12. ASSUME NEW w \in Workers, WorkerFunctorsDone(w) PROVE WorkerInv'
  BY <1>0, <1>12 DEF WorkerFunctorsDone, WorkerInv, Unborn, Closers
<1>13. ASSUME NEW w \in Workers, WorkerExit(w) PROVE WorkerInv'
  BY <1>0, <1>13 DEF WorkerExit, WorkerInv, Unborn, Closers
<1>14. CASE \/ ClientConnects \/ SignalArrives
            \/ (\E c \in Connections : ConnectionEnds(c)) \/ UNCHANGED vars
  <2>1. UNCHANGED <<worker_queues, worker_pc, dispatchVars>>
    BY <1>14, OutsideMoves
  <2> QED
    BY <2>1 DEF WorkerInv
<1> QED
  BY <1>1, <1>2, <1>3, <1>4, <1>5, <1>6, <1>7, <1>8, <1>9, <1>10, <1>11, <1>12,
     <1>13, <1>14 DEF Next, WorkerStep, OutsideStep

\* The constructor establishes the invariant of the threads.
LEMMA ThreadInit == Init => ThreadInv
<1> SUFFICES ASSUME Init PROVE ThreadInv
  OBVIOUS
<1>1. TypeOK
  BY TypeInit
<1>2. CountInv
  BY DEF Init, CountInv
<1>3. StartInv
  <2>1. \A w \in Workers : ~ (w < 0)
    BY ConstantFacts
  <2>2. /\ main_pc = "start" /\ starting = 0
        /\ \A w \in Workers : worker_pc[w] = "none" /\ ~ loop_ptr[w]
    BY DEF Init
  <2> QED
    BY <2>1, <2>2, ConstantFacts DEF StartInv, Starting, Unborn
<1>4. StopInv
  BY DEF Init, StopInv
<1>5. WorkerInv
  BY DEF Init, WorkerInv, Closers
<1> QED
  BY <1>1, <1>2, <1>3, <1>4, <1>5 DEF ThreadInv

\* Every step keeps it.
LEMMA ThreadStep == ThreadInv /\ [Next]_vars => ThreadInv'
BY TypeStep, CountStep, StartStep, StopStep, WorkerInvStep DEF ThreadInv

\* The invariant of the threads holds throughout.
LEMMA ThreadInvariant == Spec => []ThreadInv
BY ThreadInit, ThreadStep, PTL DEF Spec

\* Every member of the server, its main loop and its workers keeps its type.
THEOREM TypeCorrect == Spec => []TypeOK
<1>1. ThreadInv => TypeOK
  BY DEF ThreadInv
<1> QED
  BY <1>1, ThreadInvariant, PTL

\* The worker that a new connection is given to has a loop, which will not
\* leave before it has popped its queue once more.
LEMMA RegistrationTarget ==
    ASSUME ThreadInv, main_pc = "register"
    PROVE  /\ next_id - 1 \in Connections /\ next_id - 1 \in Nat
           /\ WorkerOf(next_id - 1) \in Workers
           /\ LoopIsAlive(WorkerOf(next_id - 1))
           /\ worker_pc[WorkerOf(next_id - 1)] # "exit"
<1>1. next_id - 1 \in Connections /\ next_id - 1 \in Nat
  BY ConstantFacts DEF ThreadInv, CountInv, TypeOK, Connections
<1>2. WorkerOf(next_id - 1) \in Workers
  BY <1>1, WorkerOfType
<1> DEFINE v == WorkerOf(next_id - 1)
<1>3. loop_ptr[v] /\ ~ need_stop[v]
  BY <1>2 DEF ThreadInv, StartInv, StopInv, Starting
<1>4. worker_pc[v] \notin Unborn /\ worker_pc[v] \notin {"exit", "exited"}
  BY <1>2, <1>3 DEF ThreadInv, StartInv, StopInv
<1> QED
  BY <1>1, <1>2, <1>4 DEF LoopIsAlive, Unborn

\* A registration is handed only to a loop that start() has waited for and
\* stop() has not joined, and no loop is destroyed with one in its queue.
THEOREM LoopsOutliveTheirQueues == Spec => []OnlyLiveLoopsAreUsed
<1>1. ThreadInv => OnlyLiveLoopsAreUsed
  <2> SUFFICES ASSUME ThreadInv PROVE OnlyLiveLoopsAreUsed
    OBVIOUS
  <2>1. main_pc = "register" => LoopIsAlive(WorkerOf(next_id - 1))
    BY RegistrationTarget
  <2>2. \A w \in Workers : worker_queues[w] # <<>> => LoopIsAlive(w)
    BY DEF ThreadInv, WorkerInv, LoopIsAlive, Unborn
  <2> QED
    BY <2>1, <2>2 DEF OnlyLiveLoopsAreUsed
<1> QED
  BY <1>1, ThreadInvariant, PTL

-----------------------------------------------------------------------------
(* The places of a connection *)

\* A step that moves no connection, and takes no worker to its exit.
LEMMA NothingMoves ==
    ASSUME LocationInv,
           UNCHANGED <<worker_queues, batch, registered, closing, main_queues,
                       left_behind, served, reset, next_id>>,
           main_pc' = "register" <=> main_pc = "register",
           main_pc' = "fatal" => main_pc = "fatal",
           \/ main_pc' \in {"done", "advance"}
           \/ /\ main_pc \notin {"done", "advance"}
              /\ UNCHANGED tcp_connect_socketfds,
           \A w \in Workers :
              /\ worker_pc'[w] = "exit" => worker_pc[w] = "exit"
              /\ worker_pc'[w] = "close" <=> worker_pc[w] = "close"
              /\ worker_pc'[w] = "close again" <=> worker_pc[w] = "close again"
    PROVE  LocationInv'
<1>1. /\ \A w \in Workers :
            /\ Queued(w)' = Queued(w) /\ Popped(w)' = Popped(w)
            /\ Closing(w)' = Closing(w) /\ Closed(w)' = Closed(w)
            /\ Again(w)' = Again(w)
      /\ Registering' = Registering /\ HandedOut' = HandedOut
  BY DEF Queued, Popped, Closing, Closed, Again, Registering, HandedOut
<1>2. \A w \in Workers : Open(w)' = Open(w) /\ With(w)' = With(w)
  BY <1>1 DEF Open, With
<1>3. OwnInv'
  BY <1>1, <1>2 DEF LocationInv, OwnInv
<1>4. PlaceInv'
  BY <1>1, <1>2 DEF LocationInv, PlaceInv, OnePlace
<1>5. MapInv'
  BY <1>1, <1>2 DEF LocationInv, MapInv, InSomePlace
<1>6. ServedInv'
  BY <1>1 DEF LocationInv, ServedInv, ServedPlace
<1>7. FatalInv'
  BY DEF LocationInv, FatalInv
<1> QED
  BY <1>3, <1>4, <1>5, <1>6, <1>7 DEF LocationInv

\* accept() adds a connection that no worker has seen.
LEMMA AcceptMoves ==
    ASSUME ThreadInv, LocationInv, AcceptConnection
    PROVE  LocationInv'
<1>1. /\ main_pc = "accept" /\ main_pc' = "register"
      /\ next_id' = next_id + 1
      /\ tcp_connect_socketfds' = tcp_connect_socketfds \cup {next_id}
      /\ UNCHANGED <<worker_queues, batch, registered, closing, main_queues,
                     left_behind, served, reset, worker_pc>>
  BY DEF AcceptConnection, queueVars, workerVars, dispatchVars, historyVars
<1>2. next_id \in Nat
  BY ConstantFacts DEF ThreadInv, TypeOK
<1>3. /\ \A w \in Workers :
            /\ Queued(w)' = Queued(w) /\ Popped(w)' = Popped(w)
            /\ Closing(w)' = Closing(w) /\ Closed(w)' = Closed(w)
            /\ Again(w)' = Again(w)
            /\ Open(w)' = Open(w) /\ With(w)' = With(w)
  BY <1>1 DEF Queued, Popped, Closing, Closed, Again, Open, With
<1>4. Registering = {} /\ Registering' = {next_id}
  BY <1>1, <1>2 DEF Registering
<1>5. HandedOut' = HandedOut
  BY <1>1, <1>2 DEF HandedOut
<1>6. OwnInv'
  BY <1>1, <1>3, <1>5 DEF LocationInv, OwnInv
<1>7. PlaceInv'
  BY <1>1, <1>3 DEF LocationInv, PlaceInv, OnePlace
<1>8. MapInv'
  BY <1>1, <1>3, <1>4 DEF LocationInv, MapInv, InSomePlace
<1>9. ServedInv'
  BY <1>1, <1>3 DEF LocationInv, ServedInv, ServedPlace
<1> QED
  BY <1>1, <1>6, <1>7, <1>8, <1>9 DEF LocationInv, FatalInv

\* start() of the connection hands it to its worker's queue.
LEMMA RegistrationMoves ==
    ASSUME ThreadInv, LocationInv, PushRegistration
    PROVE  LocationInv'
<1>1. /\ main_pc = "register" /\ main_pc' = "accept"
      /\ worker_queues' =
            [worker_queues EXCEPT ![WorkerOf(next_id - 1)] =
                Append(@, next_id - 1)]
      /\ UNCHANGED <<batch, registered, closing, main_queues, left_behind,
                     served, reset, worker_pc, next_id,
                     tcp_connect_socketfds>>
  BY DEF PushRegistration, workerVars, dispatchVars, historyVars
<1>2. PICK c \in Connections, v \in Workers :
         c = next_id - 1 /\ v = WorkerOf(c) /\ c \in Nat
  BY <1>1, RegistrationTarget
<1>3. /\ worker_queues \in [Workers -> Seq(Connections)]
      /\ next_id \in Nat
  BY ConstantFacts DEF ThreadInv, TypeOK
<1>4. /\ HandedOut = c /\ HandedOut' = c + 1
      /\ Registering = {c} /\ Registering' = {}
  BY <1>1, <1>2, <1>3 DEF HandedOut, Registering
<1>5. /\ c \notin 0 .. c - 1 /\ 0 .. c - 1 \subseteq 0 .. (c + 1) - 1
      /\ c \in 0 .. (c + 1) - 1
  BY <1>2
<1>6. /\ \A w \in Workers : c \notin With(w)
      /\ c \notin left_behind \cup served \cup reset
  BY <1>4, <1>5 DEF LocationInv, OwnInv
<1>7. /\ worker_queues'[v] = Append(worker_queues[v], c)
      /\ worker_queues[v] \in Seq(Connections)
      /\ \A w \in Workers : w # v => worker_queues'[w] = worker_queues[w]
  BY <1>1, <1>2, <1>3
<1>8. c \notin ToSet(worker_queues[v])
  BY <1>6 DEF With, Open, Queued
<1>9. /\ ToSet(worker_queues'[v]) = ToSet(worker_queues[v]) \cup {c}
      /\ IsInjective(worker_queues[v]) => IsInjective(worker_queues'[v])
  BY <1>7, <1>8, AppendSet
<1>10. /\ Queued(v)' = Queued(v) \cup {c}
       /\ \A w \in Workers : w # v => Queued(w)' = Queued(w)
       /\ \A w \in Workers :
             /\ Popped(w)' = Popped(w)
             /\ Closing(w)' = Closing(w) /\ Closed(w)' = Closed(w)
             /\ Again(w)' = Again(w)
  BY <1>1, <1>7, <1>9 DEF Queued, Popped, Closing, Closed, Again
<1>11. /\ Open(v)' = Open(v) \cup {c} /\ With(v)' = With(v) \cup {c}
       /\ \A w \in Workers : w # v => Open(w)' = Open(w) /\ With(w)' = With(w)
  BY <1>1, <1>10 DEF Open, With
<1>12. OwnInv'
  <2>1. /\ \A w \in Workers : \A d \in With(w) \cup Again(w) :
              d \in 0 .. c - 1 /\ WorkerOf(d) = w
        /\ left_behind \cup served \cup reset \subseteq 0 .. c - 1
    BY <1>4 DEF LocationInv, OwnInv
  <2>2. \A w \in Workers : \A d \in With(w)' \cup Again(w)' :
           d \in 0 .. (c + 1) - 1 /\ WorkerOf(d) = w
    BY <1>2, <1>5, <1>10, <1>11, <2>1
  <2>3. left_behind' \cup served' \cup reset' \subseteq 0 .. (c + 1) - 1
    BY <1>1, <1>5, <2>1
  <2> QED
    BY <1>4, <2>2, <2>3 DEF OwnInv
<1>13. PlaceInv'
  <2> SUFFICES ASSUME NEW w \in Workers PROVE OnePlace(w)'
    BY <1>1 DEF LocationInv, PlaceInv
  <2>1. CASE w = v
    BY <1>1, <1>6, <1>9, <1>10, <1>11, <2>1
       DEF LocationInv, PlaceInv, OnePlace, With, Open
  <2>2. CASE w # v
    BY <1>1, <1>7, <1>10, <1>11, <2>2 DEF LocationInv, PlaceInv, OnePlace
  <2> QED
    BY <2>1, <2>2
<1>14. MapInv'
  <2>1. \A d : InSomePlace(d)' <=> InSomePlace(d)
    BY <1>1, <1>4, <1>11 DEF InSomePlace
  <2> QED
    BY <1>1, <2>1 DEF LocationInv, MapInv
<1>15. ServedInv'
  BY <1>1, <1>6, <1>10 DEF LocationInv, ServedInv, ServedPlace
<1> QED
  BY <1>1, <1>12, <1>13, <1>14, <1>15 DEF LocationInv, FatalInv

\* A step of a worker touches only its own connections: it is enough to see
\* what it does to their places.
LEMMA WorkerKeepsLocations ==
    ASSUME LocationInv, NEW w \in Workers,
           UNCHANGED <<next_id, tcp_connect_socketfds, main_pc>>,
           \A v \in Workers \ {w} :
              /\ worker_queues'[v] = worker_queues[v]
              /\ batch'[v] = batch[v]
              /\ registered'[v] = registered[v]
              /\ closing'[v] = closing[v]
              /\ main_queues'[v] = main_queues[v]
              /\ worker_pc'[v] = worker_pc[v],
           With(w)' \cup Again(w)' \subseteq With(w) \cup Again(w),
           With(w)' \subseteq With(w) \cup reset',
           With(w) \subseteq With(w)' \cup left_behind',
           left_behind \subseteq left_behind',
           left_behind' \subseteq left_behind \cup With(w),
           served' \subseteq served \cup With(w),
           reset \subseteq reset', reset' \subseteq reset \cup With(w),
           OnePlace(w)', ServedPlace(w)',
           served' \cap left_behind' = {}, reset' \cap left_behind' = {}
    PROVE  LocationInv'
<1>1. \A v \in Workers \ {w} :
         /\ Queued(v)' = Queued(v) /\ Popped(v)' = Popped(v)
         /\ Closing(v)' = Closing(v) /\ Closed(v)' = Closed(v)
         /\ Again(v)' = Again(v)
  BY DEF Queued, Popped, Closing, Closed, Again
<1>2. \A v \in Workers \ {w} : Open(v)' = Open(v) /\ With(v)' = With(v)
  BY <1>1 DEF Open, With
<1>3. HandedOut' = HandedOut /\ Registering' = Registering
  BY DEF HandedOut, Registering
<1>4. \A v \in Workers \ {w} : With(v) \cap With(w) = {}
  BY DEF LocationInv, OwnInv
<1>5. \A v \in Workers : Open(v) \subseteq With(v)
  BY DEF With
<1>6. OwnInv'
  <2>1. \A v \in Workers : \A c \in With(v) \cup Again(v) :
           c \in 0 .. HandedOut - 1 /\ WorkerOf(c) = v
    BY DEF LocationInv, OwnInv
  <2>2. left_behind' \cup served' \cup reset' \subseteq 0 .. HandedOut - 1
    BY <2>1 DEF LocationInv, OwnInv
  <2>3. \A v \in Workers : \A c \in With(v)' \cup Again(v)' :
           c \in 0 .. HandedOut - 1 /\ WorkerOf(c) = v
    BY <1>1, <1>2, <2>1
  <2> QED
    BY <1>3, <2>2, <2>3 DEF OwnInv
<1>7. PlaceInv'
  <2> SUFFICES ASSUME NEW v \in Workers \ {w} PROVE OnePlace(v)'
    BY DEF PlaceInv
  <2>0. OnePlace(v)
    BY DEF LocationInv, PlaceInv
  <2>1. left_behind' \cap With(v)' = {} /\ reset' \cap Open(v)' = {}
    BY <1>2, <1>4, <1>5, <2>0 DEF OnePlace
  <2>2. RepeatsOnly(main_queues[v], reset')
    BY <2>0 DEF OnePlace, RepeatsOnly
  <2> QED
    BY <1>1, <2>0, <2>1, <2>2 DEF OnePlace
<1>8. MapInv'
  <2>1. \A c : InSomePlace(c) => InSomePlace(c)'
    BY <1>2, <1>3 DEF InSomePlace
  <2>2. \A c : InSomePlace(c)' => InSomePlace(c) \/ c \in reset'
    BY <1>2, <1>3 DEF InSomePlace
  <2> QED
    BY <2>1, <2>2 DEF LocationInv, MapInv
<1>9. ServedInv'
  <2> SUFFICES ASSUME NEW v \in Workers \ {w} PROVE ServedPlace(v)'
    BY DEF ServedInv
  <2>1. Queued(v) \cup Popped(v) \cup registered[v] \subseteq With(v)
    BY DEF With, Open
  <2> QED
    BY <1>1, <1>4, <2>1 DEF LocationInv, ServedInv, ServedPlace
<1> QED
  BY <1>6, <1>7, <1>8, <1>9 DEF LocationInv, FatalInv

\* A worker pops its queue when it has no functors left, and to exit only when
\* it has no connection left.
LEMMA PopMoves ==
    ASSUME ThreadInv, LocationInv, NEW w \in Workers,
           batch[w] = <<>>,
           batch' = [batch EXCEPT ![w] = worker_queues[w]],
           worker_queues' = [worker_queues EXCEPT ![w] = <<>>],
           worker_pc'[w] = "exit" => registered[w] = {},
           worker_pc[w] \notin Closers, worker_pc'[w] \notin Closers,
           \A v \in Workers \ {w} : worker_pc'[v] = worker_pc[v],
           UNCHANGED <<next_id, tcp_connect_socketfds, main_pc, registered,
                       closing, main_queues, left_behind, served, reset>>
    PROVE  LocationInv'
<1>1. /\ batch \in [Workers -> Seq(Connections)]
      /\ worker_queues \in [Workers -> Seq(Connections)]
  BY DEF ThreadInv, TypeOK
<1>2. /\ batch'[w] = worker_queues[w] /\ worker_queues'[w] = <<>>
      /\ \A v \in Workers \ {w} : /\ batch'[v] = batch[v]
                                  /\ worker_queues'[v] = worker_queues[v]
  BY <1>1
<1>3. /\ Queued(w)' = {} /\ Popped(w)' = Queued(w) /\ Popped(w) = {}
      /\ Closing(w)' = Closing(w) /\ Closed(w)' = Closed(w)
      /\ Again(w)' = Again(w)
  BY <1>2, EmptySet DEF Queued, Popped, Closing, Closed, Again, Closers
<1>4. Open(w)' = Open(w) /\ With(w)' = With(w)
  BY <1>3 DEF Open, With
<1>5. OnePlace(w)'
  BY <1>2, <1>3, <1>4, EmptySet DEF LocationInv, PlaceInv, OnePlace
<1>6. ServedPlace(w)' /\ served' \cap left_behind' = {}
  BY <1>3 DEF LocationInv, ServedInv, ServedPlace
<1>7. reset' \cap left_behind' = {}
  BY DEF LocationInv, PlaceInv
<1> QED
  BY <1>2, <1>3, <1>4, <1>5, <1>6, <1>7, WorkerKeepsLocations

\* A close event takes a connection out of the worker's poller.
LEMMA CloseMoves ==
    ASSUME ThreadInv, LocationInv, NEW w \in Workers, NEW c \in Connections,
           WorkerClose(w, c)
    PROVE  LocationInv'
<1>1. /\ registered \in [Workers -> SUBSET Connections]
      /\ closing \in [Workers -> Connections \cup {NoConnection}]
      /\ worker_pc \in [Workers -> WorkerStates]
  BY DEF ThreadInv, TypeOK
<1>2. /\ worker_pc[w] = "dispatch" /\ c \in worker_active[w]
      /\ registered' = [registered EXCEPT ![w] = registered[w] \ {c}]
      /\ closing' = [closing EXCEPT ![w] = c]
      /\ worker_pc' = [worker_pc EXCEPT ![w] = "close"]
      /\ UNCHANGED <<next_id, tcp_connect_socketfds, main_pc, worker_queues,
                     batch, main_queues, left_behind, served, reset>>
  BY DEF WorkerClose, Detach, listenVars, queueVars, historyVars
<1>3. /\ registered'[w] = registered[w] \ {c} /\ closing'[w] = c
      /\ worker_pc'[w] = "close"
      /\ \A v \in Workers \ {w} : /\ registered'[v] = registered[v]
                                  /\ closing'[v] = closing[v]
                                  /\ worker_pc'[v] = worker_pc[v]
  BY <1>1, <1>2
<1>4. c \in registered[w]
  BY <1>2 DEF ThreadInv, WorkerInv
<1>5. /\ Closing(w) = {} /\ Closing(w)' = {c}
      /\ Queued(w)' = Queued(w) /\ Popped(w)' = Popped(w)
      /\ Closed(w)' = Closed(w) /\ Again(w) = {} /\ Again(w)' = {}
  BY <1>2, <1>3 DEF Queued, Popped, Closing, Closed, Again
<1>6. Open(w)' = Open(w) /\ With(w)' = With(w)
  BY <1>3, <1>4, <1>5 DEF Open, With
<1>7. OnePlace(w)'
  BY <1>2, <1>3, <1>4, <1>5, <1>6 DEF LocationInv, PlaceInv, OnePlace
<1>8. ServedPlace(w)' /\ served' \cap left_behind' = {}
  BY <1>2, <1>3, <1>5 DEF LocationInv, ServedInv, ServedPlace
<1>9. reset' \cap left_behind' = {}
  BY <1>2 DEF LocationInv, PlaceInv
<1> QED
  BY <1>2, <1>3, <1>5, <1>6, <1>7, <1>8, <1>9, WorkerKeepsLocations

\* A close callback hands the connection to the main loop.
LEMMA PushedFunctor ==
    ASSUME ThreadInv, NEW w \in Workers, worker_pc[w] \in Closers,
           PushCloseFunctor(w)
    PROVE  \E c \in Connections :
              /\ c = closing[w]
              /\ Closed(w)' = Closed(w) \cup {c}
              /\ \A R : RepeatsOnly(main_queues[w], R)
                           /\ (c \in Closed(w) => c \in R)
                         => RepeatsOnly(main_queues'[w], R)
              /\ \A v \in Workers \ {w} : main_queues'[v] = main_queues[v]
              /\ Queued(w)' = Queued(w) /\ Popped(w)' = Popped(w)
              /\ UNCHANGED <<next_id, tcp_connect_socketfds, main_pc,
                             worker_queues, batch, registered, left_behind,
                             served>>
<1>1. /\ main_queues \in [Workers -> Seq(Connections)]
      /\ closing \in [Workers -> Connections \cup {NoConnection}]
  BY DEF ThreadInv, TypeOK
<1>2. PICK c \in Connections : c = closing[w]
  BY <1>1 DEF ThreadInv, WorkerInv
<1>3. /\ main_queues'[w] = Append(main_queues[w], c)
      /\ main_queues[w] \in Seq(Connections)
      /\ \A v \in Workers \ {w} : main_queues'[v] = main_queues[v]
  BY <1>1, <1>2 DEF PushCloseFunctor
<1>4. /\ ToSet(main_queues'[w]) = ToSet(main_queues[w]) \cup {c}
      /\ \A R : RepeatsOnly(main_queues[w], R)
                    /\ (c \in ToSet(main_queues[w]) => c \in R)
                  => RepeatsOnly(main_queues'[w], R)
  BY <1>3, AppendSet
<1>5. UNCHANGED <<next_id, tcp_connect_socketfds, main_pc, worker_queues, batch,
                  registered, left_behind, served>>
  BY DEF PushCloseFunctor, listenVars
<1>6. Queued(w)' = Queued(w) /\ Popped(w)' = Popped(w)
  BY <1>5 DEF Queued, Popped
<1> QED
  BY <1>2, <1>3, <1>4, <1>5, <1>6 DEF Closed

\* The only close callback of a connection, or the first of one that the peer
\* has reset.
LEMMA ClosedMoves ==
    ASSUME ThreadInv, LocationInv, NEW w \in Workers,
           PushClose(w) \/ PushCloseOfReset(w)
    PROVE  LocationInv'
<1>1. /\ closing \in [Workers -> Connections \cup {NoConnection}]
      /\ worker_pc \in [Workers -> WorkerStates]
  BY DEF ThreadInv, TypeOK
<1>2. worker_pc[w] = "close" /\ PushCloseFunctor(w)
  BY DEF PushClose, PushCloseOfReset
<1>3. PICK c \in Connections :
         /\ c = closing[w]
         /\ Closed(w)' = Closed(w) \cup {c}
         /\ \A R : RepeatsOnly(main_queues[w], R)
                      /\ (c \in Closed(w) => c \in R)
                    => RepeatsOnly(main_queues'[w], R)
         /\ \A v \in Workers \ {w} : main_queues'[v] = main_queues[v]
         /\ Queued(w)' = Queued(w) /\ Popped(w)' = Popped(w)
         /\ UNCHANGED <<next_id, tcp_connect_socketfds, main_pc, worker_queues,
                        batch, registered, left_behind, served>>
  BY <1>2, PushedFunctor DEF Closers
<1>4. /\ \A v \in Workers \ {w} : /\ closing'[v] = closing[v]
                                  /\ worker_pc'[v] = worker_pc[v]
      /\ \/ reset' = reset /\ worker_pc'[w] = "dispatch"
         \/ /\ reset' = reset \cup {c} /\ worker_pc'[w] = "close again"
            /\ closing'[w] = c
  BY <1>1, <1>3 DEF PushClose, PushCloseOfReset
<1>5. /\ Closing(w) = {c} /\ Closing(w)' = {} /\ Again(w) = {}
      /\ Again(w)' \subseteq {c} /\ Again(w)' \subseteq reset' \ reset
  <2>1. Closing(w) = {c} /\ Again(w) = {} /\ Closing(w)' = {}
    BY <1>2, <1>3, <1>4 DEF Closing, Again
  <2>2. c \notin reset
    BY <2>1 DEF LocationInv, PlaceInv, OnePlace, Open
  <2>3. Again(w)' \subseteq {c} /\ Again(w)' \subseteq reset' \ reset
    BY <1>4, <2>2 DEF Again
  <2> QED
    BY <2>1, <2>3
<1>6. /\ c \in Open(w) /\ Open(w)' = Open(w) \ {c}
      /\ With(w)' = With(w) /\ c \in With(w)
  BY <1>3, <1>5 DEF LocationInv, PlaceInv, OnePlace, Open, With
<1>7. RepeatsOnly(main_queues'[w], reset')
  <2>1. c \notin Closed(w) /\ RepeatsOnly(main_queues[w], reset)
    BY <1>5 DEF LocationInv, PlaceInv, OnePlace
  <2>2. RepeatsOnly(main_queues'[w], reset)
    BY <1>3, <2>1
  <2> QED
    BY <1>4, <2>2 DEF RepeatsOnly
<1>8. reset' \subseteq reset \cup {c} /\ reset \subseteq reset'
  BY <1>4
<1>9. OnePlace(w)'
  <2>1. reset' \cap Open(w)' = {} /\ Again(w)' \subseteq reset'
    BY <1>5, <1>6, <1>8 DEF LocationInv, PlaceInv, OnePlace
  <2> QED
    BY <1>3, <1>5, <1>6, <1>7, <2>1 DEF LocationInv, PlaceInv, OnePlace
<1>10. ServedPlace(w)' /\ served' \cap left_behind' = {}
  BY <1>3, <1>4 DEF LocationInv, ServedInv, ServedPlace
<1>11. reset' \cap left_behind' = {}
  BY <1>3, <1>6, <1>8 DEF LocationInv, PlaceInv, OnePlace
<1> QED
  BY <1>3, <1>4, <1>5, <1>6, <1>8, <1>9, <1>10, <1>11, WorkerKeepsLocations

\* The second close callback of a connection that the peer has reset.
LEMMA ClosedAgainMoves ==
    ASSUME ThreadInv, LocationInv, NEW w \in Workers, PushCloseAgain(w)
    PROVE  LocationInv'
<1>1. /\ closing \in [Workers -> Connections \cup {NoConnection}]
      /\ worker_pc \in [Workers -> WorkerStates]
  BY DEF ThreadInv, TypeOK
<1>2. worker_pc[w] = "close again" /\ PushCloseFunctor(w)
  BY DEF PushCloseAgain
<1>3. PICK c \in Connections :
         /\ c = closing[w]
         /\ Closed(w)' = Closed(w) \cup {c}
         /\ \A R : RepeatsOnly(main_queues[w], R)
                      /\ (c \in Closed(w) => c \in R)
                    => RepeatsOnly(main_queues'[w], R)
         /\ \A v \in Workers \ {w} : main_queues'[v] = main_queues[v]
         /\ Queued(w)' = Queued(w) /\ Popped(w)' = Popped(w)
         /\ UNCHANGED <<next_id, tcp_connect_socketfds, main_pc, worker_queues,
                        batch, registered, left_behind, served>>
  BY <1>2, PushedFunctor DEF Closers
<1>4. /\ \A v \in Workers \ {w} : /\ closing'[v] = closing[v]
                                  /\ worker_pc'[v] = worker_pc[v]
      /\ reset' = reset /\ worker_pc'[w] = "dispatch"
  BY <1>1 DEF PushCloseAgain
<1>5. /\ Closing(w) = {} /\ Closing(w)' = {}
      /\ Again(w) = {c} /\ Again(w)' = {}
  BY <1>2, <1>3, <1>4 DEF Closing, Again
<1>6. c \in reset /\ c \notin Open(w) /\ c \notin left_behind
  BY <1>5 DEF LocationInv, PlaceInv, OnePlace
<1>7. Open(w)' = Open(w) /\ With(w)' = With(w) \cup {c}
  BY <1>3, <1>5 DEF Open, With
<1>8. RepeatsOnly(main_queues'[w], reset)
  BY <1>3, <1>6 DEF LocationInv, PlaceInv, OnePlace
<1>9. OnePlace(w)'
  BY <1>3, <1>4, <1>5, <1>6, <1>7, <1>8
     DEF LocationInv, PlaceInv, OnePlace, Open
<1>10. ServedPlace(w)' /\ served' \cap left_behind' = {}
  BY <1>3, <1>4 DEF LocationInv, ServedInv, ServedPlace
<1>11. reset' \cap left_behind' = {}
  BY <1>3, <1>4 DEF LocationInv, PlaceInv
<1> QED
  BY <1>3, <1>4, <1>5, <1>6, <1>7, <1>9, <1>10, <1>11, WorkerKeepsLocations

\* A functor registers its connection; only a loop that goes on serves it.
LEMMA RegisterMoves ==
    ASSUME ThreadInv, LocationInv, NEW w \in Workers, WorkerRegister(w)
    PROVE  LocationInv'
<1>1. /\ batch \in [Workers -> Seq(Connections)]
      /\ registered \in [Workers -> SUBSET Connections]
  BY DEF ThreadInv, TypeOK
<1>2. /\ batch[w] # <<>>
      /\ registered' = [registered EXCEPT ![w] = @ \cup {Head(batch[w])}]
      /\ batch' = [batch EXCEPT ![w] = Tail(@)]
      /\ served' = IF worker_pc[w] = "exit" THEN served
                   ELSE served \cup {Head(batch[w])}
      /\ UNCHANGED <<next_id, tcp_connect_socketfds, main_pc, worker_queues,
                     worker_pc, main_queues, closing, left_behind, reset>>
  BY DEF WorkerRegister, listenVars, queueVars
<1>3. PICK c \in Connections : c = Head(batch[w])
  BY <1>1, <1>2
<1>4. /\ batch[w] \in Seq(Connections) /\ IsInjective(batch[w])
      /\ batch'[w] = Tail(batch[w])
      /\ registered'[w] = registered[w] \cup {c}
      /\ \A v \in Workers \ {w} : /\ batch'[v] = batch[v]
                                  /\ registered'[v] = registered[v]
  BY <1>1, <1>2, <1>3 DEF LocationInv, PlaceInv, OnePlace
<1>5. /\ c \in ToSet(batch[w])
      /\ ToSet(batch'[w]) = ToSet(batch[w]) \ {c}
      /\ IsInjective(batch'[w])
  BY <1>2, <1>3, <1>4, TailSet
<1>6. /\ c \in Popped(w) /\ Popped(w)' = Popped(w) \ {c}
      /\ Queued(w)' = Queued(w) /\ Closing(w)' = Closing(w)
      /\ Closed(w)' = Closed(w) /\ Again(w)' = Again(w)
  BY <1>2, <1>5 DEF Queued, Popped, Closing, Closed, Again
<1>7. Open(w)' = Open(w) /\ With(w)' = With(w) /\ c \in With(w)
  BY <1>4, <1>6 DEF Open, With
<1>8. OnePlace(w)'
  BY <1>2, <1>4, <1>5, <1>6, <1>7 DEF LocationInv, PlaceInv, OnePlace
<1>9. c \notin left_behind /\ c \notin Queued(w) /\ c \notin served
  BY <1>6, <1>7 DEF LocationInv, PlaceInv, OnePlace, ServedInv, ServedPlace
<1>10. ServedPlace(w)' /\ served' \cap left_behind' = {}
         /\ served' \subseteq served \cup With(w)
  BY <1>2, <1>3, <1>4, <1>6, <1>7, <1>9 DEF LocationInv, ServedInv, ServedPlace
<1>11. reset' \cap left_behind' = {}
  BY <1>2 DEF LocationInv, PlaceInv
<1> QED
  BY <1>2, <1>4, <1>6, <1>7, <1>8, <1>10, <1>11, WorkerKeepsLocations

\* A loop that is destroyed leaves what it registered on its way out.
LEMMA ExitMoves ==
    ASSUME ThreadInv, LocationInv, NEW w \in Workers, WorkerExit(w)
    PROVE  LocationInv'
<1>1. /\ registered \in [Workers -> SUBSET Connections]
      /\ worker_pc \in [Workers -> WorkerStates]
  BY DEF ThreadInv, TypeOK
<1>2. /\ worker_pc[w] = "exit"
      /\ left_behind' = left_behind \cup registered[w]
      /\ registered' = [registered EXCEPT ![w] = {}]
      /\ worker_pc' = [worker_pc EXCEPT ![w] = "exited"]
      /\ UNCHANGED <<next_id, tcp_connect_socketfds, main_pc, worker_queues,
                     batch, main_queues, closing, served, reset>>
  BY DEF WorkerExit, listenVars, queueVars
<1>3. /\ registered'[w] = {} /\ worker_pc'[w] = "exited"
      /\ \A v \in Workers \ {w} : /\ registered'[v] = registered[v]
                                  /\ worker_pc'[v] = worker_pc[v]
  BY <1>1, <1>2
<1>4. /\ Queued(w)' = Queued(w) /\ Popped(w)' = Popped(w)
      /\ Closing(w)' = {} /\ Closing(w) = {} /\ Closed(w)' = Closed(w)
      /\ Again(w)' = {} /\ Again(w) = {}
  BY <1>2, <1>3 DEF Queued, Popped, Closing, Closed, Again
<1>5. /\ With(w)' = Queued(w) \cup Popped(w) \cup Closed(w)
      /\ With(w) = With(w)' \cup registered[w]
      /\ Open(w)' \subseteq Open(w) /\ registered[w] \subseteq Open(w)
  BY <1>3, <1>4 DEF Open, With
<1>6. OnePlace(w)'
  BY <1>2, <1>3, <1>4, <1>5 DEF LocationInv, PlaceInv, OnePlace
<1>7. ServedPlace(w)' /\ served' \cap left_behind' = {}
  BY <1>2, <1>3, <1>4 DEF LocationInv, ServedInv, ServedPlace
<1>8. reset' \cap left_behind' = {}
  BY <1>2, <1>5 DEF LocationInv, PlaceInv, OnePlace
<1> QED
  BY <1>2, <1>3, <1>4, <1>5, <1>6, <1>7, <1>8, WorkerKeepsLocations

\* A functor that does not find its connection is of one that has been reset.
LEMMA MissingWasReset ==
    ASSUME LocationInv, main_pc \notin {"done", "advance"}, ~ AllEntriesFound,
           TypeOK
    PROVE  reset # {}
<1> SUFFICES ASSUME reset = {} PROVE AllEntriesFound
  OBVIOUS
<1>1. \A w \in Workers : Closed(w) \subseteq Connections
  BY DEF TypeOK, Closed, ToSet
<1>2. \A w \in Workers : \A c \in Closed(w) : InSomePlace(c)
  BY DEF InSomePlace, With
<1>3. \A w \in Workers : Closed(w) \subseteq tcp_connect_socketfds
  BY <1>1, <1>2 DEF LocationInv, MapInv
<1>4. \A w \in Workers : IsInjective(main_queues[w])
  <2>1. \A w \in Workers : RepeatsOnly(main_queues[w], {})
    BY DEF LocationInv, PlaceInv, OnePlace
  <2> QED
    BY <2>1 DEF RepeatsOnly, IsInjective
<1>5. \A v, w \in Workers : v # w => Closed(v) \cap Closed(w) = {}
  BY DEF LocationInv, OwnInv, With
<1> QED
  BY <1>3, <1>4, <1>5 DEF AllEntriesFound, Closed

\* The functors of the main loop's queues erase exactly the connections that
\* are in these queues, and nothing that is in another place; or one of them
\* ends the process.
LEMMA EraseMoves ==
    ASSUME TypeOK, LocationInv, NEW pc, InvokeAllFunctors(pc),
           main_pc \notin {"register", "done", "advance"},
           pc \notin {"register", "done", "advance", "fatal"},
           UNCHANGED <<worker_queues, batch, registered, closing, left_behind,
                       served, reset, next_id, worker_pc>>
    PROVE  LocationInv'
<1>0. CASE ~ AllEntriesFound
  <2>1. main_pc' = "fatal" /\ UNCHANGED <<tcp_connect_socketfds, main_queues>>
    BY <1>0 DEF InvokeAllFunctors
  <2>2. reset # {}
    BY <1>0, MissingWasReset
  <2>3. /\ \A w \in Workers :
              /\ Queued(w)' = Queued(w) /\ Popped(w)' = Popped(w)
              /\ Closing(w)' = Closing(w) /\ Closed(w)' = Closed(w)
              /\ Again(w)' = Again(w)
        /\ Registering' = Registering /\ HandedOut' = HandedOut
    BY <2>1 DEF Queued, Popped, Closing, Closed, Again, Registering, HandedOut
  <2>4. \A w \in Workers : Open(w)' = Open(w) /\ With(w)' = With(w)
    BY <2>3 DEF Open, With
  <2>5. OwnInv' /\ PlaceInv'
    BY <2>1, <2>3, <2>4 DEF LocationInv, OwnInv, PlaceInv, OnePlace
  <2>6. MapInv'
    BY <2>1, <2>3, <2>4 DEF LocationInv, MapInv, InSomePlace
  <2>7. ServedInv' /\ FatalInv'
    BY <2>2, <2>3 DEF LocationInv, ServedInv, ServedPlace, FatalInv
  <2> QED
    BY <2>5, <2>6, <2>7 DEF LocationInv
<1> SUFFICES ASSUME AllEntriesFound PROVE LocationInv'
  BY <1>0
<1>1. /\ Registering = {} /\ Registering' = {} /\ HandedOut' = HandedOut
      /\ main_pc' \notin {"register", "done", "advance", "fatal"}
  BY DEF InvokeAllFunctors, Registering, HandedOut
<1>2. \A w \in Workers : main_queues'[w] = <<>>
  BY DEF InvokeAllFunctors
<1>3. \A w \in Workers :
         /\ Queued(w)' = Queued(w) /\ Popped(w)' = Popped(w)
         /\ Closing(w)' = Closing(w) /\ Closed(w)' = {}
         /\ Again(w)' = Again(w)
  BY <1>2, EmptySet DEF Queued, Popped, Closing, Closed, Again
<1>4. \A w \in Workers : /\ Open(w)' = Open(w) /\ With(w)' = Open(w)
                         /\ Open(w) = With(w) \ Closed(w)
  BY <1>3 DEF Open, With, LocationInv, PlaceInv, OnePlace
<1>5. tcp_connect_socketfds' =
          tcp_connect_socketfds \ UNION {Closed(w) : w \in Workers}
  BY DEF InvokeAllFunctors, Closed
<1>6. \A w \in Workers : Closed(w) \subseteq With(w)
  BY DEF With
<1>7. OwnInv'
  BY <1>1, <1>3, <1>4 DEF LocationInv, OwnInv
<1>8. PlaceInv'
  <2> SUFFICES ASSUME NEW w \in Workers PROVE OnePlace(w)'
    BY DEF LocationInv, PlaceInv
  <2> QED
    BY <1>2, <1>3, <1>4, EmptySet DEF LocationInv, PlaceInv, OnePlace
<1>9. MapInv'
  <2> SUFFICES ASSUME NEW c \in Connections
               PROVE  /\ c \in tcp_connect_socketfds' => InSomePlace(c)'
                      /\ InSomePlace(c)' =>
                            c \in tcp_connect_socketfds' \cup reset
    BY DEF MapInv
  <2>1. /\ c \in tcp_connect_socketfds => InSomePlace(c)
        /\ InSomePlace(c) => c \in tcp_connect_socketfds \cup reset
    BY DEF LocationInv, MapInv
  <2>2. InSomePlace(c) <=> c \in left_behind \/ \E w \in Workers : c \in With(w)
    BY <1>1 DEF InSomePlace
  <2>3. InSomePlace(c)' <=>
            c \in left_behind \/ \E w \in Workers : c \in Open(w)
    BY <1>1, <1>4 DEF InSomePlace
  <2>4. c \in tcp_connect_socketfds' <=>
            /\ c \in tcp_connect_socketfds
            /\ \A w \in Workers : c \notin Closed(w)
    BY <1>5
  <2>5. ASSUME NEW w \in Workers, c \in Open(w), NEW v \in Workers
        PROVE  c \notin Closed(v)
    BY <1>4, <1>6, <2>5 DEF LocationInv, OwnInv
  <2>6. c \in left_behind => \A w \in Workers : c \notin With(w)
    BY DEF LocationInv, PlaceInv, OnePlace
  <2>7. InSomePlace(c)' =>
            InSomePlace(c) /\ \A w \in Workers : c \notin Closed(w)
    BY <1>4, <1>6, <2>2, <2>3, <2>5, <2>6
  <2>8. InSomePlace(c) /\ (\A w \in Workers : c \notin Closed(w))
            => InSomePlace(c)'
    BY <1>4, <2>2, <2>3
  <2> QED
    BY <2>1, <2>4, <2>7, <2>8
<1>10. ServedInv' /\ FatalInv'
  BY <1>1, <1>3 DEF LocationInv, ServedInv, ServedPlace, FatalInv
<1> QED
  BY <1>7, <1>8, <1>9, <1>10 DEF LocationInv

\* Every step of the main thread keeps the locations.
LEMMA MainLocationStep ==
    ASSUME ThreadInv, LocationInv, MainStep
    PROVE  LocationInv'
<1> USE DEF outsideVars, listenVars, stopVars, queueVars, threadVars,
            dispatchVars, workerVars, historyVars
<1>0. starting \in Workers /\ worker_pc \in [Workers -> WorkerStates]
  BY DEF ThreadInv, TypeOK
<1>15. TypeOK
  BY DEF ThreadInv
<1>1. CASE StartListening \/ AwaitTid \/ AwaitLoop
  <2>1. main_pc \in Starting
    BY <1>1 DEF StartListening, AwaitTid, AwaitLoop, Starting
  <2>2. main_pc' \in {"start thread", "await loop", "check"}
    BY <1>1 DEF StartListening, AwaitTid, AwaitLoop
  <2>3. UNCHANGED <<worker_queues, batch, registered, closing, main_queues,
                    left_behind, served, reset, next_id, worker_pc,
                    tcp_connect_socketfds>>
    BY <1>1 DEF StartListening, AwaitTid, AwaitLoop
  <2> QED
    BY <2>1, <2>2, <2>3, NothingMoves DEF Starting
<1>2. CASE CreateThread
  <2>0. worker_pc[starting] = "none"
    BY <1>2 DEF CreateThread, ThreadInv, StartInv
  <2>1. \A w \in Workers :
           \/ worker_pc'[w] = worker_pc[w]
           \/ worker_pc[w] = "none" /\ worker_pc'[w] = "created"
    BY <1>0, <1>2, <2>0 DEF CreateThread
  <2> QED
    BY <1>2, <2>1, NothingMoves DEF CreateThread
<1>3. CASE MainCheck
  <2>1. main_pc = "check"
    BY <1>3 DEF MainCheck
  <2>2. InvokeAllFunctors("exited") \/ KeepFunctors("poll")
    BY <1>3 DEF MainCheck, ExitDrain
  <2>3. UNCHANGED <<worker_queues, batch, registered, closing, left_behind,
                    served, reset, next_id, worker_pc>>
    BY <1>3 DEF MainCheck
  <2> QED
    <3>1. CASE InvokeAllFunctors("exited")
      BY <1>15, <2>1, <2>3, <3>1, EraseMoves
    <3>2. CASE KeepFunctors("poll")
      BY <2>1, <2>3, <3>2, NothingMoves DEF KeepFunctors
    <3> QED
      BY <2>2, <3>1, <3>2
<1>4. CASE MainPoll
  BY <1>4, NothingMoves DEF MainPoll
<1>5. CASE DispatchListen
  BY <1>5, NothingMoves DEF DispatchListen
<1>6. CASE AcceptConnection
  BY <1>6, AcceptMoves
<1>7. CASE PushRegistration
  BY <1>7, RegistrationMoves
<1>8. CASE AcceptAborted \/ AcceptEnds
  BY <1>8, NothingMoves DEF AcceptAborted, AcceptEnds
<1>9. CASE DispatchSignal
  BY <1>9, NothingMoves DEF DispatchSignal
<1>10. CASE StopWait
  <2>1. main_pc = "stop wait" /\ InvokeAllFunctors("stop join")
    BY <1>10 DEF StopWait, StopDrain
  <2>2. UNCHANGED <<worker_queues, batch, registered, closing, left_behind,
                    served, reset, next_id, worker_pc>>
    BY <1>10 DEF StopWait
  <2> QED
    BY <1>15, <2>1, <2>2, EraseMoves
<1>11. CASE StopJoin
  BY <1>11, NothingMoves DEF StopJoin
<1>12. CASE MainDrain
  <2>1. main_pc = "dispatch"
    BY <1>12 DEF MainDrain
  <2>2. InvokeAllFunctors("check") \/ KeepFunctors("check")
    BY <1>12 DEF MainDrain
  <2>3. UNCHANGED <<worker_queues, batch, registered, closing, left_behind,
                    served, reset, next_id, worker_pc>>
    BY <1>12 DEF MainDrain
  <2> QED
    <3>1. CASE InvokeAllFunctors("check")
      BY <1>15, <2>1, <2>3, <3>1, EraseMoves
    <3>2. CASE KeepFunctors("check")
      BY <2>1, <2>3, <3>2, NothingMoves DEF KeepFunctors
    <3> QED
      BY <2>2, <3>1, <3>2
<1>13. CASE DestroyEmpty
  BY <1>13, NothingMoves DEF DestroyEmpty
<1>14. CASE DestroyReset
  BY <1>14, NothingMoves DEF DestroyReset
<1> QED
  BY <1>1, <1>2, <1>3, <1>4, <1>5, <1>6, <1>7, <1>8, <1>9, <1>10, <1>11, <1>12,
     <1>13, <1>14 DEF MainStep

\* Every step of a worker keeps the locations.
LEMMA WorkerLocationStep ==
    ASSUME ThreadInv, LocationInv, NEW w \in Workers, WorkerStep(w)
    PROVE  LocationInv'
<1> USE DEF outsideVars, listenVars, stopVars, queueVars, threadVars,
            dispatchVars, workerVars, historyVars
<1>0. worker_pc \in [Workers -> WorkerStates]
  BY DEF ThreadInv, TypeOK
<1>1. ASSUME worker_pc'[w] # "exit",
             worker_pc[w] \notin Closers, worker_pc'[w] \notin Closers,
             \A v \in Workers \ {w} : worker_pc'[v] = worker_pc[v],
             UNCHANGED <<worker_queues, batch, registered, closing, main_queues,
                         left_behind, served, reset, next_id, main_pc,
                         tcp_connect_socketfds>>
      PROVE  LocationInv'
  BY <1>1, NothingMoves DEF Closers
<1>2. CASE ThreadRuns(w)
  BY <1>0, <1>1, <1>2 DEF ThreadRuns, Closers
<1>3. CASE MakeLoop(w)
  BY <1>0, <1>1, <1>3 DEF MakeLoop, Closers
<1>4. CASE WorkerCheck(w)
  <2>1. batch[w] = <<>>
    BY <1>4 DEF WorkerCheck, ThreadInv, WorkerInv
  <2>2. CASE MayExit(w)
    BY <1>0, <1>4, <2>1, <2>2, PopMoves DEF WorkerCheck, MayExit, Closers
  <2>3. CASE ~ MayExit(w)
    BY <1>0, <1>1, <1>4, <2>3 DEF WorkerCheck, Closers
  <2> QED
    BY <2>2, <2>3
<1>5. CASE WorkerPoll(w)
  BY <1>0, <1>1, <1>5 DEF WorkerPoll, Closers
<1>6. CASE \E c \in Connections : WorkerClose(w, c)
  BY <1>6, CloseMoves
<1>7. CASE PushClose(w) \/ PushCloseOfReset(w) \/ PushCloseAgain(w)
  BY <1>7, ClosedMoves, ClosedAgainMoves
<1>8. CASE WorkerPopAll(w)
  <2>1. batch[w] = <<>>
    BY <1>8 DEF WorkerPopAll, ThreadInv, WorkerInv
  <2>2. CASE triggered[w]
    BY <1>0, <1>8, <2>1, <2>2, PopMoves DEF WorkerPopAll, Closers
  <2>3. CASE ~ triggered[w]
    BY <1>0, <1>1, <1>8, <2>3 DEF WorkerPopAll, Closers
  <2> QED
    BY <2>2, <2>3
<1>9. CASE WorkerRegister(w)
  BY <1>9, RegisterMoves
<1>10. CASE WorkerFunctorsDone(w)
  BY <1>0, <1>1, <1>10 DEF WorkerFunctorsDone, Closers
<1>11. CASE WorkerExit(w)
  BY <1>11, ExitMoves
<1> QED
  BY <1>2, <1>3, <1>4, <1>5, <1>6, <1>7, <1>8, <1>9, <1>10, <1>11
     DEF WorkerStep

\* Before the first connection every place is empty.
LEMMA LocationInit == Init => LocationInv
<1> SUFFICES ASSUME Init PROVE LocationInv
  OBVIOUS
<1>1. \A w \in Workers :
         /\ Queued(w) = {} /\ Popped(w) = {} /\ Closing(w) = {}
         /\ Closed(w) = {} /\ registered[w] = {} /\ Again(w) = {}
  BY EmptySet DEF Init, Queued, Popped, Closing, Closed, Again
<1>2. \A w \in Workers : Open(w) = {} /\ With(w) = {}
  BY <1>1 DEF Open, With
<1>3. Registering = {}
  BY DEF Init, Registering
<1>4. OwnInv
  BY <1>1, <1>2 DEF Init, OwnInv
<1>5. PlaceInv
  BY <1>1, <1>2, EmptySet DEF Init, PlaceInv, OnePlace
<1>6. MapInv
  BY <1>2, <1>3 DEF Init, MapInv, InSomePlace
<1>7. ServedInv
  BY <1>1 DEF Init, ServedInv, ServedPlace
<1> QED
  BY <1>4, <1>5, <1>6, <1>7 DEF Init, LocationInv, FatalInv

\* Threads and locations together are invariant.
LEMMA ServerInvariant == Spec => []ServerInv
<1>1. Init => ServerInv
  BY ThreadInit, LocationInit DEF ServerInv
<1>2. ServerInv /\ [Next]_vars => ServerInv'
  <2> SUFFICES ASSUME ThreadInv, LocationInv, [Next]_vars PROVE LocationInv'
    BY ThreadStep DEF ServerInv
  <2>1. CASE MainStep
    BY <2>1, MainLocationStep
  <2>2. CASE \E w \in Workers : WorkerStep(w)
    BY <2>2, WorkerLocationStep
  <2>3. CASE \/ ClientConnects \/ SignalArrives
             \/ (\E c \in Connections : ConnectionEnds(c)) \/ UNCHANGED vars
    <3>1. UNCHANGED <<worker_queues, batch, registered, closing, main_queues,
                      left_behind, served, reset, next_id, main_pc, worker_pc,
                      tcp_connect_socketfds>>
      BY <2>3, OutsideMoves
         DEF listenVars, queueVars, workerVars, dispatchVars, historyVars
    <3> QED
      BY <3>1, NothingMoves
  <2> QED
    BY <2>1, <2>2, <2>3 DEF Next, OutsideStep
<1> QED
  BY <1>1, <1>2, PTL DEF Spec

-----------------------------------------------------------------------------
(* Graceful stop, and the account of the connections *)

\* When the main loop has ended, the map holds exactly the connections that a
\* worker registered on its way out; every connection that was served has been
\* closed by its worker and erased.
THEOREM StopFinishesServed == Spec => []StopIsGraceful
<1>1. ServerInv => StopIsGraceful
  <2> SUFFICES ASSUME ServerInv, main_pc = "exited"
               PROVE  /\ tcp_connect_socketfds = left_behind
                      /\ left_behind \cap served = {}
    BY DEF StopIsGraceful
  <2>1. \A w \in Workers : worker_pc[w] = "exited" /\ main_queues[w] = <<>>
    BY DEF ServerInv, ThreadInv, StopInv, IsJoinable
  <2>2. \A w \in Workers :
           batch[w] = <<>> /\ worker_queues[w] = <<>> /\ registered[w] = {}
    BY <2>1 DEF ServerInv, ThreadInv, WorkerInv
  <2>3. \A w \in Workers :
           /\ Queued(w) = {} /\ Popped(w) = {} /\ Closing(w) = {}
           /\ Closed(w) = {} /\ registered[w] = {}
    BY <2>1, <2>2, EmptySet DEF Queued, Popped, Closing, Closed
  <2>4. (\A w \in Workers : With(w) = {}) /\ Registering = {}
    BY <2>3 DEF Open, With, Registering
  <2>5. \A c \in Connections : c \in tcp_connect_socketfds <=> c \in left_behind
    BY <2>4
       DEF ServerInv, LocationInv, MapInv, InSomePlace, PlaceInv
  <2>6. /\ tcp_connect_socketfds \subseteq Connections
        /\ left_behind \subseteq Connections
    BY DEF ServerInv, ThreadInv, TypeOK
  <2>7. left_behind \cap served = {}
    BY DEF ServerInv, LocationInv, ServedInv
  <2> QED
    BY <2>5, <2>6, <2>7
<1> QED
  BY <1>1, ServerInvariant, PTL

\* What Places says of a connection, in terms of the places of its worker.
LEMMA PlacesOf ==
    ASSUME NEW c \in Connections
    PROVE  \A p : p \in Places(c) <=>
              \/ p = "registering" /\ c \in Registering
              \/ p = "queued" /\ \E w \in Workers : c \in Queued(w)
              \/ p = "popped" /\ \E w \in Workers : c \in Popped(w)
              \/ p = "registered" /\ \E w \in Workers : c \in registered[w]
              \/ p = "closing" /\ \E w \in Workers : c \in Closing(w)
              \/ p = "closed" /\ \E w \in Workers : c \in Closed(w)
              \/ p = "left behind" /\ c \in left_behind
<1>2. \A w \in Workers :
         worker_pc[w] = "close" /\ closing[w] = c <=> c \in Closing(w)
  BY DEF Closing
<1>3. c \in Registering <=> main_pc = "register" /\ c = next_id - 1
  BY DEF Registering
<1> QED
  BY <1>2, <1>3, Zenon DEF Places, Queued, Popped, Closed

\* A set whose only element is x is the set of x.
LEMMA SingleElement ==
    ASSUME NEW S, NEW x, \A p : p \in S <=> p = x
    PROVE  S = {x}
OBVIOUS

\* A connection of the map is in exactly one place, any other in none, unless
\* it has been reset and has a close functor left.
LEMMA OnePlaceEach ==
    ASSUME ServerInv, main_pc \notin {"done", "advance"}, NEW c \in Connections
    PROVE  /\ c \in tcp_connect_socketfds => \E p : Places(c) = {p}
           /\ c \notin tcp_connect_socketfds =>
                 Places(c) \subseteq IF c \in reset THEN {"closed"} ELSE {}
<1> DEFINE R == c \in Registering
           Q == \E w \in Workers : c \in Queued(w)
           P == \E w \in Workers : c \in Popped(w)
           G == \E w \in Workers : c \in registered[w]
           C == \E w \in Workers : c \in Closing(w)
           D == \E w \in Workers : c \in Closed(w)
           L == c \in left_behind
<1>1. \A p : p \in Places(c) <=>
         \/ p = "registering" /\ R
         \/ p = "queued" /\ Q
         \/ p = "popped" /\ P
         \/ p = "registered" /\ G
         \/ p = "closing" /\ C
         \/ p = "closed" /\ D
         \/ p = "left behind" /\ L
  BY PlacesOf, Zenon
<1>2. \A w \in Workers : c \in With(w) <=> \/ c \in Queued(w) \/ c \in Popped(w)
                                            \/ c \in registered[w]
                                            \/ c \in Closing(w)
                                            \/ c \in Closed(w)
  BY DEF With, Open
<1>3. /\ c \in tcp_connect_socketfds => R \/ Q \/ P \/ G \/ C \/ D \/ L
      /\ R \/ Q \/ P \/ G \/ C \/ D \/ L
             => c \in tcp_connect_socketfds \cup reset
  <2>1. /\ c \in tcp_connect_socketfds => InSomePlace(c)
        /\ InSomePlace(c) => c \in tcp_connect_socketfds \cup reset
    BY DEF ServerInv, LocationInv, MapInv
  <2>2. InSomePlace(c) <=> R \/ Q \/ P \/ G \/ C \/ D \/ L
    BY <1>2 DEF InSomePlace
  <2> QED
    BY <2>1, <2>2
<1>4. \A v, w \in Workers : c \in With(v) /\ c \in With(w) => v = w
  BY DEF ServerInv, LocationInv, OwnInv
<1>5. R => ~ Q /\ ~ P /\ ~ G /\ ~ C /\ ~ D /\ ~ L
  <2> SUFFICES ASSUME R PROVE (\A w \in Workers : c \notin With(w)) /\ ~ L
    BY <1>2
  <2>1. c = HandedOut /\ c \in Nat
    BY ConstantFacts DEF Registering, HandedOut
  <2>2. c \notin 0 .. HandedOut - 1
    BY <2>1
  <2> QED
    BY <2>2 DEF ServerInv, LocationInv, OwnInv
<1>6. L => ~ Q /\ ~ P /\ ~ G /\ ~ C /\ ~ D
  <2>1. L => \A w \in Workers : c \notin With(w)
    BY DEF ServerInv, LocationInv, PlaceInv, OnePlace
  <2> QED
    BY <1>2, <2>1
<1>7. \A w \in Workers : OnePlace(w)
  BY DEF ServerInv, LocationInv, PlaceInv
<1>8. Q => ~ P /\ ~ G /\ ~ C /\ ~ D
  BY <1>2, <1>4, <1>7 DEF OnePlace
<1>9. P => ~ G /\ ~ C /\ ~ D
  BY <1>2, <1>4, <1>7 DEF OnePlace
<1>10. G => ~ C /\ ~ D
  BY <1>2, <1>4, <1>7 DEF OnePlace
<1>11. C => ~ D
  BY <1>2, <1>4, <1>7 DEF OnePlace
<1>20. c \in reset => ~ R /\ ~ Q /\ ~ P /\ ~ G /\ ~ C /\ ~ L
  <2> SUFFICES ASSUME c \in reset PROVE ~ R /\ ~ Q /\ ~ P /\ ~ G /\ ~ C /\ ~ L
    OBVIOUS
  <2>1. \A w \in Workers : c \notin Open(w)
    BY <1>7 DEF OnePlace
  <2>2. ~ Q /\ ~ P /\ ~ G /\ ~ C
    BY <2>1 DEF Open
  <2>3. ~ L
    BY DEF ServerInv, LocationInv, PlaceInv
  <2>4. ~ R
    <3> SUFFICES ASSUME R PROVE FALSE
      OBVIOUS
    <3>1. c = HandedOut /\ c \in Nat
      BY ConstantFacts DEF Registering, HandedOut
    <3>2. c \notin 0 .. HandedOut - 1
      BY <3>1
    <3> QED
      BY <3>2 DEF ServerInv, LocationInv, OwnInv
  <2> QED
    BY <2>2, <2>3, <2>4
<1> HIDE DEF R, Q, P, G, C, D, L
<1>12. CASE R
  <2>1. \A p : p \in Places(c) <=> p = "registering"
    BY <1>1, <1>5, <1>12
  <2>2. Places(c) = {"registering"}
    BY <2>1, SingleElement
  <2> QED
    BY <1>3, <1>20, <1>12, <2>2
<1>13. CASE Q
  <2>1. \A p : p \in Places(c) <=> p = "queued"
    BY <1>1, <1>5, <1>6, <1>8, <1>13
  <2>2. Places(c) = {"queued"}
    BY <2>1, SingleElement
  <2> QED
    BY <1>3, <1>20, <1>13, <2>2
<1>14. CASE P
  <2>1. \A p : p \in Places(c) <=> p = "popped"
    BY <1>1, <1>5, <1>6, <1>8, <1>9, <1>14
  <2>2. Places(c) = {"popped"}
    BY <2>1, SingleElement
  <2> QED
    BY <1>3, <1>20, <1>14, <2>2
<1>15. CASE G
  <2>1. \A p : p \in Places(c) <=> p = "registered"
    BY <1>1, <1>5, <1>6, <1>8, <1>9, <1>10, <1>15
  <2>2. Places(c) = {"registered"}
    BY <2>1, SingleElement
  <2> QED
    BY <1>3, <1>20, <1>15, <2>2
<1>16. CASE C
  <2>1. \A p : p \in Places(c) <=> p = "closing"
    BY <1>1, <1>5, <1>6, <1>8, <1>9, <1>10, <1>11, <1>16
  <2>2. Places(c) = {"closing"}
    BY <2>1, SingleElement
  <2> QED
    BY <1>3, <1>20, <1>16, <2>2
<1>17. CASE D
  <2>1. \A p : p \in Places(c) <=> p = "closed"
    BY <1>1, <1>5, <1>6, <1>8, <1>9, <1>10, <1>11, <1>17
  <2>2. Places(c) = {"closed"}
    BY <2>1, SingleElement
  <2> QED
    BY <1>3, <1>20, <1>17, <2>2
<1>18. CASE L
  <2>1. \A p : p \in Places(c) <=> p = "left behind"
    BY <1>1, <1>5, <1>6, <1>18
  <2>2. Places(c) = {"left behind"}
    BY <2>1, SingleElement
  <2> QED
    BY <1>3, <1>20, <1>18, <2>2
<1>19. CASE ~ (R \/ Q \/ P \/ G \/ C \/ D \/ L)
  BY <1>1, <1>3, <1>19
<1> QED
  BY <1>12, <1>13, <1>14, <1>15, <1>16, <1>17, <1>18, <1>19

\* Until the destructor runs, every connection of the map is in exactly one
\* place on its way through the two threads and one that is not in the map is in
\* none; a close functor that does not find its connection, is queued twice or
\* ends the process is of a connection that the peer has reset.
THEOREM NoConnectionIsLost == Spec => []ConnectionsAccountedFor
<1>1. ServerInv => ConnectionsAccountedFor
  <2> SUFFICES ASSUME ServerInv PROVE ConnectionsAccountedFor
    OBVIOUS
  <2>1. ASSUME main_pc \notin {"done", "advance"},
               NEW c \in tcp_connect_socketfds
        PROVE  Cardinality(Places(c)) = 1
    <3>1. c \in Connections
      BY DEF ServerInv, ThreadInv, TypeOK
    <3>2. PICK p : Places(c) = {p}
      BY <2>1, <3>1, OnePlaceEach
    <3> QED
      BY <3>2, FS_Singleton
  <2>2. ASSUME main_pc \notin {"done", "advance"},
               NEW c \in Connections \ tcp_connect_socketfds
        PROVE  Places(c) \subseteq IF c \in reset THEN {"closed"} ELSE {}
    BY <2>2, OnePlaceEach
  <2>3. \A w \in Workers : \A i, j \in DOMAIN main_queues[w] :
           i # j /\ main_queues[w][i] = main_queues[w][j]
               => main_queues[w][i] \in reset
    BY DEF ServerInv, LocationInv, PlaceInv, OnePlace, RepeatsOnly
  <2>4. main_pc = "fatal" => reset # {}
    BY DEF ServerInv, LocationInv, FatalInv
  <2> QED
    BY <2>1, <2>2, <2>3, <2>4 DEF ConnectionsAccountedFor
<1> QED
  BY <1>1, ServerInvariant, PTL

=============================================================================
