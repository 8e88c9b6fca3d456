-------------------------- MODULE EventLoopProofs --------------------------
(***************************************************************************)
(* Proofs about EventLoop, for any number of threads, queues, functors and *)
(* descriptors.                                                            *)
(*                                                                         *)
(* The pilot lamp of a queue is a token.  A thread that lights it holds    *)
(* the token until it has written the eventfd; then the kernel's ready     *)
(* list holds it, then the dispatch list of the owner, then the owner that *)
(* has read the eventfd and has yet to put the lamp out.  LampInv says so; *)
(* it gives WakeupsCoalesce.  With BlockingQueues the store that puts the  *)
(* lamp out cannot be delayed past the first pop_all(), so a thread that   *)
(* finds the lamp lit may rely on a drain still to come (StoresInv): this  *)
(* gives NoLostWakeup.                                                     *)
(*                                                                         *)
(* The last part shows that the loop, with either kind of queue, is a      *)
(* FunctorMailbox: functors are invoked once and in order, and those that  *)
(* were pushed before a request to stop before loop() returns.             *)
(***************************************************************************)
EXTENDS EventLoop, TLAPS

\* Thread t has lit the lamp of queue q and not yet written its eventfd.
Writing(t, q) == pc[t] = "write" /\ target[t] = q

\* The owner has read the eventfd of q and not yet put its lamp out.
Reading(q) == loop_pc = "lamp" /\ reading = q

\* The lamp of q is lit and stays lit when the store buffer drains.
Lit(q) == pilot_lamps[q] /\ q \notin lamp_stores

\* A lit lamp has exactly one holder.
LampInv ==
    \A q \in Queues :
        /\ q \in lamp_stores => pilot_lamps[q]
        /\ Lit(q) => \/ q \in epoll_eventfds
                     \/ q \in active_eventfds
                     \/ Reading(q)
                     \/ \E t \in Threads : Writing(t, q)
        /\ q \in epoll_eventfds =>
              /\ Lit(q)
              /\ q \notin active_eventfds
              /\ ~ Reading(q)
              /\ \A t \in Threads : ~ Writing(t, q)
              /\ eventfds[q] = 1
        /\ q \in active_eventfds =>
              /\ Lit(q)
              /\ ~ Reading(q)
              /\ \A t \in Threads : ~ Writing(t, q)
              /\ eventfds[q] = 1
        /\ Reading(q) => Lit(q) /\ \A t \in Threads : ~ Writing(t, q)
        /\ q \notin epoll_eventfds \cup active_eventfds => eventfds[q] = 0
        /\ \A t \in Threads : Writing(t, q) =>
              Lit(q) /\ \A u \in Threads : Writing(u, q) => u = t

\* Where the owner may be while eventfds wait to be dispatched.
ActiveInv == active_eventfds # {} => loop_pc \in {"dispatch", "lamp"}

\* Where it may be while a store is in its buffer (BlockingQueues only).
StoresInv ==
    lamp_stores # {} => \/ loop_pc = "dispatch" /\ eventfd_triggered
                        \/ loop_pc = "drain" /\ drained = 0

TokenInv == TypeOK /\ ActiveInv /\ LampInv

WakeupInv == TokenInv /\ StoresInv /\ NoLostWakeup

-----------------------------------------------------------------------------
(* Type correctness *)

\* What LoopAssumption says of the constants, in the form the proofs use.
LEMMA ConstantFacts ==
    /\ NumQueues \in Nat /\ NumQueues > 0
    /\ MaxRuns \in Nat
    /\ 0 \in Queues
    /\ Queues \subseteq Nat
    /\ 0 \in 0 .. NumQueues
    /\ 0 \in 0 .. MaxRuns
BY LoopAssumption DEF LoopAssumption, Queues

\* The constructor leaves every member with its type.
LEMMA TypeInit == Init => TypeOK
<1> SUFFICES ASSUME Init PROVE TypeOK
  OBVIOUS
<1>1. /\ functor_queues \in [Queues -> Seq(Functors)]
      /\ invoked \in [Queues -> Seq(Functors)]
      /\ batch \in Seq(Functors)
  BY DEF Init
<1>2. /\ pilot_lamps \in [Queues -> BOOLEAN]
      /\ lamp_stores \subseteq Queues
      /\ eventfds \in [Queues -> Nat]
      /\ due \in [Queues -> Nat]
  BY DEF Init
<1>3. /\ reading \in Queues
      /\ drained \in 0 .. NumQueues
  BY ConstantFacts DEF Init
<1>4. /\ pc \in [Threads -> {"idle", "cas", "write"}]
      /\ target \in [Threads -> Queues]
      /\ runs \in [Threads -> 0 .. MaxRuns]
  BY ConstantFacts DEF Init
<1> QED
  BY <1>1, <1>2, <1>3, <1>4 DEF Init, TypeOK

\* Making the stores of the lamps visible keeps the types of the lamps.
LEMMA FlushType ==
    ASSUME TypeOK, FlushLampStores
    PROVE  pilot_lamps' \in [Queues -> BOOLEAN] /\ lamp_stores' \subseteq Queues
BY DEF TypeOK, FlushLampStores

\* The number of functors pushed to a queue is a natural number.
LEMMA NumPushedType ==
    ASSUME TypeOK, NEW q \in Queues
    PROVE  NumPushed(q) \in Nat
<1>1. /\ Len(invoked[q]) \in Nat
      /\ Len(functor_queues[q]) \in Nat
      /\ Len(batch) \in Nat
  BY DEF TypeOK
<1>2. (IF Current = q THEN Len(batch) ELSE 0) \in Nat
  BY <1>1
<1>3. \A a, b, c \in Nat : a + b + c \in Nat
  OBVIOUS
<1> QED
  BY <1>1, <1>2, <1>3, Zenon DEF NumPushed

\* Setting _need_stop keeps the types.
LEMMA RequestStopType ==
    ASSUME TypeOK, RequestStop
    PROVE  need_stop' \in BOOLEAN /\ due' \in [Queues -> Nat]
BY NumPushedType DEF TypeOK, RequestStop

\* Whatever a user callback does to the loop keeps the types.
LEMMA UserCallbackType ==
    ASSUME TypeOK, UserCallback
    PROVE  /\ poller' \subseteq Fds
           /\ epoll_fds' \subseteq Fds \cup {Timerfd}
           /\ pilot_lamps' \in [Queues -> BOOLEAN]
           /\ lamp_stores' \subseteq Queues
           /\ need_stop' \in BOOLEAN
           /\ due' \in [Queues -> Nat]
           /\ eventfds' \in [Queues -> Nat]
           /\ epoll_eventfds' \subseteq Queues
<1>1. CASE ChangePoller
  BY <1>1 DEF ChangePoller, TypeOK, lampVars, stopVars
<1>2. CASE AskOwnLoopToStop
  <2>1. 0 \in Queues
    BY ConstantFacts
  <2>2. need_stop' \in BOOLEAN /\ due' \in [Queues -> Nat]
    BY <1>2, RequestStopType DEF AskOwnLoopToStop
  <2>3. pilot_lamps' \in [Queues -> BOOLEAN] /\ lamp_stores' \subseteq Queues
    BY <1>2 DEF AskOwnLoopToStop, TypeOK
  <2>4. eventfds' \in [Queues -> Nat] /\ epoll_eventfds' \subseteq Queues
    BY <1>2, <2>1, SMTT(40) DEF AskOwnLoopToStop, TypeOK
  <2> QED
    BY <1>2, <2>2, <2>3, <2>4 DEF AskOwnLoopToStop, TypeOK
<1> QED
  BY <1>1, <1>2 DEF UserCallback

\* Every step of the owner, of another thread or of the kernel keeps the types.
LEMMA TypeStep == TypeOK /\ [Next]_vars => TypeOK'
<1> SUFFICES ASSUME TypeOK, [Next]_vars PROVE TypeOK'
  OBVIOUS
<1> USE DEF ownerVars, kernelVars, threadVars, stopVars, lampVars
<1>0. /\ 0 \in Queues
      /\ Queues \subseteq Nat
      /\ NumQueues \in Nat
      /\ MaxRuns \in Nat
      /\ 0 \in 0 .. NumQueues
  BY ConstantFacts
<1>1. CASE CheckStop
  BY <1>1, <1>0 DEF CheckStop, TypeOK
<1>2. CASE Poll
  BY <1>2, FlushType DEF Poll, TypeOK
<1>3. CASE PutLampOut
  BY <1>3 DEF PutLampOut, TypeOK
<1>4. CASE DispatchDone
  BY <1>4, <1>0 DEF DispatchDone, TypeOK
<1>5. ASSUME NEW q \in Queues, ReadEventfd(q) PROVE TypeOK'
  BY <1>5, FlushType DEF ReadEventfd, TypeOK
<1>6. ASSUME NEW f \in Fds \cup {Timerfd}, DispatchFd(f) PROVE TypeOK'
  BY <1>6, UserCallbackType DEF DispatchFd, TypeOK
<1>7. CASE PopAll
  <2>1. drained \in Queues /\ drained + 1 \in 0 .. NumQueues
    BY <1>7, <1>0 DEF PopAll, TypeOK, Queues
  <2> QED
    BY <1>7, <2>1, FlushType DEF PopAll, TypeOK
<1>8. CASE NextQueue
  <2>1. drained + 1 \in 0 .. NumQueues
    BY <1>8, <1>0 DEF NextQueue, TypeOK
  <2> QED
    BY <1>8, <2>1 DEF NextQueue, TypeOK
<1>9. CASE PopOne
  <2>1. Current \in Queues
    BY <1>9, <1>0 DEF PopOne, TypeOK, Current, Queues
  <2>2. /\ Head(functor_queues[Current]) \in Functors
        /\ Tail(functor_queues[Current]) \in Seq(Functors)
    BY <1>9, <2>1 DEF PopOne, TypeOK
  <2> QED
    BY <1>9, <2>1, <2>2, SMTT(40) DEF PopOne, TypeOK
<1>10. CASE InvokeFunctor
  <2>1. Head(batch) \in Functors /\ Tail(batch) \in Seq(Functors)
    BY <1>10 DEF InvokeFunctor, TypeOK
  <2>2. \A s \in Seq(Functors) : Append(s, Head(batch)) \in Seq(Functors)
    BY <2>1
  <2>3. invoked' \in [Queues -> Seq(Functors)]
    BY <1>10, <2>2 DEF InvokeFunctor, TypeOK
  <2> QED
    BY <1>10, <2>1, <2>3, UserCallbackType DEF InvokeFunctor, TypeOK
<1>11. CASE DrainDone
  BY <1>11, <1>0 DEF DrainDone, TypeOK
<1>12. CASE Timers
  BY <1>12, UserCallbackType DEF Timers, TypeOK
<1>13. CASE LampStoreDrains
  BY <1>13, FlushType, ZenonT(60) DEF LampStoreDrains, TypeOK
<1>14. ASSUME NEW t \in Threads, NEW q \in Queues, Push(t, q) PROVE TypeOK'
  <2>1. runs[t] + 1 \in 1 .. MaxRuns
    <3>1. runs[t] \in 0 .. MaxRuns
      BY DEF TypeOK
    <3>2. runs[t] < MaxRuns
      BY <1>14 DEF Push
    <3> QED
      BY <3>1, <3>2, <1>0
  <2>2. <<t, runs[t] + 1>> \in Functors
    BY <2>1 DEF Functors
  <2>3. functor_queues' \in [Queues -> Seq(Functors)]
    BY <1>14, <2>2 DEF Push, TypeOK
  <2>4. runs' \in [Threads -> 0 .. MaxRuns]
    <3>1. runs[t] + 1 \in 0 .. MaxRuns
      BY <2>1, <1>0 DEF TypeOK
    <3> QED
      BY <1>14, <3>1 DEF Push, TypeOK
  <2> QED
    BY <1>14, <2>3, <2>4 DEF Push, TypeOK
<1>15. ASSUME NEW t \in Threads, AskToStop(t) PROVE TypeOK'
  BY <1>15, <1>0, RequestStopType DEF AskToStop, TypeOK
<1>16. ASSUME NEW t \in Threads, CompareExchange(t) PROVE TypeOK'
  BY <1>16 DEF CompareExchange, TypeOK
<1>17. ASSUME NEW t \in Threads, IncrementEventfd(t) PROVE TypeOK'
  BY <1>17, SMTT(40) DEF IncrementEventfd, TypeOK
<1>18. ASSUME NEW f \in Fds \cup {Timerfd}, FdBecomesReady(f) PROVE TypeOK'
  BY <1>18 DEF FdBecomesReady, TypeOK
<1>19. CASE UNCHANGED vars
  BY <1>19, SMTT(40) DEF vars, TypeOK
<1> QED
  BY <1>1, <1>2, <1>3, <1>4, <1>5, <1>6, <1>7, <1>8, <1>9, <1>10, <1>11,
     <1>12, <1>13, <1>14, <1>15, <1>16, <1>17, <1>18, <1>19
     DEF Next, OwnerStep, WakeUp

\* The variables of the loop and of its callers keep their types.
THEOREM TypeCorrect == Spec => []TypeOK
BY TypeInit, TypeStep, PTL DEF Spec

-----------------------------------------------------------------------------
(* The pilot lamp is a token *)

\* At first all lamps are out and no eventfd has been written.
LEMMA TokenInit == Init => ActiveInv /\ LampInv
BY DEF Init, ActiveInv, LampInv, Lit, Reading, Writing

\* Making the owner's stores visible changes no lamp that stays lit.
LEMMA FlushLit ==
    ASSUME TypeOK, FlushLampStores, NEW q \in Queues
    PROVE  /\ q \notin lamp_stores'
           /\ Lit(q)' = Lit(q)
BY DEF TypeOK, FlushLampStores, Lit

\* Every step keeps the lamp a token: _wake_up_this_loop takes it with its
\* compare-exchange, the eventfd's message callback gives it back.
LEMMA TokenStep == TokenInv /\ [Next]_vars => (ActiveInv /\ LampInv)'
<1> SUFFICES ASSUME TypeOK, ActiveInv, LampInv, [Next]_vars
             PROVE  ActiveInv' /\ LampInv'
  BY DEF TokenInv
<1> USE DEF ownerVars, kernelVars, threadVars, stopVars, lampVars
<1>c. ASSUME UserCallback, UNCHANGED <<active_eventfds, pc, target>>,
             \A q \in Queues : Reading(q)' <=> Reading(q)
      PROVE  LampInv'
  <2>1. CASE ChangePoller
    BY <1>c, <2>1 DEF ChangePoller, LampInv, Lit, Writing
  <2>2. CASE AskOwnLoopToStop
    <3>1. 0 \in Queues
      BY ConstantFacts
    <3>2. CASE Lit(0)
      <4>1. UNCHANGED <<eventfds, epoll_eventfds>>
        BY <2>2, <3>2 DEF AskOwnLoopToStop, Lit
      <4>2. \A q \in Queues : Lit(q)' = Lit(q) /\ q \notin lamp_stores'
        BY <2>2, <3>1, <3>2 DEF AskOwnLoopToStop, Lit, TypeOK
      <4> QED
        BY <1>c, <4>1, <4>2 DEF LampInv, Writing
    <3>3. CASE ~ Lit(0)
      <4>1. /\ eventfds' = [eventfds EXCEPT ![0] = @ + 1]
            /\ epoll_eventfds' = epoll_eventfds \cup {0}
        BY <2>2, <3>3 DEF AskOwnLoopToStop, Lit
      <4>2. \A q \in Queues : /\ Lit(q)' <=> (Lit(q) \/ q = 0)
                              /\ q \notin lamp_stores'
        BY <2>2, <3>1 DEF AskOwnLoopToStop, Lit, TypeOK
      <4>3. \A q \in Queues : q # 0 => eventfds'[q] = eventfds[q]
        BY <4>1 DEF TypeOK
      <4>4. eventfds'[0] = 1
        BY <3>1, <3>3, <4>1 DEF LampInv, TypeOK
      <4> QED
        BY <1>c, <3>1, <3>3, <4>1, <4>2, <4>3, <4>4 DEF LampInv, Writing
    <3> QED
      BY <3>2, <3>3
  <2> QED
    BY <1>c, <2>1, <2>2 DEF UserCallback
<1>1. CASE CheckStop
  BY <1>1 DEF CheckStop, ActiveInv, LampInv, Lit, Reading, Writing
<1>2. CASE Poll
  <2>1. active_eventfds' = epoll_eventfds /\ active_eventfds = {}
    BY <1>2 DEF Poll, ActiveInv, LampInv, TypeOK
  <2> QED
    BY <1>2, <2>1, FlushLit
       DEF Poll, ActiveInv, LampInv, Reading, Writing
<1>3. CASE PutLampOut
  <2>1. reading \in Queues /\ Reading(reading)
    BY <1>3 DEF PutLampOut, Reading, TypeOK
  <2>2. \A q \in Queues : Lit(q)' <=> Lit(q) /\ q # reading
    BY <1>3 DEF PutLampOut, Lit
  <2> QED
    BY <1>3, <2>1, <2>2 DEF PutLampOut, ActiveInv, LampInv, Lit, Reading, Writing
<1>4. CASE DispatchDone
  BY <1>4 DEF DispatchDone, ActiveInv, LampInv, Lit, Reading, Writing
<1>5. ASSUME NEW r \in Queues, ReadEventfd(r) PROVE ActiveInv' /\ LampInv'
  <2>1. \A q \in Queues : eventfds'[q] = IF q = r THEN 0 ELSE eventfds[q]
    BY <1>5 DEF ReadEventfd, TypeOK
  <2> QED
    BY <1>5, <2>1, FlushLit
       DEF ReadEventfd, ActiveInv, LampInv, Reading, Writing
<1>6. ASSUME NEW f \in Fds \cup {Timerfd}, DispatchFd(f)
      PROVE  ActiveInv' /\ LampInv'
  <2>1. CASE f = Timerfd
    BY <1>6, <2>1 DEF DispatchFd, ActiveInv, LampInv, Lit, Reading, Writing
  <2>2. CASE f # Timerfd
    BY <1>6, <2>2, <1>c DEF DispatchFd, ActiveInv, Reading
  <2> QED
    BY <2>1, <2>2
<1>7. CASE PopAll
  BY <1>7, FlushLit DEF PopAll, ActiveInv, LampInv, Reading, Writing
<1>8. CASE NextQueue
  BY <1>8 DEF NextQueue, ActiveInv, LampInv, Lit, Reading, Writing
<1>9. CASE PopOne
  BY <1>9 DEF PopOne, ActiveInv, LampInv, Lit, Reading, Writing
<1>10. CASE InvokeFunctor
  BY <1>10, <1>c DEF InvokeFunctor, ActiveInv, Reading
<1>11. CASE DrainDone
  BY <1>11 DEF DrainDone, ActiveInv, LampInv, Lit, Reading, Writing
<1>12. CASE Timers
  <2>1. active_eventfds' = {} /\ \A q \in Queues : Reading(q)' <=> Reading(q)
    BY <1>12 DEF Timers, ActiveInv, Reading
  <2>2. CASE UNCHANGED <<lampVars, kernelVars, poller, stopVars>>
    BY <1>12, <2>1, <2>2 DEF Timers, ActiveInv, LampInv, Lit, Writing
  <2>3. CASE UserCallback
    BY <1>12, <2>1, <2>3, <1>c DEF Timers, ActiveInv
  <2> QED
    BY <1>12, <2>2, <2>3 DEF Timers
<1>13. CASE LampStoreDrains
  BY <1>13, FlushLit DEF LampStoreDrains, ActiveInv, LampInv, Reading, Writing
<1>14. ASSUME NEW t \in Threads, NEW q \in Queues, Push(t, q)
       PROVE  ActiveInv' /\ LampInv'
  <2>1. \A u \in Threads, r \in Queues : Writing(u, r)' <=> Writing(u, r)
    BY <1>14 DEF Push, Writing, TypeOK
  <2> QED
    BY <1>14, <2>1 DEF Push, ActiveInv, LampInv, Lit, Reading
<1>15. ASSUME NEW t \in Threads, AskToStop(t) PROVE ActiveInv' /\ LampInv'
  <2>1. \A u \in Threads, r \in Queues : Writing(u, r)' <=> Writing(u, r)
    BY <1>15 DEF AskToStop, Writing, TypeOK
  <2> QED
    BY <1>15, <2>1 DEF AskToStop, ActiveInv, LampInv, Lit, Reading
<1>16. ASSUME NEW t \in Threads, CompareExchange(t)
       PROVE  ActiveInv' /\ LampInv'
  <2>1. target[t] \in Queues
    BY DEF TypeOK
  <2>2. CASE pilot_lamps[target[t]]
    <3>1. \A u \in Threads, r \in Queues : Writing(u, r)' <=> Writing(u, r)
      BY <1>16, <2>2 DEF CompareExchange, Writing, TypeOK
    <3>2. pilot_lamps' = pilot_lamps
      BY <1>16, <2>2 DEF CompareExchange, TypeOK
    <3> QED
      BY <1>16, <3>1, <3>2 DEF CompareExchange, ActiveInv, LampInv, Lit, Reading
  <2>3. CASE ~ pilot_lamps[target[t]]
    <3>1. \A u \in Threads, r \in Queues :
              Writing(u, r)' <=> Writing(u, r) \/ (u = t /\ r = target[t])
      BY <1>16, <2>3 DEF CompareExchange, Writing, TypeOK
    <3>2. \A r \in Queues : pilot_lamps'[r] <=> pilot_lamps[r] \/ r = target[t]
      BY <1>16, <2>1 DEF CompareExchange, TypeOK
    <3>3. target[t] \notin lamp_stores
      BY <2>1, <2>3 DEF LampInv
    <3> QED
      BY <1>16, <2>1, <2>3, <3>1, <3>2, <3>3
         DEF CompareExchange, ActiveInv, LampInv, Lit, Reading
  <2> QED
    BY <2>2, <2>3
<1>17. ASSUME NEW t \in Threads, IncrementEventfd(t)
       PROVE  ActiveInv' /\ LampInv'
  <2>1. target[t] \in Queues /\ Writing(t, target[t])
    BY <1>17 DEF IncrementEventfd, Writing, TypeOK
  <2>2. \A u \in Threads, r \in Queues : Writing(u, r)' <=> Writing(u, r) /\ u # t
    BY <1>17 DEF IncrementEventfd, Writing, TypeOK
  <2>3. \A r \in Queues : r # target[t] => eventfds'[r] = eventfds[r]
    BY <1>17 DEF IncrementEventfd, TypeOK
  <2>4. eventfds[target[t]] = 0
    BY <2>1 DEF LampInv
  <2>5. eventfds'[target[t]] = 1
    BY <1>17, <2>1, <2>4 DEF IncrementEventfd, TypeOK
  <2> QED
    BY <1>17, <2>1, <2>2, <2>3, <2>5
       DEF IncrementEventfd, ActiveInv, LampInv, Lit, Reading, Writing
<1>18. ASSUME NEW f \in Fds \cup {Timerfd}, FdBecomesReady(f)
       PROVE  ActiveInv' /\ LampInv'
  BY <1>18 DEF FdBecomesReady, ActiveInv, LampInv, Lit, Reading, Writing
<1>19. CASE UNCHANGED vars
  BY <1>19 DEF vars, ActiveInv, LampInv, Lit, Reading, Writing
<1> QED
  BY <1>1, <1>2, <1>3, <1>4, <1>5, <1>6, <1>7, <1>8, <1>9, <1>10, <1>11,
     <1>12, <1>13, <1>14, <1>15, <1>16, <1>17, <1>18, <1>19
     DEF Next, OwnerStep, WakeUp

\* The types and the token hold in every state.
LEMMA TokenInvariant == Spec => []TokenInv
<1>1. Init => TokenInv
  BY TypeInit, TokenInit DEF TokenInv
<1>2. TokenInv /\ [Next]_vars => TokenInv'
  BY TypeStep, TokenStep DEF TokenInv
<1> QED
  BY <1>1, <1>2, PTL DEF Spec

\* In either build an eventfd's counter never exceeds one and at most one
\* thread at a time is about to write it (_wake_up_this_loop).
THEOREM Coalescing == Spec => []WakeupsCoalesce
<1>1. TokenInv => WakeupsCoalesce
  <2> SUFFICES ASSUME TokenInv, NEW q \in Queues
               PROVE  /\ eventfds[q] <= 1
                      /\ \A t \in Threads : pc[t] = "write" /\ target[t] = q =>
                            /\ eventfds[q] = 0
                            /\ \A u \in Threads \ {t} :
                                  ~ (pc[u] = "write" /\ target[u] = q)
    BY DEF WakeupsCoalesce
  <2>1. eventfds[q] = 0 \/ eventfds[q] = 1
    BY DEF TokenInv, LampInv
  <2> QED
    BY <2>1 DEF TokenInv, LampInv, Writing
<1> QED
  BY <1>1, TokenInvariant, PTL

-----------------------------------------------------------------------------
(* No wake-up is lost: BlockingQueues *)

\* Thread t has pushed to q and is still to look at the lamp or to write.
Waking(t, q) == pc[t] \in {"cas", "write"} /\ target[t] = q

\* What NoLostWakeup says of one queue.
WakeupPending(q) ==
    \/ WillDrain(q)
    \/ q \in epoll_eventfds
    \/ \E t \in Threads : Waking(t, q)

\* With BlockingQueues a lamp store leaves the store buffer before the queue
\* is popped, because pop_all() takes the queue's mutex.
LEMMA StoresStep ==
    ASSUME ~ LockFree, TypeOK, StoresInv, [Next]_vars PROVE StoresInv'
<1> USE DEF ownerVars, kernelVars, threadVars, stopVars, lampVars
<1>c. UserCallback => lamp_stores' \subseteq lamp_stores
  BY DEF UserCallback, ChangePoller, AskOwnLoopToStop
<1>1. CASE CheckStop
  BY <1>1 DEF CheckStop, StoresInv
<1>2. CASE Poll
  BY <1>2 DEF Poll, FlushLampStores, StoresInv
<1>3. CASE PutLampOut
  BY <1>3 DEF PutLampOut, StoresInv
<1>4. CASE DispatchDone
  BY <1>4 DEF DispatchDone, StoresInv
<1>5. ASSUME NEW r \in Queues, ReadEventfd(r) PROVE StoresInv'
  BY <1>5 DEF ReadEventfd, FlushLampStores, StoresInv
<1>6. ASSUME NEW f \in Fds \cup {Timerfd}, DispatchFd(f) PROVE StoresInv'
  BY <1>6, <1>c DEF DispatchFd, StoresInv
<1>7. CASE PopAll
  BY <1>7 DEF PopAll, FlushLampStores, StoresInv
<1>8. CASE NextQueue \/ PopOne
  BY <1>8 DEF NextQueue, PopOne
<1>9. CASE InvokeFunctor
  BY <1>9, <1>c DEF InvokeFunctor, StoresInv
<1>10. CASE DrainDone
  BY <1>10, ConstantFacts DEF DrainDone, StoresInv
<1>11. CASE Timers
  BY <1>11, <1>c DEF Timers, StoresInv
<1>12. CASE LampStoreDrains
  BY <1>12 DEF LampStoreDrains, FlushLampStores, StoresInv
<1>13. ASSUME NEW t \in Threads,
              \/ \E q \in Queues : Push(t, q)
              \/ AskToStop(t)
              \/ WakeUp(t)
       PROVE  StoresInv'
  BY <1>13 DEF Push, AskToStop, WakeUp, CompareExchange, IncrementEventfd,
               StoresInv
<1>14. ASSUME NEW f \in Fds \cup {Timerfd}, FdBecomesReady(f) PROVE StoresInv'
  BY <1>14 DEF FdBecomesReady, StoresInv
<1>15. CASE UNCHANGED vars
  BY <1>15 DEF vars, StoresInv
<1> QED
  BY <1>1, <1>2, <1>3, <1>4, <1>5, <1>6, <1>7, <1>8, <1>9, <1>10, <1>11,
     <1>12, <1>13, <1>14, <1>15 DEF Next, OwnerStep

\* Every step keeps the invariant behind NoLostWakeup: a queue that holds a
\* functor has someone who will look at it.
LEMMA WakeupStep ==
    ASSUME ~ LockFree, WakeupInv, [Next]_vars PROVE NoLostWakeup'
<1> SUFFICES ASSUME NEW q \in Queues, functor_queues'[q] # <<>>, ~ exiting'
             PROVE  WakeupPending(q)'
  BY DEF NoLostWakeup, WakeupPending, Waking
<1>a. /\ TypeOK /\ ActiveInv /\ LampInv /\ StoresInv
      /\ functor_queues[q] # <<>> /\ ~ exiting => WakeupPending(q)
  BY DEF WakeupInv, TokenInv, NoLostWakeup, WakeupPending, Waking
<1>b. q \in Nat /\ 0 <= q /\ q < NumQueues /\ NumQueues \in Nat
  BY ConstantFacts DEF Queues
<1> USE DEF ownerVars, kernelVars, threadVars, stopVars, lampVars
<1>c. UserCallback => epoll_eventfds \subseteq epoll_eventfds'
  BY DEF UserCallback, ChangePoller, AskOwnLoopToStop
<1>1. CASE CheckStop
  BY <1>1, <1>a DEF CheckStop, WakeupPending, Waking, WillDrain
<1>2. CASE Poll
  BY <1>2, <1>a DEF Poll, LampInv, TypeOK, WakeupPending, Waking, WillDrain
<1>3. CASE PutLampOut
  BY <1>3 DEF PutLampOut, WakeupPending, WillDrain
<1>4. CASE DispatchDone
  BY <1>4, <1>a, <1>b DEF DispatchDone, WakeupPending, Waking, WillDrain
<1>5. ASSUME NEW r \in Queues, ReadEventfd(r) PROVE WakeupPending(q)'
  BY <1>5 DEF ReadEventfd, WakeupPending, WillDrain
<1>6. ASSUME NEW f \in Fds \cup {Timerfd}, DispatchFd(f)
      PROVE  WakeupPending(q)'
  BY <1>6, <1>a, <1>c DEF DispatchFd, WakeupPending, Waking, WillDrain
<1>7. CASE PopAll
  <2>1. q # drained
    BY <1>7, <1>a DEF PopAll, TypeOK
  <2>2. drained <= q => drained + 1 <= q
    BY <2>1, <1>a, <1>b DEF TypeOK
  <2> QED
    BY <1>7, <1>a, <2>1, <2>2
       DEF PopAll, TypeOK, WakeupPending, Waking, WillDrain
<1>8. CASE NextQueue \/ PopOne
  BY <1>8 DEF NextQueue, PopOne
<1>9. CASE InvokeFunctor
  BY <1>9, <1>a, <1>c DEF InvokeFunctor, WakeupPending, Waking, WillDrain
<1>10. CASE DrainDone
  BY <1>10, <1>a, <1>b DEF DrainDone, WakeupPending, Waking, WillDrain
<1>11. CASE Timers
  BY <1>11, <1>a, <1>c DEF Timers, WakeupPending, Waking, WillDrain
<1>12. CASE LampStoreDrains
  BY <1>12, <1>a DEF LampStoreDrains, WakeupPending, Waking, WillDrain
<1>13. ASSUME NEW t \in Threads, NEW r \in Queues, Push(t, r)
       PROVE  WakeupPending(q)'
  <2>1. CASE r = q
    BY <1>13, <1>a, <2>1 DEF Push, TypeOK, WakeupPending, Waking
  <2>2. CASE r # q
    <3>1. functor_queues[q] # <<>> /\ ~ exiting
      BY <1>13, <1>a, <2>2 DEF Push, TypeOK
    <3>2. \A u \in Threads : Waking(u, q) => Waking(u, q)'
      BY <1>13, <1>a DEF Push, TypeOK, Waking
    <3> QED
      BY <1>13, <1>a, <3>1, <3>2 DEF Push, WakeupPending, WillDrain
  <2> QED
    BY <2>1, <2>2
<1>14. ASSUME NEW t \in Threads, AskToStop(t) PROVE WakeupPending(q)'
  <2>1. \A u \in Threads : Waking(u, q) => Waking(u, q)'
    BY <1>14, <1>a DEF AskToStop, TypeOK, Waking
  <2> QED
    BY <1>14, <1>a, <2>1 DEF AskToStop, WakeupPending, WillDrain
<1>15. ASSUME NEW t \in Threads, CompareExchange(t) PROVE WakeupPending(q)'
  <2>1. functor_queues[q] # <<>> /\ ~ exiting
    BY <1>15 DEF CompareExchange
  <2>2. WillDrain(q)' = WillDrain(q) /\ epoll_eventfds' = epoll_eventfds
    BY <1>15 DEF CompareExchange, WillDrain, Current
  <2>3. \A u \in Threads : u # t => Waking(u, q)' = Waking(u, q)
    BY <1>15, <1>a DEF CompareExchange, TypeOK, Waking
  <2>4. CASE target[t] # q \/ ~ pilot_lamps[q]
    <3>1. Waking(t, q) => Waking(t, q)'
      BY <1>15, <1>a, <2>4 DEF CompareExchange, TypeOK, Waking
    <3> QED
      BY <1>a, <2>1, <2>2, <2>3, <3>1 DEF WakeupPending
  <2>5. CASE target[t] = q /\ q \in lamp_stores
    BY <1>a, <1>b, <2>2, <2>5 DEF StoresInv, WakeupPending, WillDrain
  <2>6. CASE target[t] = q /\ pilot_lamps[q] /\ q \notin lamp_stores
    <3>1. \/ q \in epoll_eventfds
          \/ q \in active_eventfds
          \/ Reading(q)
          \/ \E u \in Threads : Writing(u, q)
      BY <1>a, <2>6 DEF LampInv, Lit
    <3>2. q \in active_eventfds \/ Reading(q) => WillDrain(q)
      BY <1>a DEF ActiveInv, Reading, WillDrain
    <3>3. \A u \in Threads : Writing(u, q) => Waking(u, q)'
      BY <1>15, <2>3 DEF CompareExchange, Writing, Waking
    <3> QED
      BY <2>2, <3>1, <3>2, <3>3 DEF WakeupPending
  <2> QED
    BY <2>4, <2>5, <2>6
<1>16. ASSUME NEW t \in Threads, IncrementEventfd(t) PROVE WakeupPending(q)'
  <2>1. functor_queues[q] # <<>> /\ ~ exiting
    BY <1>16 DEF IncrementEventfd
  <2>2. \A u \in Threads : Waking(u, q) => Waking(u, q)' \/ q \in epoll_eventfds'
    BY <1>16, <1>a DEF IncrementEventfd, TypeOK, Waking
  <2> QED
    BY <1>16, <1>a, <2>1, <2>2 DEF IncrementEventfd, WakeupPending, WillDrain
<1>17. ASSUME NEW f \in Fds \cup {Timerfd}, FdBecomesReady(f)
       PROVE  WakeupPending(q)'
  BY <1>17, <1>a DEF FdBecomesReady, WakeupPending, Waking, WillDrain
<1>18. CASE UNCHANGED vars
  BY <1>18, <1>a DEF vars, WakeupPending, Waking, WillDrain, Current
<1> QED
  BY <1>1, <1>2, <1>3, <1>4, <1>5, <1>6, <1>7, <1>8, <1>9, <1>10, <1>11,
     <1>12, <1>13, <1>14, <1>15, <1>16, <1>17, <1>18
     DEF Next, OwnerStep, WakeUp

\* With BlockingQueues no functor is left behind in a queue while the loop
\* sleeps: whoever finds the pilot lamp lit can rely on a drain to come.
THEOREM NoWakeupIsLost == ASSUME ~ LockFree PROVE Spec => []NoLostWakeup
<1>1. Init => WakeupInv
  <2>1. Init => StoresInv /\ NoLostWakeup
    BY DEF Init, StoresInv, NoLostWakeup
  <2> QED
    BY <2>1, TypeInit, TokenInit DEF WakeupInv, TokenInv
<1>2. WakeupInv /\ [Next]_vars => WakeupInv'
  BY TypeStep, TokenStep, StoresStep, WakeupStep DEF WakeupInv, TokenInv
<1>3. WakeupInv => NoLostWakeup
  BY DEF WakeupInv
<1> QED
  BY <1>1, <1>2, <1>3, PTL DEF Spec

-----------------------------------------------------------------------------
(* The loop implements the FunctorMailbox.  The mapping makes one queue of *)
(* the popped functors and the ones still queued (Pending).                *)

\* What the refinement mapping of EventLoop puts for pending and state.
Pending ==
    [q \in Queues |->
        (IF Current = q THEN batch ELSE <<>>) \o functor_queues[q]]
MailboxState ==
    IF loop_pc = "exited" THEN "closed"
    ELSE IF need_stop THEN "stopping" ELSE "open"

\* Popped functors and a position among the queues exist only in a drain.
DrainInv ==
    /\ loop_pc # "drain" => drained = 0
    /\ batch # <<>> => drained > 0

\* The loop leaves only when asked to, by way of a drain and the timers.
ExitInv ==
    /\ exiting => need_stop /\ loop_pc \in {"drain", "timers", "exited"}
    /\ loop_pc = "exited" => exiting

\* What was pushed when the stop was requested is still there or invoked.
DueInv == need_stop => \A q \in Queues : due[q] <= NumPushed(q)

\* On the way out it has been invoked for the queues the drain has gone past;
\* the current one, if popped at once, owes at most what is in the batch.
PaidInv ==
    exiting => \A q \in Queues :
        /\ loop_pc # "drain" \/ q < Current => due[q] <= Len(invoked[q])
        /\ ~ LockFree /\ q = Current => due[q] <= Len(invoked[q]) + Len(batch)

MailboxInv == TypeOK /\ DrainInv /\ ExitInv /\ DueInv /\ PaidInv

\* A step that leaves the functors where they are.
Quiet == UNCHANGED <<functor_queues, invoked, batch, drained>>

\* A step that may set _need_stop for the first time.
MayStop == UNCHANGED stopVars \/ (~ need_stop /\ RequestStop)

\* The sequences and lengths the argument is about.
LEMMA SequenceFacts ==
    ASSUME TypeOK, NEW q \in Queues
    PROVE  /\ functor_queues[q] \in Seq(Functors)
           /\ invoked[q] \in Seq(Functors)
           /\ batch \in Seq(Functors)
           /\ Len(functor_queues[q]) \in Nat
           /\ Len(invoked[q]) \in Nat
           /\ Len(batch) \in Nat
           /\ q \in Nat /\ drained \in Nat
<1>1. /\ functor_queues[q] \in Seq(Functors)
      /\ invoked[q] \in Seq(Functors)
      /\ batch \in Seq(Functors)
  BY DEF TypeOK
<1>2. q \in Nat /\ drained \in Nat
  BY ConstantFacts DEF TypeOK
<1> QED
  BY <1>1, <1>2

\* Pushed is what was invoked or is pending.
LEMMA NumPushedIsSum ==
    ASSUME TypeOK, NEW q \in Queues
    PROVE  /\ Pending[q] \in Seq(Functors)
           /\ NumPushed(q) = Len(invoked[q]) + Len(Pending[q])
<1>1. /\ functor_queues[q] \in Seq(Functors)
      /\ batch \in Seq(Functors)
      /\ Len(invoked[q]) \in Nat
      /\ Len(functor_queues[q]) \in Nat
      /\ Len(batch) \in Nat
  BY SequenceFacts
<1>2. CASE Current = q
  <2>1. Pending[q] = batch \o functor_queues[q]
    BY <1>2 DEF Pending
  <2>2. /\ Pending[q] \in Seq(Functors)
        /\ Len(Pending[q]) = Len(batch) + Len(functor_queues[q])
    BY <1>1, <2>1
  <2>3. NumPushed(q) = Len(invoked[q]) + Len(functor_queues[q]) + Len(batch)
    BY <1>2 DEF NumPushed
  <2>4. \A i, f, b \in Nat : i + f + b = i + (b + f)
    OBVIOUS
  <2>5. NumPushed(q) = Len(invoked[q]) + (Len(batch) + Len(functor_queues[q]))
    BY <1>1, <2>3, <2>4, ZenonT(60)
  <2> QED
    BY <2>2, <2>5, Zenon
<1>3. CASE Current # q
  <2>1. Pending[q] = <<>> \o functor_queues[q]
    BY <1>3 DEF Pending
  <2>2. Pending[q] = functor_queues[q]
    BY <1>1, <2>1
  <2>3. NumPushed(q) = Len(invoked[q]) + Len(functor_queues[q]) + 0
    BY <1>3 DEF NumPushed
  <2> QED
    BY <1>1, <2>2, <2>3
<1> QED
  BY <1>2, <1>3

\* Both facts about what was pushed, as a formula that can be primed.
LEMMA SumFacts ==
    TypeOK => \A q \in Queues :
                 /\ Pending[q] \in Seq(Functors)
                 /\ NumPushed(q) \in Nat
                 /\ NumPushed(q) = Len(invoked[q]) + Len(Pending[q])
BY NumPushedType, NumPushedIsSum

\* SumFacts holds in every state, so in the next one too.
LEMMA SumFactsNext ==
    TypeOK' => (\A q \in Queues :
                   /\ Pending[q] \in Seq(Functors)
                   /\ NumPushed(q) \in Nat
                   /\ NumPushed(q) = Len(invoked[q]) + Len(Pending[q]))'
BY SumFacts, PTL

\* A request to stop counts exactly what the mailbox holds or has delivered.
LEMMA RequestCounts ==
    ASSUME TypeOK, ~ need_stop, RequestStop
    PROVE  /\ need_stop' = TRUE
           /\ due' = [q \in Queues |-> Len(invoked[q]) + Len(Pending[q])]
<1>1. due' = [q \in Queues |-> NumPushed(q)]
  BY DEF RequestStop
<1> QED
  BY <1>1, NumPushedIsSum DEF RequestStop

\* A second request changes nothing.
LEMMA RequestMayStop ==
    ASSUME TypeOK, RequestStop
    PROVE  MayStop
<1>1. CASE need_stop
  <2>1. need_stop' = need_stop
    BY <1>1 DEF RequestStop, TypeOK
  <2>2. due' = due
    BY <1>1 DEF RequestStop
  <2> QED
    BY <2>1, <2>2 DEF MayStop, stopVars
<1>2. CASE ~ need_stop
  BY <1>2 DEF MayStop
<1> QED
  BY <1>1, <1>2

\* User code that the loop calls may ask it to stop, and nothing else here.
LEMMA CallbackMayStop ==
    ASSUME TypeOK, UserCallback
    PROVE  MayStop
<1>1. CASE ChangePoller
  BY <1>1 DEF ChangePoller, MayStop, stopVars
<1>2. CASE AskOwnLoopToStop
  BY <1>2, RequestMayStop DEF AskOwnLoopToStop
<1> QED
  BY <1>1, <1>2 DEF UserCallback

\* What the pops, pushes and calls do to two sequences put together.
LEMMA SequenceLaws ==
    /\ \A s \in Seq(Functors) : s \o <<>> = s /\ <<>> \o s = s
    /\ \A s \in Seq(Functors) : s # <<>> => <<Head(s)>> \o Tail(s) = s
    /\ \A b, s \in Seq(Functors) : b # <<>> =>
          /\ b \o s # <<>>
          /\ Head(b \o s) = Head(b)
          /\ Tail(b \o s) = Tail(b) \o s
    /\ \A b, s \in Seq(Functors), f \in Functors :
          b \o Append(s, f) = Append(b \o s, f)
<1>1. \A s \in Seq(Functors) : s \o <<>> = s /\ <<>> \o s = s
  OBVIOUS
<1>2. \A s \in Seq(Functors) : s # <<>> => <<Head(s)>> \o Tail(s) = s
  OBVIOUS
<1>3. \A b, s \in Seq(Functors) : b # <<>> =>
          b \o s # <<>> /\ Head(b \o s) = Head(b)
  OBVIOUS
<1>4. \A b, s \in Seq(Functors) : b # <<>> => Tail(b \o s) = Tail(b) \o s
  OBVIOUS
<1>5. \A b, s \in Seq(Functors), f \in Functors :
          b \o Append(s, f) = Append(b \o s, f)
  OBVIOUS
<1> QED
  BY <1>1, <1>2, <1>3, <1>4, <1>5

\* Taking functors out of a queue and going on to the next queue changes
\* nothing in the mailbox.
LEMMA PopPending ==
    ASSUME MailboxInv, PopAll \/ NextQueue \/ PopOne \/ DrainDone
    PROVE  Pending' = Pending
<1>0. /\ NumQueues \in Nat /\ drained \in Nat /\ Queues \subseteq Nat
      /\ functor_queues \in [Queues -> Seq(Functors)]
  BY ConstantFacts, SMTT(40) DEF MailboxInv, TypeOK
<1>1. batch = <<>>
  BY DEF PopAll, NextQueue, PopOne, DrainDone
<1>2. Pending = functor_queues
  <2>1. Pending = [q \in Queues |-> <<>> \o functor_queues[q]]
    BY <1>1 DEF Pending
  <2> QED
    BY <1>0, <2>1, SequenceLaws
<1>3. ASSUME batch' = <<>>, functor_queues' = functor_queues
      PROVE  Pending' = Pending
  <2>1. Pending' = [q \in Queues |-> <<>> \o functor_queues[q]]
    BY <1>3 DEF Pending
  <2> QED
    BY <1>0, <1>2, <2>1, SequenceLaws
<1>4. CASE PopAll
  <2>1. /\ Current' = drained
        /\ batch' = functor_queues[drained]
        /\ functor_queues' = [functor_queues EXCEPT ![drained] = <<>>]
    BY <1>4, <1>0 DEF PopAll, Current
  <2>2. \A q \in Queues : (IF Current' = q THEN batch' ELSE <<>>)
                             \o functor_queues'[q] = functor_queues[q]
    <3> SUFFICES ASSUME NEW q \in Queues
                 PROVE  (IF Current' = q THEN batch' ELSE <<>>)
                             \o functor_queues'[q] = functor_queues[q]
      OBVIOUS
    <3>1. CASE drained = q
      BY <3>1, <2>1, <1>0, SequenceLaws
    <3>2. CASE drained # q
      BY <3>2, <2>1, <1>0, SequenceLaws
    <3> QED
      BY <3>1, <3>2
  <2> QED
    BY <1>0, <1>2, <2>2 DEF Pending
<1>5. CASE PopOne
  <2>1. /\ Current' = Current
        /\ batch' = <<Head(functor_queues[Current])>>
        /\ functor_queues[Current] # <<>>
        /\ functor_queues' = [functor_queues EXCEPT ![Current] = Tail(@)]
    BY <1>5 DEF PopOne, Current
  <2>2. \A q \in Queues : (IF Current' = q THEN batch' ELSE <<>>)
                             \o functor_queues'[q] = functor_queues[q]
    <3> SUFFICES ASSUME NEW q \in Queues
                 PROVE  (IF Current' = q THEN batch' ELSE <<>>)
                             \o functor_queues'[q] = functor_queues[q]
      OBVIOUS
    <3>1. CASE Current = q
      BY <3>1, <2>1, <1>0, SequenceLaws
    <3>2. CASE Current # q
      BY <3>2, <2>1, <1>0, SequenceLaws
    <3> QED
      BY <3>1, <3>2
  <2> QED
    BY <1>0, <1>2, <2>2 DEF Pending
<1>6. CASE NextQueue \/ DrainDone
  BY <1>1, <1>3, <1>6 DEF NextQueue, DrainDone
<1> QED
  BY <1>4, <1>5, <1>6

\* The functor that is called is the first one pending in its queue.
LEMMA InvokePending ==
    ASSUME MailboxInv, InvokeFunctor
    PROVE  /\ Current \in Queues
           /\ Pending[Current] # <<>>
           /\ Head(Pending[Current]) = Head(batch)
           /\ Pending' = [Pending EXCEPT ![Current] = Tail(@)]
<1>0. /\ functor_queues \in [Queues -> Seq(Functors)]
      /\ batch \in Seq(Functors)
      /\ batch # <<>>
      /\ batch' = Tail(batch)
      /\ functor_queues' = functor_queues
      /\ Current' = Current
  BY DEF MailboxInv, TypeOK, InvokeFunctor, Current
<1>1. Current \in Queues
  BY <1>0, ConstantFacts DEF MailboxInv, DrainInv, TypeOK, Current, Queues
<1>2. Pending[Current] = batch \o functor_queues[Current]
  BY <1>1 DEF Pending
<1>3. Pending[Current] # <<>> /\ Head(Pending[Current]) = Head(batch)
  BY <1>0, <1>1, <1>2, SequenceLaws
<1>4. \A q \in Queues : (IF Current' = q THEN batch' ELSE <<>>)
          \o functor_queues'[q] =
              IF Current = q THEN Tail(Pending[q]) ELSE Pending[q]
  <2> SUFFICES ASSUME NEW q \in Queues
               PROVE  (IF Current' = q THEN batch' ELSE <<>>)
          \o functor_queues'[q] =
              IF Current = q THEN Tail(Pending[q]) ELSE Pending[q]
    OBVIOUS
  <2>1. CASE Current = q
    <3>1. Tail(batch) \o functor_queues[q] = Tail(batch \o functor_queues[q])
      BY <1>0, SequenceLaws
    <3> QED
      BY <2>1, <3>1, <1>0, <1>2
  <2>2. CASE Current # q
    BY <2>2, <1>0 DEF Pending
  <2> QED
    BY <2>1, <2>2
<1>5. Pending' = [q \in Queues |->
                     IF Current = q THEN Tail(Pending[q]) ELSE Pending[q]]
  BY <1>4 DEF Pending
<1>6. Pending = [q \in Queues |-> Pending[q]]
  BY DEF Pending
<1> QED
  BY <1>1, <1>3, <1>5, <1>6

\* A push puts its functor behind all that are pending in the queue.
LEMMA PushPending ==
    ASSUME MailboxInv, NEW t \in Threads, NEW q \in Queues, Push(t, q)
    PROVE  /\ <<t, runs[t] + 1>> \in Functors
           /\ Pending' = [Pending EXCEPT ![q] = Append(@, <<t, runs[t] + 1>>)]
<1> DEFINE f == <<t, runs[t] + 1>>
<1>1. f \in Functors
  <2>1. runs[t] \in 0 .. MaxRuns /\ runs[t] < MaxRuns /\ MaxRuns \in Nat
    BY ConstantFacts DEF MailboxInv, TypeOK, Push
  <2>2. runs[t] + 1 \in 1 .. MaxRuns
    BY <2>1
  <2> QED
    BY <2>2 DEF Functors
<1> HIDE DEF f
<1>2. /\ functor_queues \in [Queues -> Seq(Functors)]
      /\ batch \in Seq(Functors) /\ <<>> \in Seq(Functors)
      /\ functor_queues' = [functor_queues EXCEPT ![q] = Append(@, f)]
      /\ batch' = batch
      /\ Current' = Current
  BY DEF MailboxInv, TypeOK, Push, ownerVars, Current, f
<1>3. \A p \in Queues : (IF Current' = p THEN batch' ELSE <<>>)
          \o functor_queues'[p] =
              IF p = q THEN Append(Pending[p], f) ELSE Pending[p]
  <2> SUFFICES ASSUME NEW p \in Queues
               PROVE  (IF Current' = p THEN batch' ELSE <<>>)
          \o functor_queues'[p] =
              IF p = q THEN Append(Pending[p], f) ELSE Pending[p]
    OBVIOUS
  <2> DEFINE b == IF Current = p THEN batch ELSE <<>>
  <2>1. b \in Seq(Functors)
    BY <1>2
  <2>2. Pending[p] = b \o functor_queues[p]
    BY DEF Pending
  <2>3. (IF Current' = p THEN batch' ELSE <<>>) = b
    BY <1>2
  <2> HIDE DEF b
  <2>4. CASE p = q
    <3>1. functor_queues'[p] = Append(functor_queues[p], f)
      BY <1>2, <2>4
    <3>2. b \o Append(functor_queues[p], f) = Append(b \o functor_queues[p], f)
      BY <1>1, <1>2, <2>1, SequenceLaws, SMTT(40)
    <3> QED
      BY <2>2, <2>3, <2>4, <3>1, <3>2
  <2>5. CASE p # q
    BY <1>2, <2>2, <2>3, <2>5
  <2> QED
    BY <2>4, <2>5
<1>4. Pending' = [p \in Queues |->
                     IF p = q THEN Append(Pending[p], f) ELSE Pending[p]]
  BY <1>3 DEF Pending
<1>5. Pending = [p \in Queues |-> Pending[p]]
  BY DEF Pending
<1>6. Pending' = [Pending EXCEPT ![q] = Append(@, f)]
  BY <1>4, <1>5
<1> QED
  BY <1>1, <1>6 DEF f

\* What is due never exceeds what was pushed: nothing pushed disappears.
LEMMA DueStep ==
    ASSUME MailboxInv, TypeOK', MayStop,
           \A q \in Queues : NumPushed(q) <= NumPushed(q)'
    PROVE  DueInv'
<1>1. CASE UNCHANGED stopVars
  <2>1. ASSUME NEW q \in Queues, need_stop PROVE due[q] <= NumPushed(q)'
    <3>1. due[q] <= NumPushed(q) /\ NumPushed(q) <= NumPushed(q)'
      BY <2>1 DEF MailboxInv, DueInv
    <3>2. NumPushed(q) \in Nat /\ NumPushed(q)' \in Nat
      BY SumFacts, SumFactsNext DEF MailboxInv
    <3>3. due[q] \in Nat
      BY DEF MailboxInv, TypeOK
    <3>4. \A a, b, c \in Nat : a <= b /\ b <= c => a <= c
      OBVIOUS
    <3> QED
      BY <3>1, <3>2, <3>3, <3>4
  <2> QED
    BY <1>1, <2>1 DEF DueInv, stopVars
<1>2. CASE ~ need_stop /\ RequestStop
  <2>1. \A q \in Queues : due'[q] = NumPushed(q)
    BY <1>2 DEF RequestStop
  <2> QED
    BY <2>1 DEF DueInv
<1> QED
  BY <1>1, <1>2 DEF MayStop

\* A step that leaves the mailbox as it is keeps what is due.
LEMMA SameDue ==
    ASSUME MailboxInv, TypeOK', MayStop, Pending' = Pending, invoked' = invoked
    PROVE  DueInv'
<1>1. ASSUME NEW q \in Queues PROVE NumPushed(q) <= NumPushed(q)'
  <2>1. /\ NumPushed(q) = Len(invoked[q]) + Len(Pending[q])
        /\ NumPushed(q)' = Len(invoked'[q]) + Len(Pending'[q])
        /\ NumPushed(q) \in Nat
    BY SumFacts, SumFactsNext DEF MailboxInv
  <2>2. NumPushed(q)' = NumPushed(q)
    BY <2>1
  <2> QED
    BY <2>1, <2>2
<1> QED
  BY <1>1, DueStep

\* On the way out an empty queue with nothing popped owes nothing.
LEMMA EmptyIsPaid ==
    ASSUME MailboxInv, exiting, NEW q \in Queues,
           functor_queues[q] = <<>>, batch = <<>>
    PROVE  due[q] <= Len(invoked[q])
<1>1. due[q] <= NumPushed(q)
  BY DEF MailboxInv, ExitInv, DueInv
<1>2. Len(functor_queues[q]) = 0 /\ Len(batch) = 0
  OBVIOUS
<1>3. NumPushed(q) = Len(invoked[q]) + 0 + 0
  BY <1>2 DEF NumPushed
<1>4. Len(invoked[q]) \in Nat
  BY SequenceFacts DEF MailboxInv
<1> QED
  BY <1>1, <1>3, <1>4

\* A step that moves no functor keeps what is due and what is paid.
LEMMA QuietStep ==
    ASSUME MailboxInv, TypeOK', Quiet, MayStop, exiting' = exiting,
           exiting => (loop_pc' = "drain" <=> loop_pc = "drain")
    PROVE  DueInv' /\ PaidInv'
<1>1. ASSUME NEW q \in Queues PROVE NumPushed(q) <= NumPushed(q)'
  <2>1. NumPushed(q)' = NumPushed(q)
    BY DEF Quiet, NumPushed, Current
  <2>2. NumPushed(q) \in Nat
    BY NumPushedType DEF MailboxInv
  <2> QED
    BY <2>1, <2>2
<1>2. DueInv'
  BY <1>1, DueStep
<1>3. ASSUME exiting PROVE PaidInv'
  <2>1. due' = due
    BY <1>3 DEF MailboxInv, ExitInv, MayStop, stopVars
  <2> QED
    BY <1>3, <2>1 DEF MailboxInv, PaidInv, Quiet, Current
<1> QED
  BY <1>2, <1>3 DEF PaidInv

\* Every step keeps the invariant of the refinement.
LEMMA MailboxStep == MailboxInv /\ [Next]_vars => MailboxInv'
<1> SUFFICES ASSUME MailboxInv, [Next]_vars PROVE MailboxInv'
  OBVIOUS
<1> USE DEF ownerVars, kernelVars, threadVars, stopVars, lampVars
<1>0. TypeOK /\ TypeOK'
  BY TypeStep DEF MailboxInv
<1>c. /\ NumQueues \in Nat
      /\ drained \in 0 .. NumQueues
      /\ Queues \subseteq Nat
  BY <1>0, ConstantFacts DEF TypeOK
<1>1. CASE CheckStop
  <2>0. drained = 0
    BY <1>1 DEF CheckStop, MailboxInv, DrainInv
  <2>1. Quiet /\ MayStop
    BY <1>1, <2>0 DEF CheckStop, Quiet, MayStop
  <2>2. DrainInv' /\ ExitInv'
    BY <1>1, <2>0 DEF CheckStop, MailboxInv, DrainInv, ExitInv
  <2>3. CASE need_stop /\ poller = {}
    <3>1. loop_pc' = "drain" /\ Current' = -1 /\ exiting'
      BY <1>1, <2>3 DEF CheckStop, Current
    <3>2. \A q \in Queues : ~ (q < -1) /\ q # -1
      BY <1>c
    <3>3. PaidInv'
      BY <3>1, <3>2 DEF PaidInv
    <3>4. \A q \in Queues : NumPushed(q)' = NumPushed(q) /\ NumPushed(q) \in Nat
      BY <1>0, <2>1, NumPushedType DEF Quiet, NumPushed, Current
    <3>5. DueInv'
      BY <1>0, <2>1, <3>4, DueStep
    <3> QED
      BY <1>0, <2>2, <3>3, <3>5 DEF MailboxInv
  <2>4. CASE ~ (need_stop /\ poller = {})
    <3>1. exiting' = exiting /\ ~ exiting
      BY <1>1, <2>4 DEF CheckStop, MailboxInv, ExitInv
    <3> QED
      BY <1>0, <2>1, <2>2, <3>1, QuietStep DEF MailboxInv
  <2> QED
    BY <2>3, <2>4
<1>2. CASE Poll
  <2>1. Quiet /\ MayStop /\ exiting' = exiting /\ ~ exiting
    BY <1>2 DEF Poll, Quiet, MayStop, MailboxInv, ExitInv
  <2>2. DrainInv' /\ ExitInv'
    BY <1>2 DEF Poll, MailboxInv, DrainInv, ExitInv
  <2> QED
    BY <1>0, <2>1, <2>2, QuietStep DEF MailboxInv
<1>3. CASE PutLampOut
  <2>1. Quiet /\ MayStop /\ exiting' = exiting /\ ~ exiting
    BY <1>3 DEF PutLampOut, Quiet, MayStop, MailboxInv, ExitInv
  <2>2. DrainInv' /\ ExitInv'
    BY <1>3 DEF PutLampOut, MailboxInv, DrainInv, ExitInv
  <2> QED
    BY <1>0, <2>1, <2>2, QuietStep DEF MailboxInv
<1>4. CASE DispatchDone
  <2>1. Quiet /\ MayStop /\ exiting' = exiting /\ ~ exiting
    BY <1>4 DEF DispatchDone, Quiet, MayStop, MailboxInv, ExitInv, DrainInv
  <2>2. DrainInv' /\ ExitInv'
    BY <1>4 DEF DispatchDone, MailboxInv, DrainInv, ExitInv
  <2> QED
    BY <1>0, <2>1, <2>2, QuietStep DEF MailboxInv
<1>5. ASSUME NEW q \in Queues, ReadEventfd(q) PROVE MailboxInv'
  <2>1. Quiet /\ MayStop /\ exiting' = exiting /\ ~ exiting
    BY <1>5 DEF ReadEventfd, Quiet, MayStop, MailboxInv, ExitInv
  <2>2. DrainInv' /\ ExitInv'
    BY <1>5 DEF ReadEventfd, MailboxInv, DrainInv, ExitInv
  <2> QED
    BY <1>0, <2>1, <2>2, QuietStep DEF MailboxInv
<1>6. ASSUME NEW f \in Fds \cup {Timerfd}, DispatchFd(f) PROVE MailboxInv'
  <2>1. Quiet /\ exiting' = exiting /\ ~ exiting /\ loop_pc' = loop_pc
    BY <1>6 DEF DispatchFd, Quiet, MailboxInv, ExitInv
  <2>2. MayStop
    BY <1>0, <1>6, CallbackMayStop DEF DispatchFd, MayStop
  <2>3. DrainInv' /\ ExitInv'
    BY <2>1 DEF Quiet, MailboxInv, DrainInv, ExitInv
  <2> QED
    BY <1>0, <2>1, <2>2, <2>3, QuietStep DEF MailboxInv
<1>12. CASE Timers
  <2>1. Quiet /\ exiting' = exiting /\ loop_pc # "drain" /\ loop_pc' # "drain"
    BY <1>12 DEF Timers, Quiet
  <2>2. MayStop
    BY <1>0, <1>12, CallbackMayStop DEF Timers, MayStop
  <2>3. DrainInv'
    BY <2>1 DEF Quiet, MailboxInv, DrainInv
  <2>4. need_stop => need_stop'
    BY <2>2 DEF MayStop
  <2>5. loop_pc' = IF exiting THEN "exited" ELSE "check"
    BY <1>12 DEF Timers
  <2>6. ExitInv'
    BY <2>1, <2>4, <2>5 DEF MailboxInv, ExitInv
  <2> QED
    BY <1>0, <2>1, <2>2, <2>3, <2>6, QuietStep DEF MailboxInv
<1>7. CASE PopAll
  <2>1. /\ Pending' = Pending /\ invoked' = invoked /\ due' = due
        /\ loop_pc = "drain" /\ loop_pc' = "drain" /\ exiting' = exiting
        /\ drained' = drained + 1 /\ Current' = drained
        /\ drained < NumQueues
        /\ batch = <<>> /\ batch' = functor_queues[drained]
        /\ need_stop' = need_stop
    BY <1>7, <1>c, PopPending DEF PopAll, Current
  <2>2. DueInv'
    BY <1>0, <2>1, SameDue DEF MayStop
  <2>3. DrainInv' /\ ExitInv'
    BY <1>c, <2>1 DEF MailboxInv, DrainInv, ExitInv
  <2>4. ASSUME exiting, NEW q \in Queues, q < drained
        PROVE  due[q] <= Len(invoked[q])
    <3>1. CASE q < Current
      BY <3>1, <2>4 DEF MailboxInv, PaidInv
    <3>2. CASE ~ (q < Current)
      <4>1. q = Current
        BY <1>c, <3>2, <2>4 DEF Current
      <4>2. due[q] <= Len(invoked[q]) + Len(batch)
        BY <4>1, <2>4, <1>7 DEF PopAll, MailboxInv, PaidInv
      <4>3. Len(batch) = 0
        BY <2>1
      <4> QED
        BY <4>2, <4>3, <1>0, SequenceFacts
    <3> QED
      BY <3>1, <3>2
  <2>5. ASSUME exiting
        PROVE  /\ drained \in Queues
               /\ due[drained] <= Len(invoked[drained]) + Len(batch')
    <3>1. drained \in Queues /\ Current # drained
      BY <1>c, <2>1 DEF Queues, Current
    <3>2. NumPushed(drained) =
              Len(invoked[drained]) + Len(functor_queues[drained]) + 0
      BY <3>1 DEF NumPushed
    <3>3. due[drained] <= NumPushed(drained)
      BY <3>1, <2>5 DEF MailboxInv, ExitInv, DueInv
    <3>4. \A a, b \in Nat : a + b + 0 = a + b
      OBVIOUS
    <3>5. Len(invoked[drained]) \in Nat /\ Len(functor_queues[drained]) \in Nat
      BY <1>0, <3>1, SequenceFacts
    <3>6. NumPushed(drained) =
              Len(invoked[drained]) + Len(functor_queues[drained])
      BY <3>2, <3>4, <3>5
    <3> QED
      BY <2>1, <3>1, <3>3, <3>6
  <2>6. PaidInv'
    BY <2>1, <2>4, <2>5 DEF PaidInv
  <2> QED
    BY <1>0, <2>2, <2>3, <2>6 DEF MailboxInv
<1>8. CASE NextQueue
  <2>1. /\ Pending' = Pending /\ invoked' = invoked /\ due' = due
        /\ loop_pc = "drain" /\ loop_pc' = "drain" /\ exiting' = exiting
        /\ drained' = drained + 1 /\ Current' = drained
        /\ batch = <<>> /\ batch' = <<>>
        /\ need_stop' = need_stop
        /\ LockFree
    BY <1>8, <1>c, PopPending DEF NextQueue, Current
  <2>2. DueInv'
    BY <1>0, <2>1, SameDue DEF MayStop
  <2>3. DrainInv' /\ ExitInv'
    BY <1>c, <2>1 DEF MailboxInv, DrainInv, ExitInv
  <2>4. ASSUME exiting, NEW q \in Queues, q < drained
        PROVE  due[q] <= Len(invoked[q])
    <3>1. CASE q < Current
      BY <3>1, <2>4 DEF MailboxInv, PaidInv
    <3>2. CASE ~ (q < Current)
      <4>1. q = Current /\ drained > 0
        BY <1>c, <3>2, <2>4 DEF Current
      <4>2. functor_queues[q] = <<>>
        BY <4>1, <1>8 DEF NextQueue
      <4> QED
        BY <1>0, <2>1, <2>4, <4>2, EmptyIsPaid
    <3> QED
      BY <3>1, <3>2
  <2>6. PaidInv'
    BY <2>1, <2>4 DEF PaidInv
  <2> QED
    BY <1>0, <2>2, <2>3, <2>6 DEF MailboxInv
<1>9. CASE PopOne
  <2>1. /\ Pending' = Pending /\ invoked' = invoked /\ due' = due
        /\ loop_pc = "drain" /\ loop_pc' = "drain" /\ exiting' = exiting
        /\ drained' = drained /\ Current' = Current /\ drained > 0
        /\ need_stop' = need_stop
        /\ LockFree
    BY <1>9, PopPending DEF PopOne, Current
  <2>2. DueInv'
    BY <1>0, <2>1, SameDue DEF MayStop
  <2>3. DrainInv' /\ ExitInv'
    BY <1>c, <2>1 DEF MailboxInv, DrainInv, ExitInv
  <2>6. PaidInv'
    BY <2>1 DEF MailboxInv, PaidInv
  <2> QED
    BY <1>0, <2>2, <2>3, <2>6 DEF MailboxInv
<1>10. CASE InvokeFunctor
  <2>1. /\ loop_pc = "drain" /\ loop_pc' = "drain" /\ exiting' = exiting
        /\ drained' = drained /\ Current' = Current
        /\ batch # <<>> /\ batch' = Tail(batch)
        /\ invoked' = [invoked EXCEPT ![Current] = Append(@, Head(batch))]
    BY <1>10 DEF InvokeFunctor, Current
  <2>2. MayStop
    BY <1>0, <1>10, CallbackMayStop DEF InvokeFunctor
  <2>3. /\ Current \in Queues /\ Pending[Current] # <<>>
        /\ Pending' = [Pending EXCEPT ![Current] = Tail(@)]
    BY <1>10, InvokePending
  <2>4. DrainInv'
    BY <2>1 DEF MailboxInv, DrainInv
  <2>5. ExitInv'
    <3>1. need_stop => need_stop'
      BY <2>2 DEF MayStop
    <3> QED
      BY <2>1, <3>1 DEF MailboxInv, ExitInv
  <2>6. \A q \in Queues : invoked[q] \in Seq(Functors)
    BY <1>0, SequenceFacts
  <2>7. Len(invoked'[Current]) = Len(invoked[Current]) + 1
    <3>1. invoked'[Current] = Append(invoked[Current], Head(batch))
      BY <1>0, <2>1, <2>3 DEF TypeOK
    <3> QED
      BY <2>3, <2>6, <3>1
  <2>8. \A q \in Queues : q # Current => invoked'[q] = invoked[q]
    BY <1>0, <2>1 DEF TypeOK
  <2>9. batch \in Seq(Functors) /\ Len(batch) = Len(batch') + 1
    <3>1. batch \in Seq(Functors)
      BY <1>0 DEF TypeOK
    <3> QED
      BY <2>1, <3>1
  <2>10. DueInv'
    <3>1. ASSUME NEW q \in Queues PROVE NumPushed(q) <= NumPushed(q)'
      <4>1. /\ NumPushed(q) = Len(invoked[q]) + Len(Pending[q])
            /\ NumPushed(q)' = Len(invoked'[q]) + Len(Pending'[q])
            /\ Pending[q] \in Seq(Functors)
            /\ NumPushed(q) \in Nat
        BY <1>0, SumFacts, SumFactsNext
      <4>2. CASE q # Current
        <5>1. Pending'[q] = Pending[q]
          BY <2>3, <4>2 DEF Pending
        <5> QED
          BY <2>8, <4>1, <4>2, <5>1
      <4>3. CASE q = Current
        <5>1. Pending'[q] = Tail(Pending[q])
          BY <2>3, <4>3 DEF Pending
        <5>0. \A s \in Seq(Functors) : s # <<>> => Len(Tail(s)) = Len(s) - 1
          OBVIOUS
        <5>2. Len(Pending'[q]) = Len(Pending[q]) - 1
          BY <2>3, <4>1, <4>3, <5>0, <5>1
        <5>3. Len(Pending[q]) \in Nat /\ Len(invoked[q]) \in Nat
          BY <2>6, <4>1
        <5>4. \A i, p \in Nat : i + p <= (i + 1) + (p - 1)
          OBVIOUS
        <5>5. Len(invoked[q]) + Len(Pending[q]) <=
                  (Len(invoked[q]) + 1) + (Len(Pending[q]) - 1)
          BY <5>3, <5>4
        <5>6. NumPushed(q)' = (Len(invoked[q]) + 1) + (Len(Pending[q]) - 1)
          BY <2>7, <4>1, <4>3, <5>2
        <5> QED
          BY <4>1, <5>5, <5>6
      <4> QED
        BY <4>2, <4>3
    <3> QED
      BY <1>0, <2>2, <3>1, DueStep
  <2>11. ASSUME exiting PROVE PaidInv'
    <3>1. due' = due
      BY <2>11, <2>2 DEF MailboxInv, ExitInv, MayStop
    <3>2. ASSUME NEW q \in Queues, q < Current
          PROVE  due'[q] <= Len(invoked'[q])
      <4>1. invoked'[q] = invoked[q]
        BY <3>2, <1>c, <2>3, <2>8
      <4> QED
        BY <3>1, <3>2, <4>1, <2>11 DEF MailboxInv, PaidInv
    <3>3. ASSUME ~ LockFree
          PROVE  due'[Current] <= Len(invoked'[Current]) + Len(batch')
      <4>1. due[Current] <= Len(invoked[Current]) + Len(batch)
        BY <3>3, <2>3, <2>11 DEF MailboxInv, PaidInv
      <4>2. Len(invoked[Current]) \in Nat /\ Len(batch') \in Nat
        <5>1. batch' \in Seq(Functors)
          BY <1>0 DEF TypeOK
        <5> QED
          BY <2>3, <2>6, <5>1
      <4>3. \A i, b \in Nat : i + (b + 1) = (i + 1) + b
        OBVIOUS
      <4>4. Len(invoked[Current]) + Len(batch) =
                Len(invoked'[Current]) + Len(batch')
        BY <2>7, <2>9, <4>2, <4>3
      <4> QED
        BY <3>1, <4>1, <4>4
    <3> QED
      BY <2>1, <3>2, <3>3 DEF PaidInv
  <2> QED
    BY <1>0, <2>1, <2>4, <2>5, <2>10, <2>11 DEF MailboxInv, PaidInv
<1>11. CASE DrainDone
  <2>1. /\ Pending' = Pending /\ invoked' = invoked /\ due' = due
        /\ loop_pc = "drain" /\ loop_pc' = "timers" /\ exiting' = exiting
        /\ drained' = 0 /\ drained = NumQueues
        /\ batch = <<>> /\ batch' = <<>>
        /\ need_stop' = need_stop
        /\ LockFree => functor_queues[Current] = <<>>
    BY <1>11, PopPending DEF DrainDone
  <2>2. DueInv'
    BY <1>0, <2>1, SameDue DEF MayStop
  <2>3. DrainInv' /\ ExitInv'
    BY <2>1 DEF MailboxInv, DrainInv, ExitInv
  <2>4. ASSUME exiting, NEW q \in Queues
        PROVE  due[q] <= Len(invoked[q])
    <3>1. CASE q < Current
      BY <3>1, <2>4 DEF MailboxInv, PaidInv
    <3>2. CASE ~ (q < Current)
      <4>1. q = Current
        BY <1>c, <3>2, <2>1 DEF Current, Queues
      <4>2. CASE LockFree
        BY <1>0, <2>1, <2>4, <4>1, <4>2, EmptyIsPaid
      <4>3. CASE ~ LockFree
        <5>1. due[q] <= Len(invoked[q]) + Len(batch)
          BY <4>1, <4>3, <2>4 DEF MailboxInv, PaidInv
        <5>2. Len(batch) = 0
          BY <2>1
        <5> QED
          BY <5>1, <5>2, <1>0, SequenceFacts
      <4> QED
        BY <4>2, <4>3
    <3> QED
      BY <3>1, <3>2
  <2>5. Current' = -1
    BY <2>1 DEF Current
  <2>6. \A q \in Queues : q # -1
    BY <1>c
  <2>7. PaidInv'
    BY <2>1, <2>4, <2>5, <2>6 DEF PaidInv
  <2> QED
    BY <1>0, <2>2, <2>3, <2>7 DEF MailboxInv
<1>13. CASE LampStoreDrains
  <2>1. Quiet /\ MayStop /\ exiting' = exiting /\ loop_pc' = loop_pc
    BY <1>13 DEF LampStoreDrains, Quiet, MayStop
  <2>2. DrainInv' /\ ExitInv'
    BY <1>13 DEF LampStoreDrains, MailboxInv, DrainInv, ExitInv
  <2> QED
    BY <1>0, <2>1, <2>2, QuietStep DEF MailboxInv
<1>14. ASSUME NEW t \in Threads, NEW q \in Queues, Push(t, q)
       PROVE  MailboxInv'
  <2>1. /\ UNCHANGED <<stopVars, ownerVars>>
        /\ Current' = Current
        /\ MayStop
    BY <1>14 DEF Push, Current, MayStop
  <2>2. /\ <<t, runs[t] + 1>> \in Functors
        /\ Pending' = [Pending EXCEPT ![q] = Append(@, <<t, runs[t] + 1>>)]
    BY <1>14, PushPending
  <2>3. ASSUME NEW p \in Queues PROVE NumPushed(p) <= NumPushed(p)'
    <3>1. /\ NumPushed(p) = Len(invoked[p]) + Len(Pending[p])
          /\ NumPushed(p)' = Len(invoked[p]) + Len(Pending'[p])
          /\ Pending[p] \in Seq(Functors)
      BY <1>0, <2>1, SumFacts, SumFactsNext
    <3>2. Len(invoked[p]) \in Nat /\ Len(Pending[p]) \in Nat
      BY <1>0, <3>1, SequenceFacts
    <3>3. \/ Pending'[p] = Pending[p]
          \/ Pending'[p] = Append(Pending[p], <<t, runs[t] + 1>>)
      BY <2>2 DEF Pending
    <3>4. \/ Len(Pending'[p]) = Len(Pending[p])
          \/ Len(Pending'[p]) = Len(Pending[p]) + 1
      BY <3>1, <3>3
    <3>5. \A i, n \in Nat : i + n <= i + n /\ i + n <= i + (n + 1)
      OBVIOUS
    <3> QED
      BY <3>1, <3>2, <3>4, <3>5
  <2>4. DueInv'
    BY <1>0, <2>1, <2>3, DueStep
  <2>5. DrainInv' /\ ExitInv' /\ PaidInv'
    BY <2>1 DEF MailboxInv, DrainInv, ExitInv, PaidInv
  <2> QED
    BY <1>0, <2>4, <2>5 DEF MailboxInv
<1>15. ASSUME NEW t \in Threads, AskToStop(t) PROVE MailboxInv'
  <2>1. Quiet /\ exiting' = exiting /\ loop_pc' = loop_pc
    BY <1>15 DEF AskToStop, Quiet
  <2>2. MayStop
    BY <1>0, <1>15, RequestMayStop DEF AskToStop
  <2>3. DrainInv' /\ ExitInv'
    <3>1. need_stop'
      BY <1>15 DEF AskToStop, RequestStop
    <3> QED
      BY <2>1, <3>1 DEF Quiet, MailboxInv, DrainInv, ExitInv
  <2> QED
    BY <1>0, <2>1, <2>2, <2>3, QuietStep DEF MailboxInv
<1>16. ASSUME NEW t \in Threads, WakeUp(t) PROVE MailboxInv'
  <2>1. UNCHANGED <<functor_queues, stopVars, ownerVars>>
    BY <1>16 DEF WakeUp, CompareExchange, IncrementEventfd
  <2>2. Quiet /\ MayStop /\ exiting' = exiting /\ loop_pc' = loop_pc
    BY <2>1 DEF Quiet, MayStop
  <2>3. DrainInv' /\ ExitInv'
    BY <2>1 DEF MailboxInv, DrainInv, ExitInv
  <2> QED
    BY <1>0, <2>2, <2>3, QuietStep DEF MailboxInv
<1>17. ASSUME NEW f \in Fds \cup {Timerfd}, FdBecomesReady(f)
       PROVE  MailboxInv'
  <2>1. UNCHANGED <<functor_queues, stopVars, ownerVars>>
    BY <1>17 DEF FdBecomesReady
  <2>2. Quiet /\ MayStop /\ exiting' = exiting /\ loop_pc' = loop_pc
    BY <2>1 DEF Quiet, MayStop
  <2>3. DrainInv' /\ ExitInv'
    BY <2>1 DEF MailboxInv, DrainInv, ExitInv
  <2> QED
    BY <1>0, <2>2, <2>3, QuietStep DEF MailboxInv
<1>18. CASE UNCHANGED vars
  <2>1. Quiet /\ MayStop /\ exiting' = exiting /\ loop_pc' = loop_pc
    BY <1>18 DEF vars, Quiet, MayStop
  <2>2. DrainInv' /\ ExitInv'
    BY <1>18 DEF vars, MailboxInv, DrainInv, ExitInv
  <2> QED
    BY <1>0, <2>1, <2>2, QuietStep DEF MailboxInv
<1> QED
  BY <1>1, <1>2, <1>3, <1>4, <1>5, <1>6, <1>7, <1>8, <1>9, <1>10, <1>11,
     <1>12, <1>13, <1>14, <1>15, <1>16, <1>17, <1>18
     DEF Next, OwnerStep

\* A step that changes nothing in the mapping is a stuttering step.
LEMMA MapStutter ==
    ASSUME UNCHANGED <<Pending, invoked, MailboxState, due>>
    PROVE  UNCHANGED Mailbox!vars
BY DEF Mailbox!vars, Pending, MailboxState

\* A functor put behind the pending ones is a Post.
LEMMA MapPost ==
    ASSUME NEW q \in Queues, NEW f \in Functors,
           Pending' = [Pending EXCEPT ![q] = Append(@, f)],
           UNCHANGED <<invoked, MailboxState, due>>
    PROVE  Mailbox!Next
BY DEF Mailbox!Next, Mailbox!Post, Pending, MailboxState

\* The first request to stop, by any thread, is a Stop.
LEMMA MapStop ==
    ASSUME MailboxState = "open", MailboxState' = "stopping",
           due' = [q \in Queues |-> Len(invoked[q]) + Len(Pending[q])],
           UNCHANGED <<Pending, invoked>>
    PROVE  Mailbox!Next
BY DEF Mailbox!Next, Mailbox!Stop, Mailbox!AskToStop, Pending, MailboxState

\* Calling the first pending functor, which may ask to stop, is an Invoke.
LEMMA MapInvoke ==
    ASSUME NEW q \in Queues,
           MailboxState # "closed",
           Pending[q] # <<>>,
           invoked' = [invoked EXCEPT ![q] = Append(@, Head(Pending[q]))],
           Pending' = [Pending EXCEPT ![q] = Tail(@)],
           \/ UNCHANGED <<MailboxState, due>>
           \/ /\ MailboxState = "open"
              /\ MailboxState' = "stopping"
              /\ due' = [p \in Queues |-> Len(invoked[p]) + Len(Pending[p])]
    PROVE  Mailbox!Next
BY DEF Mailbox!Next, Mailbox!Invoke, Mailbox!AskToStop, Pending, MailboxState

\* Leaving loop() with everything due invoked is a Close.
LEMMA MapClose ==
    ASSUME MailboxState = "stopping", MailboxState' = "closed",
           \A q \in Queues : Len(invoked[q]) >= due[q],
           UNCHANGED <<Pending, invoked, due>>
    PROVE  Mailbox!Next
BY DEF Mailbox!Next, Mailbox!Close, Pending, MailboxState

\* A step that moves no functor and does not end the loop is a request to
\* stop or nothing at all to the mailbox.
LEMMA QuietRefines ==
    ASSUME MailboxInv, Quiet, MayStop,
           loop_pc' = "exited" <=> loop_pc = "exited"
    PROVE  [Mailbox!Next]_(Mailbox!vars)
<1>1. Pending' = Pending /\ invoked' = invoked
  BY DEF Quiet, Pending, Current
<1>2. CASE UNCHANGED stopVars
  <2>1. MailboxState' = MailboxState /\ due' = due
    BY <1>2 DEF MailboxState, stopVars
  <2> QED
    BY <1>1, <2>1, MapStutter
<1>3. CASE ~ need_stop /\ RequestStop
  <2>1. loop_pc # "exited"
    BY <1>3 DEF MailboxInv, ExitInv
  <2>2. /\ need_stop' = TRUE
        /\ due' = [q \in Queues |-> Len(invoked[q]) + Len(Pending[q])]
    BY <1>3, RequestCounts DEF MailboxInv
  <2>3. MailboxState = "open" /\ MailboxState' = "stopping"
    BY <1>3, <2>1, <2>2 DEF MailboxState
  <2> QED
    BY <1>1, <2>2, <2>3, MapStop
<1> QED
  BY <1>2, <1>3 DEF MayStop

\* Every step of the loop, its callers and the kernel is a step of the
\* mailbox, or none.
LEMMA RefinementStep ==
    MailboxInv /\ [Next]_vars => [Mailbox!Next]_(Mailbox!vars)
<1> SUFFICES ASSUME MailboxInv, [Next]_vars
             PROVE  [Mailbox!Next]_(Mailbox!vars)
  OBVIOUS
<1> USE DEF ownerVars, kernelVars, threadVars, stopVars, lampVars
<1>0. TypeOK
  BY DEF MailboxInv
<1>1. CASE CheckStop
  <2>1. drained = 0
    BY <1>1 DEF CheckStop, MailboxInv, DrainInv
  <2>2. Quiet /\ MayStop /\ loop_pc # "exited" /\ loop_pc' # "exited"
    BY <1>1, <2>1 DEF CheckStop, Quiet, MayStop
  <2> QED
    BY <2>2, QuietRefines
<1>2. CASE Poll \/ PutLampOut \/ \E q \in Queues : ReadEventfd(q)
  <2>1. Quiet /\ MayStop /\ loop_pc # "exited" /\ loop_pc' # "exited"
    BY <1>2 DEF Poll, PutLampOut, ReadEventfd, Quiet, MayStop
  <2> QED
    BY <2>1, QuietRefines
<1>3. CASE DispatchDone
  <2>1. drained = 0
    BY <1>3 DEF DispatchDone, MailboxInv, DrainInv
  <2>2. Quiet /\ MayStop /\ loop_pc # "exited" /\ loop_pc' # "exited"
    BY <1>3, <2>1 DEF DispatchDone, Quiet, MayStop
  <2> QED
    BY <2>2, QuietRefines
<1>4. ASSUME NEW f \in Fds \cup {Timerfd}, DispatchFd(f)
      PROVE  [Mailbox!Next]_(Mailbox!vars)
  <2>1. MayStop
    BY <1>0, <1>4, CallbackMayStop DEF DispatchFd, MayStop
  <2>2. Quiet /\ loop_pc' = loop_pc
    BY <1>4 DEF DispatchFd, Quiet
  <2> QED
    BY <2>1, <2>2, QuietRefines
<1>5. CASE PopAll \/ NextQueue \/ PopOne \/ DrainDone
  <2>1. Pending' = Pending
    BY <1>5, PopPending
  <2>2. invoked' = invoked /\ due' = due /\ MailboxState' = MailboxState
    BY <1>5 DEF PopAll, NextQueue, PopOne, DrainDone, MailboxState
  <2> QED
    BY <2>1, <2>2, MapStutter
<1>6. CASE InvokeFunctor
  <2>1. /\ Current \in Queues
        /\ Pending[Current] # <<>>
        /\ Head(Pending[Current]) = Head(batch)
        /\ Pending' = [Pending EXCEPT ![Current] = Tail(@)]
    BY <1>6, InvokePending
  <2>2. invoked' = [invoked EXCEPT ![Current] =
                       Append(@, Head(Pending[Current]))]
    BY <1>6, <2>1 DEF InvokeFunctor
  <2>3. loop_pc = "drain" /\ loop_pc' = "drain" /\ MailboxState # "closed"
    BY <1>6 DEF InvokeFunctor, MailboxState
  <2>4. MayStop
    BY <1>0, <1>6, CallbackMayStop DEF InvokeFunctor
  <2>5. CASE UNCHANGED stopVars
    <3>1. UNCHANGED <<MailboxState, due>>
      BY <2>3, <2>5 DEF MailboxState
    <3> QED
      BY <2>1, <2>2, <2>3, <3>1, MapInvoke
  <2>6. CASE ~ need_stop /\ RequestStop
    <3>1. /\ need_stop' = TRUE
          /\ due' = [q \in Queues |-> Len(invoked[q]) + Len(Pending[q])]
      BY <1>0, <2>6, RequestCounts
    <3>2. MailboxState = "open" /\ MailboxState' = "stopping"
      BY <2>3, <2>6, <3>1 DEF MailboxState
    <3> QED
      BY <2>1, <2>2, <2>3, <3>1, <3>2, MapInvoke
  <2> QED
    BY <2>4, <2>5, <2>6 DEF MayStop
<1>7. CASE Timers
  <2>1. Quiet /\ loop_pc = "timers"
    BY <1>7 DEF Timers, Quiet
  <2>2. MayStop
    BY <1>0, <1>7, CallbackMayStop DEF Timers, MayStop
  <2>3. CASE ~ exiting
    <3>1. loop_pc' = "check"
      BY <1>7, <2>3 DEF Timers
    <3> QED
      BY <2>1, <2>2, <3>1, QuietRefines
  <2>4. CASE exiting
    <3>1. loop_pc' = "exited"
      BY <1>7, <2>4 DEF Timers
    <3>2. need_stop /\ due' = due
      BY <2>2, <2>4 DEF MailboxInv, ExitInv, MayStop
    <3>3. MailboxState = "stopping" /\ MailboxState' = "closed"
      BY <2>1, <3>1, <3>2 DEF MailboxState
    <3>4. \A q \in Queues : Len(invoked[q]) >= due[q]
      <4>1. \A q \in Queues : due[q] <= Len(invoked[q])
        BY <2>1, <2>4 DEF MailboxInv, PaidInv
      <4>2. \A q \in Queues : Len(invoked[q]) \in Nat /\ due[q] \in Nat
        BY <1>0, SequenceFacts DEF TypeOK
      <4> QED
        BY <4>1, <4>2
    <3>5. Pending' = Pending /\ invoked' = invoked
      BY <2>1 DEF Quiet, Pending, Current
    <3> QED
      BY <3>2, <3>3, <3>4, <3>5, MapClose
  <2> QED
    BY <2>3, <2>4
<1>8. CASE LampStoreDrains
  <2>1. Quiet /\ MayStop /\ loop_pc' = loop_pc
    BY <1>8 DEF LampStoreDrains, Quiet, MayStop
  <2> QED
    BY <2>1, QuietRefines
<1>9. ASSUME NEW t \in Threads, NEW q \in Queues, Push(t, q)
      PROVE  [Mailbox!Next]_(Mailbox!vars)
  <2>1. UNCHANGED <<invoked, MailboxState, due>>
    BY <1>9 DEF Push, MailboxState
  <2> QED
    BY <1>9, <2>1, PushPending, MapPost
<1>10. ASSUME NEW t \in Threads, AskToStop(t)
       PROVE  [Mailbox!Next]_(Mailbox!vars)
  <2>1. MayStop
    BY <1>0, <1>10, RequestMayStop DEF AskToStop
  <2>2. Quiet /\ loop_pc' = loop_pc
    BY <1>10 DEF AskToStop, Quiet
  <2> QED
    BY <2>1, <2>2, QuietRefines
<1>11. ASSUME NEW t \in Threads, WakeUp(t)
       PROVE  [Mailbox!Next]_(Mailbox!vars)
  <2>1. Quiet /\ MayStop /\ loop_pc' = loop_pc
    BY <1>11 DEF WakeUp, CompareExchange, IncrementEventfd, Quiet, MayStop
  <2> QED
    BY <2>1, QuietRefines
<1>12. ASSUME NEW f \in Fds \cup {Timerfd}, FdBecomesReady(f)
       PROVE  [Mailbox!Next]_(Mailbox!vars)
  <2>1. Quiet /\ MayStop /\ loop_pc' = loop_pc
    BY <1>12 DEF FdBecomesReady, Quiet, MayStop
  <2> QED
    BY <2>1, QuietRefines
<1>13. CASE UNCHANGED vars
  <2>1. Quiet /\ MayStop /\ loop_pc' = loop_pc
    BY <1>13 DEF vars, Quiet, MayStop
  <2> QED
    BY <2>1, QuietRefines
<1> QED
  BY <1>1, <1>2, <1>3, <1>4, <1>5, <1>6, <1>7, <1>8, <1>9, <1>10, <1>11,
     <1>12, <1>13 DEF Next, OwnerStep

\* In both builds the loop invokes the functors of a queue in the order they
\* were pushed and each exactly once, and when loop() returns everything
\* pushed before ask_to_stop() has been invoked.
THEOREM LoopImplementsMailbox == Spec => ImplementsMailboxSafety
<1>1. Init => MailboxInv
  <2>1. Init => DrainInv /\ ExitInv /\ DueInv /\ PaidInv
    BY DEF Init, DrainInv, ExitInv, DueInv, PaidInv
  <2> QED
    BY <2>1, TypeInit DEF MailboxInv
<1>2. Init => Mailbox!Init
  <2> SUFFICES ASSUME Init PROVE Mailbox!Init
    OBVIOUS
  <2>1. \A q \in Queues :
            (IF Current = q THEN batch ELSE <<>>) \o functor_queues[q] = <<>>
    BY DEF Init
  <2> QED
    BY <2>1 DEF Init, Mailbox!Init
<1> QED
  BY <1>1, <1>2, MailboxStep, RefinementStep, PTL
     DEF Spec, ImplementsMailboxSafety, Mailbox!SafetySpec
============================================================================
