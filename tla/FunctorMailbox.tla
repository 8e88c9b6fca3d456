--------------------------- MODULE FunctorMailbox ---------------------------
(***************************************************************************)
(* What an EventLoop promises the threads that hand it functors, with no   *)
(* word on queues, lamps, eventfds or polling: per queue the functors are  *)
(* invoked in the order they were posted, each exactly once; each is       *)
(* invoked eventually unless the loop has been closed; and the loop closes *)
(* only after it was asked to stop and only when everything posted before  *)
(* that request has been invoked.                                          *)
(***************************************************************************)
EXTENDS Integers, Sequences

CONSTANTS Queues, Functors

VARIABLES pending,  \* posted and not yet invoked, per queue
          invoked,  \* invoked so far, per queue
          state,    \* "open", "stopping" or "closed"
          due       \* how many had been posted at the stop request

vars == <<pending, invoked, state, due>>

Init ==
    /\ pending = [q \in Queues |-> <<>>]
    /\ invoked = [q \in Queues |-> <<>>]
    /\ state = "open"
    /\ due = [q \in Queues |-> 0]

Post(q, f) ==
    /\ pending' = [pending EXCEPT ![q] = Append(@, f)]
    /\ UNCHANGED <<invoked, state, due>>

\* What an invoked functor does may be to ask the loop to stop.
AskToStop ==
    /\ state = "open"
    /\ state' = "stopping"
    /\ due' = [q \in Queues |-> Len(invoked[q]) + Len(pending[q])]

Invoke(q) ==
    /\ state # "closed"
    /\ pending[q] # <<>>
    /\ invoked' = [invoked EXCEPT ![q] = Append(@, Head(pending[q]))]
    /\ pending' = [pending EXCEPT ![q] = Tail(@)]
    /\ AskToStop \/ UNCHANGED <<state, due>>

Stop == AskToStop /\ UNCHANGED <<pending, invoked>>

Close ==
    /\ state = "stopping"
    /\ \A q \in Queues : Len(invoked[q]) >= due[q]
    /\ state' = "closed"
    /\ UNCHANGED <<pending, invoked, due>>

Next ==
    \/ \E q \in Queues : Invoke(q) \/ \E f \in Functors : Post(q, f)
    \/ Stop
    \/ Close

SafetySpec == Init /\ [][Next]_vars

Spec == /\ SafetySpec
        /\ \A q \in Queues : WF_vars(Invoke(q))
=============================================================================
