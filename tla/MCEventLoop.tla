---------------------------- MODULE MCEventLoop ----------------------------
(* Instances of EventLoop for TLC. *)
EXTENDS EventLoop, TLC

CONSTANTS t1, t2, f1, tfd

\* One producer per queue, as SpscLockFreeQueue requires.
MCQueuesOfSpsc == t1 :> {0} @@ t2 :> {NumQueues - 1}

\* Two queues; t1 uses the first, t2 both.
MCQueuesOf == t1 :> {0} @@ t2 :> 0 .. NumQueues - 1
============================================================================
