----------------------------- MODULE TimerQueue -----------------------------
(***************************************************************************)
(* The timers of an EventLoop: Timer, TimerContainer, Timerfd and the      *)
(* _add_, _cancel_ and _expire_ functions of src/event_loop.cc, all run by *)
(* the owner thread.  The container is a set of timers ordered by their    *)
(* expiration time; one timerfd is armed for the earliest one, give or     *)
(* take _alarm_advancing_threshold.                                        *)
(*                                                                         *)
(* A Timer is an address: it is "live" from new to delete and the address  *)
(* may then be used again.  generation counts the uses, so that an old     *)
(* TimerIdentifier can be told from the current one.  Callbacks, and the   *)
(* functors run before the timers, may add and cancel timers.              *)
(***************************************************************************)
EXTENDS Integers, FiniteSets, FiniteSetsExt

CONSTANTS Timers,        \* addresses of Timer objects
          MaxTime,       \* bound: the clock stops here
          MaxCreated,    \* bound: timers created, at any address
          Delays,        \* delays given to run_after_time_interval
          Intervals,     \* repetition intervals, 0 for a one-off timer
          Repetitions,   \* numbers of repetitions, -1 for no end
          Threshold,     \* _alarm_advancing_threshold
          Forever        \* TimePoint::FOREVER, one below the largest int64_t

ASSUME TimerAssumption ==
    /\ MaxTime \in Nat \ {0} /\ MaxCreated \in Nat /\ Threshold \in Nat
    /\ Delays \subseteq Nat /\ Intervals \subseteq Nat
    /\ Repetitions \subseteq Nat \cup {-1}
    /\ Forever \in Nat /\ MaxTime < Forever
    /\ \A d \in Delays \cup Intervals : MaxTime + d + Threshold < Forever

None == -1   \* no alarm

VARIABLES
    now,                \* CLOCK_REALTIME
    live,               \* addresses that hold a Timer
    created,            \* timers created so far, for the bound only
    generation,         \* how often each address has been used
    expiration, interval, repetitions,   \* the fields of the Timers
    container,          \* _timer_container
    next_expiration,    \* _next_earliest_expiration_time
    alarm,              \* when the timerfd is armed for, or None
    fired,              \* the timerfd is readable
    timerfd_triggered,  \* _timerfd_triggered
    phase,              \* where loop() is
    exiting,            \* it is on its exit path
    until,              \* the time point of the current expiration
    expired,            \* expired_timers not yet dealt with
    running,            \* the timer whose callback runs: a set of at most one
    still_valid,        \* timers_that_are_still_valid
    handles,            \* TimerIdentifiers handed out: <<address, generation>>
    cancelled,          \* history: the timers that cancellations removed
    late_fires,         \* history: timers that fired after their cancellation
    fires, first        \* history: callbacks of the current use, and its
                        \* <<first expiration, repetitions>>

timerVars == <<live, created, generation, expiration, interval, repetitions>>
alarmVars == <<next_expiration, alarm, fired>>
expireVars == <<until, expired, running, still_valid>>
historyVars == <<handles, cancelled, late_fires, fires, first>>
vars == <<now, timerVars, container, alarmVars, timerfd_triggered, phase,
          exiting, expireVars, historyVars>>

Init ==
    /\ now = 1
    /\ live = {}
    /\ created = 0
    /\ generation = [t \in Timers |-> 0]
    /\ expiration = [t \in Timers |-> 0]
    /\ interval = [t \in Timers |-> 0]
    /\ repetitions = [t \in Timers |-> 0]
    /\ container = {}
    /\ next_expiration = Forever
    /\ alarm = None
    /\ fired = FALSE
    /\ timerfd_triggered = FALSE
    /\ phase = "poll"
    /\ exiting = FALSE
    /\ until = 0
    /\ expired = {}
    /\ running = {}
    /\ still_valid = {}
    /\ handles = {}
    /\ cancelled = {}
    /\ late_fires = {}
    /\ fires = [t \in Timers |-> 0]
    /\ first = [t \in Timers |-> <<0, 0>>]

-----------------------------------------------------------------------------
(* The timerfd and the container *)

\* TimerContainer::get_earliest_expiration_time_point()
Earliest(timers, exp) ==
    IF timers = {} THEN Forever ELSE Min({exp[t] : t \in timers})

\* TimerContainer::move_out_before_or_at(): the range below time_point + 1,
\* which is still an int64_t when time_point is FOREVER.
DueAt(timers, time_point) == {t \in timers : expiration[t] < time_point + 1}

\* Timerfd::set_alarm_at_time_point(): timerfd_settime() forgets an unread
\* expiration, and a time that has passed expires at once.
SetAlarm(at) ==
    /\ alarm' = IF at <= now THEN None ELSE at
    /\ fired' = (at <= now)
    /\ next_expiration' = at

\* Mutant: _next_earliest_expiration_time is not reset with the alarm.
CancelAlarmOnly ==
    /\ alarm' = None
    /\ fired' = FALSE
    /\ UNCHANGED next_expiration

\* _cancel_alarm(): Timerfd::cancel()
CancelAlarm ==
    /\ alarm' = None
    /\ fired' = FALSE
    /\ next_expiration' = Forever

\* The alarm is advanced only if that gains more than the threshold ...
AdvanceAlarm(earliest) ==
    IF earliest < next_expiration - Threshold
    THEN SetAlarm(earliest)
    ELSE UNCHANGED alarmVars

\* Mutant: the alarm is not put off when the earliest timer goes.
PutOffNothing(earliest) == UNCHANGED alarmVars

\* ... and put off after a removal.
PutOffAlarm(earliest) ==
    IF next_expiration < earliest
    THEN SetAlarm(earliest)
    ELSE UNCHANGED alarmVars

\* Time passes.
Tick ==
    /\ now < MaxTime
    /\ now' = now + 1
    /\ fired' = (fired \/ alarm = now + 1)
    /\ alarm' = IF alarm = now + 1 THEN None ELSE alarm
    /\ UNCHANGED <<timerVars, container, next_expiration, timerfd_triggered,
                   phase, exiting, expireVars, historyVars>>

-----------------------------------------------------------------------------
(* Adding and cancelling *)

\* User code runs: a functor, or the callback of a timer.
UserCode == phase \in {"functors", "callback"}

\* run_after_time_interval() and _add_a_timer_and_update_alarm()
AddTimer(t, delay, gap, n) ==
    /\ UserCode
    /\ t \notin live
    /\ created < MaxCreated
    /\ created' = created + 1
    /\ live' = live \cup {t}
    /\ generation' = [generation EXCEPT ![t] = @ + 1]
    /\ expiration' = [expiration EXCEPT ![t] = now + delay]
    /\ interval' = [interval EXCEPT ![t] = gap]
    /\ repetitions' = [repetitions EXCEPT ![t] = n]
    /\ container' = container \cup {t}
    /\ AdvanceAlarm(Earliest(container', expiration'))
    /\ handles' = handles \cup {<<t, generation[t] + 1>>}
    /\ fires' = [fires EXCEPT ![t] = 0]
    /\ first' = [first EXCEPT ![t] = <<now + delay, n>>]
    /\ UNCHANGED <<now, timerfd_triggered, phase, exiting, expireVars,
                   cancelled, late_fires>>

\* Mutant: the result of the look-up is inverted.
RemovesNot(t) == t \notin container

\* TimerContainer::remove_one() finds the timer.
Removes(t) == t \in container

\* cancel_a_timer() and _cancel_a_timer_and_update_alarm().  The timer is
\* looked up through its pointer, which may outlive it: the memory of a deleted
\* Timer is read, and a new one at the same address is the one that is found.
\* The last timer of the container is removed and not deleted.  cancelled notes
\* the timer that is removed, which need not be the one the handle was for.
CancelTimer(t, g) ==
    LET rest == container \ {t}
    IN  /\ UserCode
        /\ <<t, g>> \in handles
        /\ handles' = handles \ {<<t, g>>}
        /\ cancelled' = IF t \in container
                        THEN cancelled \cup {<<t, generation[t]>>}
                        ELSE cancelled
        /\ IF Removes(t)
           THEN /\ container' = rest
                /\ IF rest = {}
                   THEN CancelAlarm /\ UNCHANGED live
                   ELSE /\ PutOffAlarm(Earliest(rest, expiration))
                        /\ live' = live \ {t}
           ELSE UNCHANGED <<live, container, alarmVars>>
        /\ UNCHANGED <<now, created, generation, expiration, interval,
                       repetitions, timerfd_triggered, phase, exiting,
                       expireVars, late_fires, fires, first>>

-----------------------------------------------------------------------------
(* loop() and _expire_timers_and_update_alarm() *)

\* epoll_wait() returns, for the timerfd or for something else.
Poll ==
    /\ phase = "poll"
    /\ phase' = "functors"
    /\ timerfd_triggered' = (timerfd_triggered \/ fired)
    /\ fired' = FALSE
    /\ UNCHANGED <<now, timerVars, container, next_expiration, alarm, exiting,
                   expireVars, historyVars>>

\* loop() was asked to stop: the functors and the timers once more.
ExitLoop ==
    /\ phase = "poll"
    /\ phase' = "functors"
    /\ exiting' = TRUE
    /\ UNCHANGED <<now, timerVars, container, alarmVars, timerfd_triggered,
                   expireVars, historyVars>>

\* The functors are done and the timerfd did not trigger.
NoExpiration ==
    /\ phase = "functors"
    /\ ~ timerfd_triggered /\ ~ exiting
    /\ phase' = "poll"
    /\ UNCHANGED <<now, timerVars, container, alarmVars, timerfd_triggered,
                   exiting, expireVars, historyVars>>

\* Mutant: the expired timers are copied and not moved out.
BeginExpirationCopies ==
    /\ phase = "functors"
    /\ timerfd_triggered \/ exiting
    /\ until' = now
    /\ expired' = DueAt(container, now)
    /\ phase' = "expire"
    /\ UNCHANGED <<now, timerVars, container, alarmVars, timerfd_triggered,
                   exiting, running, still_valid, historyVars>>

\* The expired timers are moved out and the alarm is set for the others.
BeginExpiration ==
    /\ phase = "functors"
    /\ timerfd_triggered \/ exiting
    /\ until' = now
    /\ expired' = DueAt(container, now)
    /\ container' = container \ DueAt(container, now)
    /\ IF container' = {} THEN CancelAlarm
                          ELSE PutOffAlarm(Earliest(container', expiration))
    /\ phase' = "expire"
    /\ UNCHANGED <<now, timerVars, timerfd_triggered, exiting, running,
                   still_valid, historyVars>>

\* The callback of an expired timer starts; they run in the order of time.
StartCallback(t) ==
    /\ phase = "expire"
    /\ IF running = {}
       THEN t \in expired /\ expiration[t] = Earliest(expired, expiration)
       ELSE t \in running
    /\ running' = {t}
    /\ expired' = expired \ {t}
    /\ phase' = "callback"
    /\ fires' = [fires EXCEPT ![t] = @ + 1]
    /\ late_fires' = IF <<t, generation[t]>> \in cancelled
                     THEN late_fires \cup {<<t, generation[t]>>}
                     ELSE late_fires
    /\ UNCHANGED <<now, timerVars, container, alarmVars, timerfd_triggered,
                   exiting, until, still_valid, handles, cancelled,
                   first>>

\* Mutants: -1 is no exception, and one that makes it the last repetition.
OneLess(n) == n - 1
OneLessOrNone(n) == IF n > 0 THEN n - 1 ELSE 0

\* The repetitions left after one more: -1 stands for no end.
RepetitionsLeft(n) == IF n > 0 THEN n - 1 ELSE n

\* It returns: the rest of expire_once() and the test of expire_until().
EndCallback(t) ==
    /\ phase = "callback"
    /\ t \in running
    /\ phase' = "expire"
    /\ IF interval[t] = 0 \/ repetitions[t] = 0
       THEN /\ live' = live \ {t}
            /\ running' = {}
            /\ UNCHANGED <<expiration, repetitions, still_valid>>
       ELSE /\ expiration' = [expiration EXCEPT ![t] = @ + interval[t]]
            /\ repetitions' = [repetitions EXCEPT ![t] = RepetitionsLeft(@)]
            /\ IF expiration'[t] > until
               THEN running' = {} /\ still_valid' = still_valid \cup {t}
               ELSE UNCHANGED <<running, still_valid>>
            /\ UNCHANGED live
    /\ UNCHANGED <<now, created, generation, interval, container, alarmVars,
                   timerfd_triggered, exiting, until, expired, historyVars>>

\* The repeating timers go back into the container.
EndExpiration ==
    /\ phase = "expire"
    /\ expired = {}
    /\ running = {}
    /\ container' = container \cup still_valid
    /\ IF still_valid = {}
       THEN UNCHANGED alarmVars
       ELSE AdvanceAlarm(Earliest(container', expiration))
    /\ still_valid' = {}
    /\ timerfd_triggered' = (exiting /\ timerfd_triggered)
    /\ phase' = IF exiting THEN "exited" ELSE "poll"
    /\ UNCHANGED <<now, timerVars, exiting, until, expired, running,
                   historyVars>>

\* ~EventLoop: _release_all_timers() deletes all timers up to FOREVER.
Destroy ==
    /\ phase = "exited"
    /\ live' = live \ DueAt(container, Forever)
    /\ container' = container \ DueAt(container, Forever)
    /\ phase' = "destroyed"
    /\ UNCHANGED <<now, created, generation, expiration, interval, repetitions,
                   alarmVars, timerfd_triggered, exiting, expireVars,
                   historyVars>>

-----------------------------------------------------------------------------
LoopStep ==
    \/ NoExpiration \/ BeginExpiration \/ EndExpiration
    \/ \E t \in Timers : StartCallback(t) \/ EndCallback(t)

Next ==
    \/ Tick
    \/ Poll \/ ExitLoop
    \/ LoopStep
    \/ Destroy
    \/ \E t \in Timers :
          \/ \E d \in Delays, i \in Intervals, n \in Repetitions :
                AddTimer(t, d, i, n)
          \/ \E g \in 1 .. MaxCreated : CancelTimer(t, g)

\* Time passes, the loop is scheduled, and epoll_wait() returns when the
\* timerfd is readable.
Fairness == WF_vars(Tick) /\ WF_vars(LoopStep) /\ WF_vars(fired /\ Poll)

Spec == Init /\ [][Next]_vars /\ Fairness

-----------------------------------------------------------------------------
(* Properties *)

\* The variables have their types.
TypeOK ==
    /\ now \in 1 .. MaxTime
    /\ live \subseteq Timers
    /\ created \in 0 .. MaxCreated
    /\ generation \in [Timers -> 0 .. created]
    /\ expiration \in [Timers -> Nat]
    /\ interval \in [Timers -> Intervals \cup {0}]
    /\ repetitions \in [Timers -> Nat \cup {-1}]
    /\ container \subseteq Timers
    /\ next_expiration \in 0 .. Forever
    /\ alarm \in Nat \cup {None}
    /\ fired \in BOOLEAN
    /\ timerfd_triggered \in BOOLEAN
    /\ phase \in {"poll", "functors", "expire", "callback", "exited",
                 "destroyed"}
    /\ exiting \in BOOLEAN
    /\ until \in 0 .. MaxTime
    /\ expired \subseteq Timers
    /\ running \subseteq Timers /\ \A t, u \in running : t = u
    /\ still_valid \subseteq Timers
    /\ handles \subseteq Timers \X (1 .. created)

\* No timer stalls: whatever was added, cancelled and expired in whatever
\* order, when the loop goes to sleep the timerfd is armed for, or has fired
\* for, a time no later than the earliest timer plus the threshold.  The
\* one-shot alarm is never left disarmed with timers waiting
\* (_add_, _cancel_ and _expire_..._and_update_alarm).
AlarmCoversTimers ==
    phase = "poll" => \A t \in container :
        fired \/ (alarm # None /\ alarm <= expiration[t] + Threshold)

\* The current timer at an address was removed by a cancellation.
Cancelled(t) == <<t, generation[t]>> \in cancelled

\* A timer is in at most one place, and the Timer objects that exist are those
\* some place still holds: none is used after it was deleted, and none is
\* forgotten, not even by ~EventLoop.  (The exception are cancelled timers: the
\* last one of a container is removed and never deleted.)
TimersAreLive ==
    /\ container \cup expired \cup running \cup still_valid =
          {t \in live : ~ Cancelled(t)}
    /\ container \cap (expired \cup running \cup still_valid) = {}
    /\ expired \cap (running \cup still_valid) = {}
    /\ running \cap still_valid = {}

\* How often the timer that is, or was last, at t has to run: for ever, or once
\* and once more for every repetition asked for.
Endless(t) == interval[t] # 0 /\ first[t][2] = -1
Total(t) == IF interval[t] = 0 THEN 1 ELSE first[t][2] + 1

\* number_of_repetitions is honoured exactly across catching up on missed
\* intervals (expire_until).  A timer is deleted by an expiration only when it
\* has run as often as it had to, and an endless one never is; it is deleted at
\* that moment and not after another run, so that outside its last callback a
\* live timer has runs left; no run is ahead of its time; and what waits in the
\* container is scheduled for, and counts, just the runs that are left.
RepetitionsExact ==
    \A t \in Timers : generation[t] > 0 =>
        /\ t \notin live /\ ~ Cancelled(t) /\ phase # "destroyed" =>
              ~ Endless(t) /\ fires[t] = Total(t)
        /\ t \in live /\ ~ Endless(t) =>
              \/ fires[t] < Total(t)
              \/ fires[t] = Total(t) /\ phase = "callback" /\ t \in running
        /\ fires[t] > 0 => now >= first[t][1] + (fires[t] - 1) * interval[t]
        /\ t \in container =>
              /\ expiration[t] = first[t][1] + fires[t] * interval[t]
              /\ ~ Endless(t) /\ interval[t] # 0 =>
                    repetitions[t] = first[t][2] - fires[t]

\* Every timer is expired or cancelled eventually, if its time comes before
\* the end of time and the loop is not stopped first.
TimersExpire ==
    \A t \in Timers :
        (t \in container /\ expiration[t] + Threshold <= MaxTime)
            ~> (t \notin container \/ exiting)

\* A timer that is cancelled while it waits in the container never runs again,
\* whatever is in flight.  (One that is cancelled while it is being expired,
\* even by its own callback, goes on: remove_one() does not find it.)
CancelledNeverFires == late_fires = {}

=============================================================================
