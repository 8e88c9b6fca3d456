-------------------------- MODULE TimerQueueProofs --------------------------
(***************************************************************************)
(* Proofs about TimerQueue, for any number of timers, any delays, any      *)
(* repetition intervals and counts, and any alarm threshold.               *)
(*                                                                         *)
(* None of the properties is inductive.  PlaceInv says where a Timer can   *)
(* be in each phase of loop(); ScheduleInv that what is being expired is   *)
(* due and that nothing is scheduled so late that the threshold would take *)
(* it past FOREVER; with it AlarmInv says that                             *)
(* _next_earliest_expiration_time is the time the timerfd is armed for, or *)
(* has fired for, or was read for in this very round.  CancelInv and       *)
(* NothingForgotten follow an identifier and the Timer objects through the *)
(* uses of an address, and RepetitionInv the counters of a Timer, whose    *)
(* values it still knows when the Timer has been deleted.                  *)
(***************************************************************************)
EXTENDS TimerQueue, WellFoundedInduction, TLAPS

\* The timers that may still be expired.
Held == container \cup expired \cup running \cup still_valid

\* A timer is in one place only and not deleted while it is there, and only an
\* expiration under way holds timers outside the container.
Places ==
    /\ Held \subseteq live
    /\ container \cap (expired \cup running \cup still_valid) = {}
    /\ expired \cap (running \cup still_valid) = {}
    /\ running \cap still_valid = {}

PlaceInv ==
    /\ Places
    /\ phase \notin {"expire", "callback"} =>
          expired = {} /\ running = {} /\ still_valid = {}

\* Timers outside the container are due, except those that wait to go back.
ScheduleInv ==
    /\ until <= now
    /\ \A t \in expired \cup running : expiration[t] <= until
    /\ \A t \in Held : expiration[t] + Threshold < Forever

\* The alarm is the next expiration, up to the moment it has been acted upon.
AlarmInv ==
    /\ alarm # None => alarm = next_expiration /\ now < alarm
    /\ fired => next_expiration <= now
    /\ \A t \in container : next_expiration <= expiration[t] + Threshold
    /\ next_expiration < Forever =>
          \/ alarm # None
          \/ fired
          \/ timerfd_triggered /\ phase = "functors" /\ next_expiration <= now

\* An identifier is of a past use of its address, or of the current one.
CancelInv ==
    /\ \A t \in Timers, g \in Nat : <<t, g>> \in handles => g <= generation[t]
    /\ \A t \in Timers, g \in Nat :
          <<t, g>> \in cancelled =>
             /\ g <= generation[t]
             /\ g = generation[t] => t \notin Held
    /\ late_fires = {}

\* What no place holds was deleted, unless a cancellation took it out.
NothingForgotten == \A t \in live : t \in Held \/ Cancelled(t)

\* The callbacks of a timer after which its expiration time was moved on.
Settled(t) == IF phase = "callback" /\ t \in running THEN fires[t] - 1
                                                     ELSE fires[t]

\* What Timer::expire_once() has done to the fields of a timer so far ...
OnSchedule(t) ==
    /\ Settled(t) \in Nat
    /\ interval[t] = 0 => Settled(t) = 0
    /\ expiration[t] = first[t][1] + Settled(t) * interval[t]
    /\ first[t][2] >= 0 =>
          /\ repetitions[t] >= 0
          /\ interval[t] # 0 => repetitions[t] + Settled(t) = first[t][2]
    /\ Endless(t) => repetitions[t] = -1

\* ... when it has run its callback ...
OnTime(t) ==
    fires[t] > 0 => now >= first[t][1] + (fires[t] - 1) * interval[t]

\* ... and how often: less than it had to if a cancellation took it out, and
\* exactly as often if an expiration deleted it.
RunsLeft(t) == Endless(t) \/ fires[t] < Total(t)
RunsDone(t) == ~ Endless(t) /\ fires[t] = Total(t)

RepetitionInv ==
    /\ fires \in [Timers -> Nat]
    /\ first \in [Timers -> Nat \X (Nat \cup {-1})]
    /\ \A t \in Held : OnSchedule(t)
    /\ \A t \in Timers : OnTime(t)
    /\ \A t \in live \ Held : RunsLeft(t)
    /\ \A t \in Timers \ live :
          generation[t] = 0 \/ Cancelled(t) \/ phase = "destroyed" \/ RunsDone(t)

\* Together they are inductive.
TimerInv == TypeOK /\ PlaceInv /\ ScheduleInv /\ AlarmInv

-----------------------------------------------------------------------------
(* Constants and operators *)

\* What TimerAssumption says of the constants, in the form the proofs use.
LEMMA ConstantFacts ==
    /\ MaxTime \in Nat /\ MaxTime > 0 /\ MaxTime < Forever
    /\ MaxCreated \in Nat /\ Threshold \in Nat /\ Forever \in Nat
    /\ \A d \in Delays \cup Intervals :
          d \in Nat /\ MaxTime + d + Threshold < Forever
    /\ Repetitions \subseteq Nat \cup {-1}
    /\ Intervals \subseteq Nat
BY TimerAssumption DEF TimerAssumption

\* The container is ordered: get_earliest_expiration_time_point() is the time
\* of one of its timers, and of none later than another.
LEMMA EarliestFacts ==
    ASSUME NEW S, NEW e, S # {}, \A t \in S : e[t] \in Nat
    PROVE  /\ Earliest(S, e) \in Nat
           /\ \E t \in S : Earliest(S, e) = e[t]
           /\ \A t \in S : Earliest(S, e) <= e[t]
<1> DEFINE T == {e[t] : t \in S}
<1>1. T \subseteq Nat /\ T # {}
  OBVIOUS
<1>2. \E x \in T : \A y \in T : ~ (<<y, x>> \in OpToRel(<, Nat))
  BY <1>1, WFMin, NatLessThanWellFounded
<1>3. PICK x \in T : \A y \in T : ~ (<<y, x>> \in OpToRel(<, Nat))
  BY <1>2
<1>4. \A y \in T : x <= y
  <2>1. ASSUME NEW y \in Nat, y < x PROVE <<y, x>> \in OpToRel(<, Nat)
    BY <1>1, <2>1 DEF OpToRel
  <2>2. \A y \in T : ~ (y < x)
    BY <1>1, <1>3, <2>1, Zenon
  <2>3. \A y \in Nat : ~ (y < x) => x <= y
    BY <1>1
  <2> QED
    BY <1>1, <2>2, <2>3, Zenon
<1>5. Min(T) \in T /\ \A y \in T : Min(T) <= y
  BY <1>4 DEF Min
<1> QED
  BY <1>1, <1>5 DEF Earliest

\* move_out_before_or_at() moves out what is due.
LEMMA DueNow ==
    ASSUME TypeOK, NEW S \in SUBSET Timers
    PROVE  DueAt(S, now) = {t \in S : expiration[t] <= now}
<1>1. now \in Nat /\ \A t \in S : expiration[t] \in Nat
  BY DEF TypeOK
<1> QED
  BY <1>1 DEF DueAt

\* ~EventLoop() asks for the timers up to FOREVER: they are all of them
\* (_release_all_timers).
LEMMA AllDueAtForever ==
    ASSUME TypeOK, ScheduleInv
    PROVE  DueAt(container, Forever) = container
<1>1. \A t \in container : expiration[t] \in Nat
  BY DEF TypeOK
<1>2. \A t \in container : expiration[t] + Threshold < Forever
  BY DEF ScheduleInv, Held
<1> QED
  BY <1>1, <1>2, ConstantFacts DEF DueAt

\* One more repetition is one more interval.
LEMMA OneMoreInterval ==
    \A k \in Nat, i \in Nat : (k + 1) * i = k * i + i /\ k * i \in Nat
OBVIOUS

\* The alarm functions keep the types of the alarm, whatever the earliest
\* timer, provided it is not scheduled past FOREVER.
LEMMA AlarmTypes ==
    ASSUME TypeOK,
           \/ CancelAlarm
           \/ UNCHANGED alarmVars
           \/ \E at \in Nat : /\ at < Forever
                              /\ AdvanceAlarm(at) \/ PutOffAlarm(at)
    PROVE  /\ next_expiration' \in 0 .. Forever
           /\ alarm' \in Nat \cup {None}
           /\ fired' \in BOOLEAN
<1>1. \/ CancelAlarm
      \/ UNCHANGED alarmVars
      \/ \E at \in Nat : at < Forever /\ SetAlarm(at)
  BY DEF AdvanceAlarm, PutOffAlarm
<1>2. fired' \in BOOLEAN
  <2>1. CASE \E at \in Nat : SetAlarm(at)
    BY <2>1 DEF SetAlarm
  <2>2. CASE CancelAlarm
    BY <2>2 DEF CancelAlarm
  <2>3. CASE UNCHANGED alarmVars
    BY <2>3 DEF alarmVars, TypeOK
  <2> QED
    BY <1>1, <2>1, <2>2, <2>3
<1>3. next_expiration' \in 0 .. Forever
  BY <1>1, ConstantFacts DEF SetAlarm, CancelAlarm, alarmVars, TypeOK
<1>4. alarm' \in Nat \cup {None}
  BY <1>1 DEF SetAlarm, CancelAlarm, alarmVars, TypeOK
<1> QED
  BY <1>2, <1>3, <1>4

\* The earliest of some timers that are held is not past FOREVER.
LEMMA EarliestHeld ==
    ASSUME TypeOK, ScheduleInv, NEW S \in SUBSET Held, S # {}
    PROVE  /\ Earliest(S, expiration) \in Nat
           /\ Earliest(S, expiration) + Threshold < Forever
           /\ Earliest(S, expiration) < Forever
           /\ \E t \in S : Earliest(S, expiration) = expiration[t]
           /\ \A t \in S : Earliest(S, expiration) <= expiration[t]
<1>1. \A t \in S : expiration[t] \in Nat
  BY DEF TypeOK, Held
<1>2. \A t \in S : expiration[t] + Threshold < Forever
  BY DEF ScheduleInv
<1>3. PICK t \in S : Earliest(S, expiration) = expiration[t]
  BY <1>1, EarliestFacts
<1> QED
  BY <1>1, <1>2, <1>3, EarliestFacts, ConstantFacts

\* A timer that is added is the only one whose time changes, and it is not
\* scheduled past FOREVER (_add_a_timer_and_update_alarm).
LEMMA AddTimerFacts ==
    ASSUME TypeOK, PlaceInv, ScheduleInv, NEW t \in Timers, NEW d \in Delays,
           NEW i \in Intervals, NEW n \in Repetitions, AddTimer(t, d, i, n)
    PROVE  /\ now + d \in Nat /\ now + d + Threshold < Forever
           /\ t \notin Held
           /\ Held' = Held \cup {t}
           /\ expiration'[t] = now + d
           /\ \A u \in Timers : u # t => expiration'[u] = expiration[u]
           /\ \A u \in container' : /\ expiration'[u] \in Nat
                                    /\ expiration'[u] + Threshold < Forever
           /\ container' # {}
           /\ Earliest(container', expiration') \in Nat
           /\ Earliest(container', expiration') + Threshold < Forever
           /\ \A u \in container' :
                 Earliest(container', expiration') <= expiration'[u]
<1>1. now + d \in Nat /\ now + d + Threshold < Forever
  BY ConstantFacts DEF TypeOK
<1>2. t \notin Held
  BY DEF AddTimer, PlaceInv, Places, Held, UserCode
<1>3. Held' = Held \cup {t}
  BY DEF AddTimer, Held, expireVars
<1>4. /\ expiration'[t] = now + d
      /\ \A u \in Timers : u # t => expiration'[u] = expiration[u]
  BY DEF AddTimer, TypeOK
<1>5. ASSUME NEW u \in container'
      PROVE  /\ expiration'[u] \in Nat
             /\ expiration'[u] + Threshold < Forever
  <2>1. u = t \/ (u \in container /\ u \in Timers /\ u # t)
    BY DEF AddTimer, TypeOK
  <2>2. u \in container => expiration[u] + Threshold < Forever
    BY DEF ScheduleInv, Held
  <2> QED
    BY <1>1, <1>4, <2>1, <2>2 DEF TypeOK
<1>6. container' # {}
  BY DEF AddTimer
<1>7. PICK u \in container' :
         Earliest(container', expiration') = expiration'[u]
  BY <1>5, <1>6, EarliestFacts
<1>8. /\ Earliest(container', expiration') \in Nat
      /\ \A v \in container' :
            Earliest(container', expiration') <= expiration'[v]
  BY <1>5, <1>6, EarliestFacts
<1> QED
  BY <1>1, <1>2, <1>3, <1>4, <1>5, <1>6, <1>7, <1>8

-----------------------------------------------------------------------------
(* Types *)

\* The constructor leaves every member with its type.
LEMMA TypeInit == Init => TypeOK
<1> SUFFICES ASSUME Init PROVE TypeOK
  OBVIOUS
<1>1. now \in 1 .. MaxTime /\ created \in 0 .. MaxCreated
      /\ until \in 0 .. MaxTime /\ next_expiration \in 0 .. Forever
  BY ConstantFacts DEF Init
<1>2. /\ generation \in [Timers -> 0 .. created]
      /\ expiration \in [Timers -> Nat]
      /\ interval \in [Timers -> Intervals \cup {0}]
      /\ repetitions \in [Timers -> Nat \cup {-1}]
  BY ConstantFacts DEF Init
<1> QED
  BY <1>1, <1>2 DEF Init, TypeOK

\* Every step keeps the types.  That nothing is scheduled past FOREVER is what
\* keeps _next_earliest_expiration_time in its range.
LEMMA TypeStep ==
    TypeOK /\ PlaceInv /\ ScheduleInv /\ [Next]_vars => TypeOK'
<1> SUFFICES ASSUME TypeOK, PlaceInv, ScheduleInv, [Next]_vars PROVE TypeOK'
  OBVIOUS
<1> USE DEF timerVars, alarmVars, expireVars, historyVars
<1>1. CASE Tick
  <2>1. now' \in 1 .. MaxTime /\ alarm' \in Nat \cup {None}
    BY <1>1, ConstantFacts DEF Tick, TypeOK
  <2>2. fired' \in BOOLEAN
    BY <1>1 DEF Tick
  <2> QED
    BY <1>1, <2>1, <2>2 DEF Tick, TypeOK
<1>2. CASE Poll
  <2>1. timerfd_triggered' \in BOOLEAN
    BY <1>2 DEF Poll
  <2> QED
    BY <1>2, <2>1 DEF Poll, TypeOK
<1>3. CASE ExitLoop
  BY <1>3 DEF ExitLoop, TypeOK
<1>4. CASE NoExpiration
  BY <1>4 DEF NoExpiration, TypeOK
<1>5. CASE BeginExpiration
  <2>1. /\ next_expiration' \in 0 .. Forever
        /\ alarm' \in Nat \cup {None}
        /\ fired' \in BOOLEAN
    <3>1. CASE container' = {}
      BY <1>5, <3>1, ConstantFacts, AlarmTypes DEF BeginExpiration, CancelAlarm
    <3>2. CASE container' # {}
      <4>1. container' \subseteq Held
        BY <1>5 DEF BeginExpiration, Held
      <4>2. /\ Earliest(container', expiration) \in Nat
            /\ Earliest(container', expiration) < Forever
        BY <3>2, <4>1, EarliestHeld
      <4>3. PutOffAlarm(Earliest(container', expiration))
        BY <1>5, <3>2 DEF BeginExpiration
      <4> QED
        BY <4>2, <4>3, AlarmTypes
    <3> QED
      BY <3>1, <3>2
  <2>2. container' \subseteq Timers /\ expired' \subseteq Timers
    BY <1>5 DEF BeginExpiration, DueAt, TypeOK
  <2>3. until' \in 0 .. MaxTime
    BY <1>5, ConstantFacts DEF BeginExpiration, TypeOK
  <2> QED
    BY <1>5, <2>1, <2>2, <2>3 DEF BeginExpiration, TypeOK
<1>6. CASE EndExpiration
  <2>1. /\ next_expiration' \in 0 .. Forever
        /\ alarm' \in Nat \cup {None}
        /\ fired' \in BOOLEAN
    <3>1. CASE still_valid = {}
      BY <1>6, <3>1 DEF EndExpiration, TypeOK
    <3>2. CASE still_valid # {}
      <4>1. container' \subseteq Held /\ container' # {}
        BY <1>6, <3>2 DEF EndExpiration, Held
      <4>2. /\ Earliest(container', expiration) \in Nat
            /\ Earliest(container', expiration) < Forever
        BY <4>1, EarliestHeld
      <4>3. AdvanceAlarm(Earliest(container', expiration))
        BY <1>6, <3>2 DEF EndExpiration
      <4> QED
        BY <4>2, <4>3, AlarmTypes
    <3> QED
      BY <3>1, <3>2
  <2>2. timerfd_triggered' \in BOOLEAN
    BY <1>6 DEF EndExpiration
  <2> QED
    BY <1>6, <2>1, <2>2 DEF EndExpiration, TypeOK
<1>7. ASSUME NEW t \in Timers, StartCallback(t) PROVE TypeOK'
  BY <1>7 DEF StartCallback, TypeOK
<1>8. ASSUME NEW t \in Timers, EndCallback(t) PROVE TypeOK'
  <2>1. running' \subseteq running
    BY <1>8 DEF EndCallback
  <2>2. interval[t] \in Nat /\ expiration[t] \in Nat
    BY ConstantFacts DEF TypeOK
  <2>3. RepetitionsLeft(repetitions[t]) \in Nat \cup {-1}
    <3>1. repetitions[t] \in Nat \cup {-1}
      BY DEF TypeOK
    <3> QED
      BY <3>1 DEF RepetitionsLeft
  <2>4. expiration[t] + interval[t] \in Nat
    BY <2>2
  <2>5. expiration' \in [Timers -> Nat]
    BY <1>8, <2>4 DEF EndCallback, TypeOK
  <2>6. repetitions' \in [Timers -> Nat \cup {-1}]
    BY <1>8, <2>3 DEF EndCallback, TypeOK
  <2> QED
    BY <1>8, <2>1, <2>5, <2>6 DEF EndCallback, TypeOK
<1>9. CASE Destroy
  BY <1>9 DEF Destroy, TypeOK
<1>10. ASSUME NEW t \in Timers, NEW d \in Delays, NEW i \in Intervals,
              NEW n \in Repetitions, AddTimer(t, d, i, n)
       PROVE  TypeOK'
  <2> DEFINE e == Earliest(container', expiration')
  <2>1. e \in Nat /\ e < Forever
    BY <1>10, AddTimerFacts, ConstantFacts
  <2>2. /\ next_expiration' \in 0 .. Forever
        /\ alarm' \in Nat \cup {None}
        /\ fired' \in BOOLEAN
    BY <1>10, <2>1, AlarmTypes DEF AddTimer
  <2>3. created' \in 0 .. MaxCreated
    BY <1>10, ConstantFacts DEF AddTimer, TypeOK
  <2>4. generation[t] + 1 \in 1 .. created'
    <3>1. generation[t] \in 0 .. created
      BY DEF TypeOK
    <3> QED
      BY <1>10, <2>3, <3>1, ConstantFacts DEF AddTimer, TypeOK
  <2>5. generation' \in [Timers -> 0 .. created']
    <3>1. \A u \in Timers : generation'[u] \in 0 .. created'
      BY <1>10, <2>4 DEF AddTimer, TypeOK
    <3> QED
      BY <1>10, <3>1 DEF AddTimer, TypeOK
  <2>6. expiration' \in [Timers -> Nat]
    BY <1>10, AddTimerFacts DEF AddTimer, TypeOK
  <2>7. /\ interval' \in [Timers -> Intervals \cup {0}]
        /\ repetitions' \in [Timers -> Nat \cup {-1}]
    BY <1>10, ConstantFacts DEF AddTimer, TypeOK
  <2>8. handles' \subseteq Timers \X (1 .. created')
    BY <1>10, <2>4 DEF AddTimer, TypeOK
  <2> QED
    BY <1>10, <2>2, <2>3, <2>5, <2>6, <2>7, <2>8 DEF AddTimer, TypeOK
<1>11. ASSUME NEW t \in Timers, NEW g \in 1 .. MaxCreated, CancelTimer(t, g)
       PROVE  TypeOK'
  <2>1. /\ next_expiration' \in 0 .. Forever
        /\ alarm' \in Nat \cup {None}
        /\ fired' \in BOOLEAN
    <3>1. CASE t \in container /\ container \ {t} # {}
      <4>1. container \ {t} \subseteq Held
        BY DEF Held
      <4>2. /\ Earliest(container \ {t}, expiration) \in Nat
            /\ Earliest(container \ {t}, expiration) < Forever
        BY <3>1, <4>1, EarliestHeld
      <4>3. PutOffAlarm(Earliest(container \ {t}, expiration))
        BY <1>11, <3>1 DEF CancelTimer, Removes
      <4> QED
        BY <4>2, <4>3, AlarmTypes
    <3>2. CASE ~ (t \in container /\ container \ {t} # {})
      BY <1>11, <3>2, ConstantFacts, AlarmTypes DEF CancelTimer, Removes
    <3> QED
      BY <3>1, <3>2
  <2>2. live' \subseteq Timers /\ container' \subseteq Timers
    BY <1>11 DEF CancelTimer, TypeOK
  <2> QED
    BY <1>11, <2>1, <2>2 DEF CancelTimer, TypeOK
<1>12. CASE UNCHANGED vars
  BY <1>12 DEF vars, TypeOK
<1> QED
  BY <1>1, <1>2, <1>3, <1>4, <1>5, <1>6, <1>7, <1>8, <1>9, <1>10, <1>11,
     <1>12 DEF Next, LoopStep

-----------------------------------------------------------------------------
(* Places *)

\* Every step keeps each timer in one place, and alive while it is there:
\* remove_one(), move_out_before_or_at() and insert_all() move the pointers,
\* and only what has left all places is deleted.
LEMMA PlaceStep == TypeOK /\ PlaceInv /\ [Next]_vars => PlaceInv'
<1> SUFFICES ASSUME TypeOK, PlaceInv, [Next]_vars PROVE PlaceInv'
  OBVIOUS
<1> USE DEF PlaceInv, Places, Held, timerVars, alarmVars, expireVars,
            historyVars
<1>1. CASE Tick
  BY <1>1 DEF Tick
<1>2. CASE Poll
  BY <1>2 DEF Poll
<1>3. CASE ExitLoop
  BY <1>3 DEF ExitLoop
<1>4. CASE NoExpiration
  BY <1>4 DEF NoExpiration
<1>5. CASE BeginExpiration
  <2>1. DueAt(container, now) \subseteq container
    BY DEF DueAt
  <2> QED
    BY <1>5, <2>1 DEF BeginExpiration
<1>6. CASE EndExpiration
  BY <1>6 DEF EndExpiration
<1>7. ASSUME NEW t \in Timers, StartCallback(t) PROVE PlaceInv'
  <2>1. t \in expired \/ t \in running
    BY <1>7 DEF StartCallback
  <2>2. expired' = expired \ {t} /\ running' = {t}
    BY <1>7 DEF StartCallback
  <2>3. UNCHANGED <<live, container, still_valid>>
    BY <1>7 DEF StartCallback
  <2>4. phase = "expire" /\ phase' = "callback"
    BY <1>7 DEF StartCallback
  <2> QED
    BY <2>1, <2>2, <2>3, <2>4
<1>8. ASSUME NEW t \in Timers, EndCallback(t) PROVE PlaceInv'
  <2>1. /\ t \in running
        /\ phase' = "expire" /\ phase = "callback"
        /\ UNCHANGED <<container, expired>>
    BY <1>8 DEF EndCallback
  <2>2. CASE interval[t] = 0 \/ repetitions[t] = 0
    BY <1>8, <2>1, <2>2 DEF EndCallback
  <2>3. CASE ~ (interval[t] = 0 \/ repetitions[t] = 0)
    <3>1. /\ UNCHANGED live
          /\ \/ running' = {} /\ still_valid' = still_valid \cup {t}
             \/ UNCHANGED <<running, still_valid>>
      BY <1>8, <2>3 DEF EndCallback
    <3> QED
      BY <2>1, <3>1
  <2> QED
    BY <2>2, <2>3
<1>9. CASE Destroy
  BY <1>9 DEF Destroy
<1>10. ASSUME NEW t \in Timers, NEW d \in Delays, NEW i \in Intervals,
              NEW n \in Repetitions, AddTimer(t, d, i, n)
       PROVE  PlaceInv'
  <2>1. /\ UserCode /\ t \notin live
        /\ live' = live \cup {t}
        /\ container' = container \cup {t}
        /\ UNCHANGED <<phase, expired, running, still_valid>>
    BY <1>10 DEF AddTimer
  <2> QED
    BY <2>1 DEF UserCode
<1>11. ASSUME NEW t \in Timers, NEW g \in 1 .. MaxCreated, CancelTimer(t, g)
       PROVE  PlaceInv'
  <2>1. /\ UserCode
        /\ UNCHANGED <<phase, expired, running, still_valid>>
        /\ \/ /\ container' = container \ {t}
              /\ live' = live \/ live' = live \ {t}
              /\ t \in container
           \/ UNCHANGED <<live, container>>
    BY <1>11 DEF CancelTimer, Removes
  <2> QED
    BY <2>1 DEF UserCode
<1>12. CASE UNCHANGED vars
  BY <1>12 DEF vars
<1> QED
  BY <1>1, <1>2, <1>3, <1>4, <1>5, <1>6, <1>7, <1>8, <1>9, <1>10, <1>11,
     <1>12 DEF Next, LoopStep

-----------------------------------------------------------------------------
(* Times *)

\* Every step keeps what is being expired due: a callback moves the time of
\* its own timer only, and by one interval at a time (expire_until()).
LEMMA ScheduleStep ==
    TypeOK /\ PlaceInv /\ ScheduleInv /\ [Next]_vars => ScheduleInv'
<1> SUFFICES ASSUME TypeOK, PlaceInv, ScheduleInv, [Next]_vars
             PROVE  ScheduleInv'
  OBVIOUS
<1> USE DEF ScheduleInv, Held, timerVars, alarmVars, expireVars, historyVars
<1>0. now \in Nat /\ until \in Nat /\ until <= now
  BY DEF TypeOK
<1>1. CASE Tick
  BY <1>0, <1>1 DEF Tick
<1>2. CASE Poll
  BY <1>2 DEF Poll
<1>3. CASE ExitLoop
  BY <1>3 DEF ExitLoop
<1>4. CASE NoExpiration
  BY <1>4 DEF NoExpiration
<1>5. CASE BeginExpiration
  <2>1. DueAt(container, now) = {t \in container : expiration[t] <= now}
    BY DueNow DEF TypeOK
  <2>2. running = {}
    BY <1>5 DEF BeginExpiration, PlaceInv
  <2> QED
    BY <1>0, <1>5, <2>1, <2>2 DEF BeginExpiration
<1>6. CASE EndExpiration
  BY <1>6 DEF EndExpiration
<1>7. ASSUME NEW t \in Timers, StartCallback(t) PROVE ScheduleInv'
  <2>1. t \in expired \cup running
    BY <1>7 DEF StartCallback
  <2> QED
    BY <1>7, <2>1 DEF StartCallback
<1>8. ASSUME NEW t \in Timers, EndCallback(t) PROVE ScheduleInv'
  <2>1. /\ t \in running
        /\ UNCHANGED <<now, until, container, expired>>
        /\ running' \subseteq running
        /\ still_valid' \subseteq still_valid \cup {t}
    BY <1>8 DEF EndCallback
  <2>2. \A u \in Timers : u # t => expiration'[u] = expiration[u]
    BY <1>8 DEF EndCallback, TypeOK
  <2>3. CASE interval[t] = 0 \/ repetitions[t] = 0
    BY <1>8, <2>3 DEF EndCallback
  <2>4. CASE ~ (interval[t] = 0 \/ repetitions[t] = 0)
    <3>1. interval[t] \in Intervals /\ interval[t] \in Nat
          /\ expiration[t] \in Nat
      BY <2>4, ConstantFacts DEF TypeOK
    <3>2. expiration'[t] = expiration[t] + interval[t]
      BY <1>8, <2>4 DEF EndCallback, TypeOK
    <3>3. expiration[t] <= until /\ until <= MaxTime
      BY <2>1 DEF TypeOK
    <3>4. expiration'[t] + Threshold < Forever
      <4>1. MaxTime + interval[t] + Threshold < Forever
        BY <3>1, ConstantFacts
      <4> QED
        BY <1>0, <3>1, <3>2, <3>3, <4>1, ConstantFacts
    <3>5. t \in running' => expiration'[t] <= until
      <4>1. CASE expiration'[t] > until
        BY <1>8, <2>4, <4>1 DEF EndCallback
      <4>2. CASE ~ (expiration'[t] > until)
        BY <1>0, <3>1, <3>2, <4>2
      <4> QED
        BY <4>1, <4>2
    <3>6. ASSUME NEW u \in expired' \cup running'
          PROVE  expiration'[u] <= until'
      <4>1. u \in expired \cup running /\ u \in Timers
        BY <2>1 DEF TypeOK
      <4>2. u = t => u \in running'
        <5>1. t \notin expired
          BY <2>1 DEF PlaceInv, Places
        <5> QED
          BY <2>1, <5>1
      <4> QED
        BY <2>1, <2>2, <3>5, <4>1, <4>2
    <3>7. ASSUME NEW u \in Held' PROVE expiration'[u] + Threshold < Forever
      <4>1. u \in Held /\ u \in Timers
        BY <2>1 DEF TypeOK
      <4> QED
        BY <2>2, <3>4, <4>1
    <3> QED
      BY <1>0, <2>1, <3>6, <3>7
  <2> QED
    BY <2>3, <2>4
<1>9. CASE Destroy
  BY <1>9 DEF Destroy
<1>10. ASSUME NEW t \in Timers, NEW d \in Delays, NEW i \in Intervals,
              NEW n \in Repetitions, AddTimer(t, d, i, n)
       PROVE  ScheduleInv'
  <2>1. UNCHANGED <<now, until, expired, running, still_valid>>
    BY <1>10 DEF AddTimer
  <2>2. t \notin expired \cup running
    BY <1>10, AddTimerFacts
  <2>3. ASSUME NEW u \in Held' PROVE expiration'[u] + Threshold < Forever
    <3>1. u = t \/ (u # t /\ u \in Held /\ u \in Timers)
      BY <1>10, AddTimerFacts DEF TypeOK
    <3> QED
      BY <1>10, <3>1, AddTimerFacts
  <2>4. ASSUME NEW u \in expired' \cup running'
        PROVE  expiration'[u] <= until'
    <3>1. u # t /\ u \in Timers
      BY <2>1, <2>2 DEF TypeOK
    <3>2. expiration'[u] = expiration[u]
      BY <1>10, <3>1, AddTimerFacts
    <3> QED
      BY <2>1, <3>2
  <2> QED
    BY <1>0, <2>1, <2>3, <2>4
<1>11. ASSUME NEW t \in Timers, NEW g \in 1 .. MaxCreated, CancelTimer(t, g)
       PROVE  ScheduleInv'
  BY <1>11 DEF CancelTimer
<1>12. CASE UNCHANGED vars
  BY <1>12 DEF vars
<1> QED
  BY <1>1, <1>2, <1>3, <1>4, <1>5, <1>6, <1>7, <1>8, <1>9, <1>10, <1>11,
     <1>12 DEF Next, LoopStep

-----------------------------------------------------------------------------
(* The alarm *)

\* set_alarm_at_time_point() arms the timerfd, or makes it readable at once.
LEMMA SetAlarmFacts ==
    ASSUME TypeOK, NEW at \in Nat, SetAlarm(at), now' = now
    PROVE  /\ next_expiration' = at
           /\ alarm' # None => alarm' = next_expiration' /\ now' < alarm'
           /\ fired' => next_expiration' <= now'
           /\ alarm' # None \/ fired'
<1>1. fired' <=> at <= now
  BY DEF SetAlarm
<1>2. /\ next_expiration' = at
      /\ alarm' = IF at <= now THEN None ELSE at
  BY DEF SetAlarm
<1>3. None \notin Nat /\ now \in Nat
  BY DEF None, TypeOK
<1> QED
  BY <1>1, <1>2, <1>3

\* Every step keeps the alarm early enough: each function that changes the
\* container updates it, _cancel_alarm() only when no timer is left, and a
\* timerfd that was read is set again in the same round of loop().
LEMMA AlarmStep == TimerInv /\ [Next]_vars => AlarmInv'
<1> SUFFICES ASSUME TypeOK, PlaceInv, ScheduleInv, AlarmInv, [Next]_vars
             PROVE  AlarmInv'
  BY DEF TimerInv
<1> USE DEF AlarmInv, timerVars, expireVars, historyVars
<1>0. /\ now \in Nat /\ next_expiration \in Nat /\ next_expiration <= Forever
      /\ Forever \in Nat /\ Threshold \in Nat
      /\ alarm \in Nat \cup {None}
      /\ \A t \in Timers : expiration[t] \in Nat
  BY ConstantFacts DEF TypeOK
<1>1. CASE Tick
  <2>1. UNCHANGED <<container, expiration, next_expiration, timerfd_triggered,
                    phase>>
    BY <1>1 DEF Tick
  <2>2. fired' <=> fired \/ alarm = now + 1
    BY <1>1, Zenon DEF Tick
  <2>3. now' = now + 1 /\ alarm' = IF alarm = now + 1 THEN None ELSE alarm
    BY <1>1 DEF Tick
  <2> QED
    BY <1>0, <2>1, <2>2, <2>3 DEF None
<1>2. CASE Poll
  <2>1. CASE fired
    BY <1>0, <1>2, <2>1 DEF Poll
  <2>2. CASE ~ fired
    BY <1>0, <1>2, <2>2 DEF Poll
  <2> QED
    BY <2>1, <2>2
<1>3. CASE ExitLoop
  BY <1>3 DEF ExitLoop, alarmVars
<1>4. CASE NoExpiration
  BY <1>4 DEF NoExpiration, alarmVars
<1>5. CASE BeginExpiration
  <2>1. DueAt(container, now) = {t \in container : expiration[t] <= now}
    BY DueNow DEF TypeOK
  <2>2. /\ container' = container \ DueAt(container, now)
        /\ UNCHANGED <<now, expiration>>
    BY <1>5 DEF BeginExpiration
  <2>3. CASE container' = {}
    <3>1. CancelAlarm
      BY <1>5, <2>3 DEF BeginExpiration
    <3> QED
      BY <1>0, <2>3, <3>1 DEF CancelAlarm
  <2>4. CASE container' # {}
    <3> DEFINE e == Earliest(container', expiration)
    <3>1. container' \subseteq Held /\ container' \subseteq Timers
      BY <2>2 DEF Held, TypeOK
    <3>2. /\ e \in Nat
          /\ \E t \in container' : e = expiration[t]
          /\ \A t \in container' : e <= expiration[t]
      BY <2>4, <3>1, EarliestHeld
    <3>3. now < e
      BY <1>0, <2>1, <2>2, <3>1, <3>2
    <3>4. PutOffAlarm(e)
      BY <1>5, <2>4 DEF BeginExpiration
    <3> HIDE DEF e
    <3>5. CASE next_expiration < e
      <4>1. SetAlarm(e)
        BY <3>4, <3>5 DEF PutOffAlarm
      <4> QED
        BY <1>0, <2>2, <3>1, <3>2, <4>1, SetAlarmFacts
    <3>6. CASE ~ (next_expiration < e)
      <4>1. UNCHANGED alarmVars
        BY <3>4, <3>6 DEF PutOffAlarm
      <4>2. next_expiration < Forever => alarm # None
        BY <1>0, <3>2, <3>3, <3>6
      <4> QED
        BY <2>2, <4>1, <4>2 DEF alarmVars
    <3> QED
      BY <3>5, <3>6
  <2> QED
    BY <2>3, <2>4
<1>6. CASE EndExpiration
  <2>1. /\ container' = container \cup still_valid
        /\ UNCHANGED <<now, expiration>>
        /\ phase = "expire"
    BY <1>6 DEF EndExpiration
  <2>2. CASE still_valid = {}
    BY <1>6, <2>1, <2>2 DEF EndExpiration, alarmVars
  <2>3. CASE still_valid # {}
    <3> DEFINE e == Earliest(container', expiration)
    <3>1. /\ container' \subseteq Held /\ container' # {}
          /\ container' \subseteq Timers
      BY <2>1, <2>3 DEF Held, TypeOK
    <3>2. /\ e \in Nat /\ e + Threshold < Forever
          /\ \A t \in container' : e <= expiration[t]
      BY <3>1, EarliestHeld
    <3>3. AdvanceAlarm(e)
      BY <1>6, <2>3 DEF EndExpiration
    <3> HIDE DEF e
    <3>4. CASE e < next_expiration - Threshold
      <4>1. SetAlarm(e)
        BY <3>3, <3>4 DEF AdvanceAlarm
      <4> QED
        BY <1>0, <2>1, <3>1, <3>2, <4>1, SetAlarmFacts
    <3>5. CASE ~ (e < next_expiration - Threshold)
      <4>1. UNCHANGED alarmVars
        BY <3>3, <3>5 DEF AdvanceAlarm
      <4>2. next_expiration <= e + Threshold
        BY <1>0, <3>2, <3>5
      <4>3. \A t \in container' : next_expiration <= expiration[t] + Threshold
        BY <1>0, <3>1, <3>2, <4>2
      <4> QED
        BY <2>1, <4>1, <4>3 DEF alarmVars
    <3> QED
      BY <3>4, <3>5
  <2> QED
    BY <2>2, <2>3
<1>7. ASSUME NEW t \in Timers, StartCallback(t) PROVE AlarmInv'
  BY <1>7 DEF StartCallback, alarmVars
<1>8. ASSUME NEW t \in Timers, EndCallback(t) PROVE AlarmInv'
  <2>1. UNCHANGED <<now, alarmVars, container, timerfd_triggered>>
        /\ phase = "callback" /\ t \in running
    BY <1>8 DEF EndCallback
  <2>2. \A u \in Timers : u # t => expiration'[u] = expiration[u]
    BY <1>8 DEF EndCallback, TypeOK
  <2>3. t \notin container
    BY <2>1 DEF PlaceInv, Places
  <2>4. \A u \in container : expiration'[u] = expiration[u]
    BY <2>2, <2>3 DEF TypeOK
  <2> QED
    BY <2>1, <2>4 DEF alarmVars
<1>9. CASE Destroy
  BY <1>9 DEF Destroy, alarmVars
<1>10. ASSUME NEW t \in Timers, NEW d \in Delays, NEW i \in Intervals,
              NEW n \in Repetitions, AddTimer(t, d, i, n)
       PROVE  AlarmInv'
  <2> DEFINE e == Earliest(container', expiration')
  <2>1. /\ e \in Nat /\ e + Threshold < Forever
        /\ \A u \in container' : e <= expiration'[u] /\ expiration'[u] \in Nat
    BY <1>10, AddTimerFacts
  <2>2. AdvanceAlarm(e) /\ UNCHANGED <<now, timerfd_triggered, phase>>
    BY <1>10 DEF AddTimer
  <2> HIDE DEF e
  <2>3. CASE e < next_expiration - Threshold
    <3>1. SetAlarm(e)
      BY <2>2, <2>3 DEF AdvanceAlarm
    <3> QED
      BY <1>0, <2>1, <2>2, <3>1, SetAlarmFacts
  <2>4. CASE ~ (e < next_expiration - Threshold)
    <3>1. UNCHANGED alarmVars
      BY <2>2, <2>4 DEF AdvanceAlarm
    <3>2. next_expiration <= e + Threshold
      BY <1>0, <2>1, <2>4
    <3>3. \A u \in container' : next_expiration <= expiration'[u] + Threshold
      BY <1>0, <2>1, <3>2
    <3> QED
      BY <2>2, <3>1, <3>3 DEF alarmVars
  <2> QED
    BY <2>3, <2>4
<1>11. ASSUME NEW t \in Timers, NEW g \in 1 .. MaxCreated, CancelTimer(t, g)
       PROVE  AlarmInv'
  <2>1. UNCHANGED <<now, expiration, timerfd_triggered, phase>>
    BY <1>11 DEF CancelTimer
  <2>2. CASE t \notin container
    BY <1>11, <2>1, <2>2 DEF CancelTimer, Removes, alarmVars
  <2>3. CASE t \in container /\ container \ {t} = {}
    <3>1. CancelAlarm /\ container' = {}
      BY <1>11, <2>3 DEF CancelTimer, Removes
    <3> QED
      BY <1>0, <3>1 DEF CancelAlarm
  <2>4. CASE t \in container /\ container \ {t} # {}
    <3> DEFINE e == Earliest(container \ {t}, expiration)
    <3>1. PutOffAlarm(e) /\ container' = container \ {t}
      BY <1>11, <2>4 DEF CancelTimer, Removes
    <3>2. /\ e \in Nat
          /\ \A u \in container' : e <= expiration[u]
          /\ \A u \in container' : expiration[u] \in Nat
      <4>1. container \ {t} \subseteq Held
        BY DEF Held
      <4> QED
        BY <1>0, <2>4, <3>1, <4>1, EarliestHeld DEF TypeOK
    <3> HIDE DEF e
    <3>3. CASE next_expiration < e
      <4>1. SetAlarm(e)
        BY <3>1, <3>3 DEF PutOffAlarm
      <4> QED
        BY <1>0, <2>1, <3>2, <4>1, SetAlarmFacts
    <3>4. CASE ~ (next_expiration < e)
      <4>1. UNCHANGED alarmVars
        BY <3>1, <3>4 DEF PutOffAlarm
      <4> QED
        BY <2>1, <3>1, <4>1 DEF alarmVars
    <3> QED
      BY <3>3, <3>4
  <2> QED
    BY <2>2, <2>3, <2>4
<1>12. CASE UNCHANGED vars
  BY <1>12 DEF vars, alarmVars
<1> QED
  BY <1>1, <1>2, <1>3, <1>4, <1>5, <1>6, <1>7, <1>8, <1>9, <1>10, <1>11,
     <1>12 DEF Next, LoopStep

\* At first there are no timers and no alarm.
LEMMA TimerInit == Init => TimerInv
<1> SUFFICES ASSUME Init PROVE TimerInv
  OBVIOUS
<1>1. PlaceInv /\ ScheduleInv
  BY DEF Init, PlaceInv, Places, ScheduleInv, Held
<1>2. AlarmInv
  <2>1. ~ (Forever < Forever)
    BY ConstantFacts
  <2> QED
    BY <2>1 DEF Init, AlarmInv
<1> QED
  BY <1>1, <1>2, TypeInit DEF TimerInv

\* The four parts are an inductive invariant of the timers of a loop.
LEMMA TimerInvariant == Spec => []TimerInv
<1>1. TimerInv /\ [Next]_vars => TimerInv'
  BY TypeStep, PlaceStep, ScheduleStep, AlarmStep DEF TimerInv
<1> QED
  BY <1>1, TimerInit, PTL DEF Spec

\* The members of Timer, TimerContainer and EventLoop keep their types; in
\* particular _next_earliest_expiration_time never passes FOREVER.
THEOREM TypeCorrect == Spec => []TypeOK
BY TimerInvariant, PTL DEF TimerInv

\* When the loop goes to sleep the timerfd covers every timer in the container,
\* whatever was added, cancelled and expired before.
THEOREM AlarmIsEarlyEnough == Spec => []AlarmCoversTimers
<1>1. ASSUME TimerInv PROVE AlarmCoversTimers
  <2> SUFFICES ASSUME phase = "poll", NEW t \in container
               PROVE  \/ fired
                      \/ alarm # None /\ alarm <= expiration[t] + Threshold
    BY DEF AlarmCoversTimers
  <2>1. next_expiration <= expiration[t] + Threshold
    BY <1>1 DEF TimerInv, AlarmInv
  <2>2. next_expiration < Forever
    <3>1. expiration[t] + Threshold < Forever
      BY <1>1 DEF TimerInv, ScheduleInv, Held
    <3>2. expiration[t] \in Nat /\ next_expiration \in Nat
      BY <1>1 DEF TimerInv, TypeOK
    <3> QED
      BY <2>1, <3>1, <3>2, ConstantFacts
  <2> QED
    BY <1>1, <2>1, <2>2 DEF TimerInv, AlarmInv
<1> QED
  BY <1>1, TimerInvariant, PTL

-----------------------------------------------------------------------------
(* Cancellation *)

\* Every step keeps a cancelled identifier from naming a timer that is held:
\* the address is used again only under a new generation.
LEMMA CancelStep == TimerInv /\ CancelInv /\ [Next]_vars => CancelInv'
<1> SUFFICES ASSUME TypeOK, PlaceInv, ScheduleInv, CancelInv, [Next]_vars
             PROVE  CancelInv'
  BY DEF TimerInv
<1> USE DEF CancelInv, timerVars, expireVars, historyVars
<1>0. \A t \in Timers : generation[t] \in Nat
  BY DEF TypeOK
<1>1. CASE Tick
  BY <1>1 DEF Tick, Held
<1>2. CASE Poll
  BY <1>2 DEF Poll, Held
<1>3. CASE ExitLoop
  BY <1>3 DEF ExitLoop, Held
<1>4. CASE NoExpiration
  BY <1>4 DEF NoExpiration, Held
<1>5. CASE BeginExpiration
  <2>1. Held' \subseteq Held
    BY <1>5 DEF BeginExpiration, Held, DueAt
  <2> QED
    BY <1>5, <2>1 DEF BeginExpiration
<1>6. CASE EndExpiration
  <2>1. Held' \subseteq Held
    BY <1>6 DEF EndExpiration, Held
  <2> QED
    BY <1>6, <2>1 DEF EndExpiration
<1>7. ASSUME NEW t \in Timers, StartCallback(t) PROVE CancelInv'
  <2>1. t \in Held
    BY <1>7 DEF StartCallback, Held
  <2>2. <<t, generation[t]>> \notin cancelled
    BY <1>0, <2>1
  <2>3. Held' \subseteq Held
    BY <1>7, <2>1 DEF StartCallback, Held
  <2> QED
    BY <1>7, <2>2, <2>3 DEF StartCallback
<1>8. ASSUME NEW t \in Timers, EndCallback(t) PROVE CancelInv'
  <2>1. Held' \subseteq Held
    BY <1>8 DEF EndCallback, Held
  <2> QED
    BY <1>8, <2>1 DEF EndCallback
<1>9. CASE Destroy
  BY <1>9 DEF Destroy, Held
<1>10. ASSUME NEW t \in Timers, NEW d \in Delays, NEW i \in Intervals,
              NEW n \in Repetitions, AddTimer(t, d, i, n)
       PROVE  CancelInv'
  <2>1. Held' = Held \cup {t}
    BY <1>10, AddTimerFacts
  <2>2. \A u \in Timers :
           generation'[u] = IF u = t THEN generation[u] + 1 ELSE generation[u]
    BY <1>10 DEF AddTimer, TypeOK
  <2>3. /\ handles' = handles \cup {<<t, generation[t] + 1>>}
        /\ UNCHANGED <<cancelled, late_fires>>
    BY <1>10 DEF AddTimer
  <2>4. ASSUME NEW u \in Timers, NEW g \in Nat, <<u, g>> \in handles'
        PROVE  g <= generation'[u]
    BY <1>0, <2>2, <2>3, <2>4
  <2>5. ASSUME NEW u \in Timers, NEW g \in Nat, <<u, g>> \in cancelled
        PROVE  /\ g <= generation'[u]
               /\ g = generation'[u] => u \notin Held'
    BY <1>0, <2>1, <2>2, <2>5
  <2> QED
    BY <2>3, <2>4, <2>5
<1>11. ASSUME NEW t \in Timers, NEW g \in 1 .. MaxCreated, CancelTimer(t, g)
       PROVE  CancelInv'
  <2>1. /\ g \in Nat
        /\ <<t, g>> \in handles
        /\ handles' = handles \ {<<t, g>>}
        /\ UNCHANGED <<generation, late_fires>>
    BY <1>11 DEF CancelTimer
  <2>2. CASE t \in container
    <3>1. container' = container \ {t} /\ UNCHANGED expireVars
      BY <1>11, <2>2 DEF CancelTimer, Removes
    <3>2. Held' = Held \ {t}
      BY <2>2, <3>1 DEF Held, PlaceInv, Places
    <3>3. cancelled' = cancelled \cup {<<t, generation[t]>>}
      BY <1>11, <2>2 DEF CancelTimer
    <3> QED
      BY <1>0, <2>1, <3>2, <3>3
  <2>3. CASE t \notin container
    <3>1. Held' = Held
      BY <1>11, <2>3 DEF CancelTimer, Removes, Held
    <3>2. cancelled' = cancelled
      BY <1>11, <2>3 DEF CancelTimer
    <3> QED
      BY <2>1, <3>1, <3>2
  <2> QED
    BY <2>2, <2>3
<1>12. CASE UNCHANGED vars
  BY <1>12 DEF vars, Held
<1> QED
  BY <1>1, <1>2, <1>3, <1>4, <1>5, <1>6, <1>7, <1>8, <1>9, <1>10, <1>11,
     <1>12 DEF Next, LoopStep

\* cancel_a_timer() on a timer that waits in the container is final, though the
\* identifier is a bare pointer and the address may have been used again.
THEOREM CancellationIsFinal == Spec => []CancelledNeverFires
<1>1. Init => CancelInv
  BY DEF Init, CancelInv
<1>2. CancelInv => CancelledNeverFires
  BY DEF CancelInv, CancelledNeverFires
<1> QED
  BY <1>1, <1>2, CancelStep, TimerInvariant, PTL DEF Spec

\* Every step keeps track of the Timer objects: what leaves the container, the
\* expired batch or a callback is deleted, put back or taken out by a
\* cancellation, and ~EventLoop deletes all that is left.
LEMMA ForgottenStep ==
    TimerInv /\ NothingForgotten /\ [Next]_vars => NothingForgotten'
<1> SUFFICES ASSUME TypeOK, PlaceInv, ScheduleInv, NothingForgotten,
                    [Next]_vars
             PROVE  NothingForgotten'
  BY DEF TimerInv
<1> USE DEF NothingForgotten, Cancelled, timerVars, expireVars, historyVars
<1>1. CASE Tick
  BY <1>1 DEF Tick, Held
<1>2. CASE Poll
  BY <1>2 DEF Poll, Held
<1>3. CASE ExitLoop
  BY <1>3 DEF ExitLoop, Held
<1>4. CASE NoExpiration
  BY <1>4 DEF NoExpiration, Held
<1>5. CASE BeginExpiration
  <2>1. Held \subseteq Held'
    BY <1>5 DEF BeginExpiration, Held, PlaceInv
  <2> QED
    BY <1>5, <2>1 DEF BeginExpiration
<1>6. CASE EndExpiration
  <2>1. Held \subseteq Held'
    BY <1>6 DEF EndExpiration, Held
  <2> QED
    BY <1>6, <2>1 DEF EndExpiration
<1>7. ASSUME NEW t \in Timers, StartCallback(t) PROVE NothingForgotten'
  <2>1. Held \subseteq Held'
    BY <1>7 DEF StartCallback, Held, TypeOK
  <2> QED
    BY <1>7, <2>1 DEF StartCallback
<1>8. ASSUME NEW t \in Timers, EndCallback(t) PROVE NothingForgotten'
  <2>1. t \in running /\ \A u \in running : u = t
    BY <1>8 DEF EndCallback, TypeOK
  <2>2. Held \ {t} \subseteq Held'
    BY <1>8, <2>1 DEF EndCallback, Held
  <2>3. t \notin live' \/ t \in Held'
    <3>1. CASE interval[t] = 0 \/ repetitions[t] = 0
      BY <1>8, <3>1 DEF EndCallback
    <3>2. CASE ~ (interval[t] = 0 \/ repetitions[t] = 0)
      BY <1>8, <2>1, <3>2 DEF EndCallback, Held
    <3> QED
      BY <3>1, <3>2
  <2>4. live' \subseteq live /\ UNCHANGED <<generation, cancelled>>
    BY <1>8 DEF EndCallback
  <2> QED
    BY <2>2, <2>3, <2>4
<1>9. CASE Destroy
  <2>1. live' = live \ container
    BY <1>9, AllDueAtForever DEF Destroy
  <2>2. Held = container
    BY <1>9 DEF Destroy, PlaceInv, Held
  <2> QED
    BY <1>9, <2>1, <2>2 DEF Destroy
<1>10. ASSUME NEW t \in Timers, NEW d \in Delays, NEW i \in Intervals,
              NEW n \in Repetitions, AddTimer(t, d, i, n)
       PROVE  NothingForgotten'
  <2>1. Held' = Held \cup {t}
    BY <1>10, AddTimerFacts
  <2>2. \A u \in Timers : u # t => generation'[u] = generation[u]
    BY <1>10 DEF AddTimer, TypeOK
  <2>3. live' = live \cup {t} /\ UNCHANGED cancelled
    BY <1>10 DEF AddTimer
  <2> QED
    BY <2>1, <2>2, <2>3 DEF TypeOK
<1>11. ASSUME NEW t \in Timers, NEW g \in 1 .. MaxCreated, CancelTimer(t, g)
       PROVE  NothingForgotten'
  <2>1. live' \subseteq live /\ UNCHANGED generation
    BY <1>11 DEF CancelTimer
  <2>2. CASE t \in container
    <3>1. /\ Held \ {t} \subseteq Held'
          /\ cancelled' = cancelled \cup {<<t, generation[t]>>}
      BY <1>11, <2>2 DEF CancelTimer, Removes, Held
    <3> QED
      BY <2>1, <3>1
  <2>3. CASE t \notin container
    <3>1. Held' = Held /\ cancelled' = cancelled
      BY <1>11, <2>3 DEF CancelTimer, Removes, Held
    <3> QED
      BY <2>1, <3>1
  <2> QED
    BY <2>2, <2>3
<1>12. CASE UNCHANGED vars
  BY <1>12 DEF vars, Held
<1> QED
  BY <1>1, <1>2, <1>3, <1>4, <1>5, <1>6, <1>7, <1>8, <1>9, <1>10, <1>11,
     <1>12 DEF Next, LoopStep

\* What CancelInv says of the current timer at an address.
LEMMA CancelledIsOut ==
    ASSUME TypeOK, CancelInv, NEW t \in Timers, Cancelled(t)
    PROVE  t \notin Held
<1>1. generation[t] \in Nat
  BY DEF TypeOK
<1> QED
  BY <1>1 DEF CancelInv, Cancelled

\* The Timer objects that exist are, but for cancelled ones, those that the
\* container, the expired batch or a running callback points to, and each is in
\* one place: no use after deletion and no leak, ~EventLoop included.
THEOREM TimersStayAlive == Spec => []TimersAreLive
<1>1. Init => CancelInv /\ NothingForgotten
  BY DEF Init, CancelInv, NothingForgotten
<1>2. ASSUME TimerInv, CancelInv, NothingForgotten PROVE TimersAreLive
  <2>1. TypeOK /\ Places
    BY <1>2 DEF TimerInv, PlaceInv
  <2>2. \A t \in Held : t \in live /\ ~ Cancelled(t)
    BY <1>2, <2>1, CancelledIsOut DEF Places, TypeOK
  <2>3. \A t \in live : ~ Cancelled(t) => t \in Held
    BY <1>2 DEF NothingForgotten
  <2>4. Held = {t \in live : ~ Cancelled(t)}
    BY <2>2, <2>3
  <2> QED
    BY <2>1, <2>4 DEF TimersAreLive, Places, Held
<1>3. TimerInv /\ CancelInv /\ NothingForgotten => TimersAreLive
  BY <1>2
<1> QED
  BY <1>1, <1>3, CancelStep, ForgottenStep, TimerInvariant, PTL DEF Spec

-----------------------------------------------------------------------------
(* Repetitions *)

\* A timer whose fields, place and callbacks a step leaves alone keeps what the
\* invariant says of it.
LEMMA ScheduleFrame ==
    ASSUME NEW t \in Timers, OnSchedule(t), Settled(t)' = Settled(t),
           interval'[t] = interval[t], expiration'[t] = expiration[t],
           repetitions'[t] = repetitions[t], first'[t] = first[t]
    PROVE  OnSchedule(t)'
BY DEF OnSchedule, Endless

\* The same of its callbacks, as time goes on.
LEMMA TimeFrame ==
    ASSUME TypeOK, RepetitionInv, NEW t \in Timers,
           fires'[t] = fires[t], interval'[t] = interval[t],
           first'[t] = first[t], now' \in Nat, now <= now'
    PROVE  OnTime(t)'
<1>1. now \in Nat /\ interval[t] \in Nat /\ fires[t] \in Nat
  BY ConstantFacts DEF TypeOK, RepetitionInv
<1>2. first[t][1] \in Nat
  BY DEF RepetitionInv
<1> DEFINE due == first[t][1] + (fires[t] - 1) * interval[t]
<1>3. fires[t] > 0 => due \in Int
  BY <1>1, <1>2
<1>4. fires[t] > 0 => now >= due
  BY DEF RepetitionInv, OnTime
<1>5. fires[t] > 0 => now' >= due
  <2> HIDE DEF due
  <2> QED
    BY <1>1, <1>3, <1>4
<1> QED
  BY <1>5 DEF OnTime

\* What a timer had to do, and has done, is in its fields and its history.
LEMMA RunsFrame ==
    ASSUME NEW t \in Timers, fires'[t] = fires[t],
           interval'[t] = interval[t], first'[t] = first[t]
    PROVE  /\ RunsLeft(t)' <=> RunsLeft(t)
           /\ RunsDone(t)' <=> RunsDone(t)
BY DEF RunsLeft, RunsDone, Endless, Total

\* A step that leaves the fields of the timers and their callbacks alone, and
\* moves timers from place to place only, keeps the repetitions.
LEMMA RepetitionFrame ==
    ASSUME TypeOK, RepetitionInv,
           UNCHANGED <<expiration, interval, repetitions, fires, first,
                       generation, cancelled, live>>,
           Held' = Held, phase # "destroyed" \/ phase' = phase,
           \A t \in Held : Settled(t)' = Settled(t),
           now' \in Nat, now <= now'
    PROVE  RepetitionInv'
<1>1. \A t \in Held' : OnSchedule(t)'
  <2> SUFFICES ASSUME NEW t \in Held' PROVE OnSchedule(t)'
    OBVIOUS
  <2>1. t \in Held /\ t \in Timers
    BY DEF Held, TypeOK
  <2> QED
    BY <2>1, ScheduleFrame DEF RepetitionInv
<1>2. \A t \in Timers : OnTime(t)'
  BY TimeFrame
<1>3. \A t \in Timers : (RunsLeft(t)' <=> RunsLeft(t))
                        /\ (RunsDone(t)' <=> RunsDone(t))
  BY RunsFrame
<1>4. \A t \in live' \ Held' : RunsLeft(t)'
  BY <1>3 DEF RepetitionInv, TypeOK
<1>5. \A t \in Timers \ live' :
         \/ generation'[t] = 0 \/ Cancelled(t)' \/ phase' = "destroyed"
         \/ RunsDone(t)'
  BY <1>3 DEF RepetitionInv, Cancelled
<1> QED
  BY <1>1, <1>2, <1>4, <1>5 DEF RepetitionInv

\* Before its last callback returns a timer has runs left, the one under way
\* not counted.
LEMMA HeldHasRunsLeft ==
    ASSUME TypeOK, RepetitionInv, NEW t \in Held
    PROVE  /\ Settled(t) = fires[t] => RunsLeft(t)
           /\ Endless(t) \/ fires[t] <= Total(t)
<1>1. t \in Timers /\ OnSchedule(t)
  BY DEF RepetitionInv, Held, TypeOK
<1>2. /\ fires[t] \in Nat
      /\ first[t][2] \in Nat \cup {-1}
      /\ repetitions[t] \in Nat \cup {-1}
  BY <1>1 DEF RepetitionInv, TypeOK
<1>3. Settled(t) = fires[t] \/ Settled(t) = fires[t] - 1
  BY DEF Settled
<1>4. CASE interval[t] = 0
  BY <1>1, <1>2, <1>3, <1>4 DEF OnSchedule, RunsLeft, Total
<1>5. CASE interval[t] # 0 /\ first[t][2] = -1
  BY <1>5 DEF RunsLeft, Endless
<1>6. CASE interval[t] # 0 /\ first[t][2] \in Nat
  <2>1. Settled(t) <= first[t][2]
    BY <1>1, <1>2, <1>3, <1>6 DEF OnSchedule
  <2> QED
    BY <1>2, <1>3, <1>6, <2>1 DEF RunsLeft, Total
<1> QED
  BY <1>2, <1>4, <1>5, <1>6

\* Every step keeps a timer on its schedule and to its number of repetitions:
\* the callback is counted when it starts, the expiration time and
\* number_of_repetitions follow when it returns, and the timer is deleted then
\* if the callback was the last.
LEMMA RepetitionStep ==
    TimerInv /\ RepetitionInv /\ [Next]_vars => RepetitionInv'
<1> SUFFICES ASSUME TypeOK, PlaceInv, ScheduleInv, RepetitionInv, [Next]_vars
             PROVE  RepetitionInv'
  BY DEF TimerInv
<1> USE DEF timerVars, expireVars, historyVars
<1>0. /\ now \in Nat
      /\ \A t \in Timers :
            /\ interval[t] \in Nat /\ expiration[t] \in Nat /\ fires[t] \in Nat
            /\ repetitions[t] \in Nat \cup {-1}
            /\ first[t][1] \in Nat /\ first[t][2] \in Nat \cup {-1}
  BY ConstantFacts DEF TypeOK, RepetitionInv
<1>1. CASE Tick
  BY <1>0, <1>1, RepetitionFrame DEF Tick, Held, Settled
<1>2. CASE Poll
  BY <1>0, <1>2, RepetitionFrame DEF Poll, Held, Settled
<1>3. CASE ExitLoop
  BY <1>0, <1>3, RepetitionFrame DEF ExitLoop, Held, Settled
<1>4. CASE NoExpiration
  BY <1>0, <1>4, RepetitionFrame DEF NoExpiration, Held, Settled
<1>5. CASE BeginExpiration
  <2>1. Held' = Held
    BY <1>5 DEF BeginExpiration, Held, DueAt, PlaceInv
  <2>2. UNCHANGED <<now, live, expiration, interval, repetitions, fires,
                    first, generation, cancelled>>
        /\ phase = "functors"
    BY <1>5 DEF BeginExpiration
  <2>3. \A t \in Held : Settled(t)' = Settled(t)
    BY <1>5 DEF BeginExpiration, Settled
  <2> QED
    BY <1>0, <2>1, <2>2, <2>3, RepetitionFrame
<1>6. CASE EndExpiration
  <2>1. Held' = Held
    BY <1>6 DEF EndExpiration, Held
  <2>2. UNCHANGED <<now, live, expiration, interval, repetitions, fires,
                    first, generation, cancelled>>
        /\ phase = "expire"
    BY <1>6 DEF EndExpiration
  <2>3. \A t \in Held : Settled(t)' = Settled(t)
    BY <1>6 DEF EndExpiration, Settled
  <2> QED
    BY <1>0, <2>1, <2>2, <2>3, RepetitionFrame
<1>7. ASSUME NEW t \in Timers, StartCallback(t) PROVE RepetitionInv'
  <2>1. /\ t \in expired \cup running /\ t \in Held
        /\ phase = "expire" /\ phase' = "callback" /\ running' = {t}
        /\ UNCHANGED <<now, live, expiration, interval, repetitions, first,
                       generation, cancelled>>
    BY <1>7 DEF StartCallback, Held
  <2>2. Held' = Held
    BY <1>7 DEF StartCallback, Held, TypeOK
  <2>3. /\ fires' \in [Timers -> Nat]
        /\ fires'[t] = fires[t] + 1
        /\ \A u \in Timers : u # t => fires'[u] = fires[u]
    BY <1>7 DEF StartCallback, RepetitionInv
  <2>4. Settled(t) = fires[t] /\ \A u \in Timers : Settled(u)' = Settled(u)
    BY <1>0, <2>1, <2>3 DEF Settled
  <2>5. ASSUME NEW u \in Held' PROVE OnSchedule(u)'
    <3>1. u \in Held /\ u \in Timers
      BY <2>2 DEF Held, TypeOK
    <3> QED
      BY <2>1, <2>4, <3>1, ScheduleFrame DEF RepetitionInv
  <2>6. OnTime(t)'
    <3>1. OnSchedule(t)
      BY <2>1 DEF RepetitionInv
    <3>2. expiration[t] <= now
      BY <1>0, <2>1 DEF ScheduleInv, TypeOK
    <3>3. (fires[t] + 1) - 1 = fires[t]
      BY <1>0
    <3>4. now >= first[t][1] + fires[t] * interval[t]
      BY <1>0, <2>4, <3>1, <3>2 DEF OnSchedule
    <3> QED
      BY <1>0, <2>1, <2>3, <3>3, <3>4 DEF OnTime
  <2>7. ASSUME NEW u \in Timers, u # t PROVE OnTime(u)'
    BY <1>0, <2>1, <2>3, <2>7, TimeFrame
  <2>8. t \in live
    BY <2>1 DEF PlaceInv, Places
  <2>9. \A u \in Timers : u # t => (RunsLeft(u)' <=> RunsLeft(u))
                                   /\ (RunsDone(u)' <=> RunsDone(u))
    BY <2>1, <2>3, RunsFrame
  <2>10. \A u \in live' \ Held' : RunsLeft(u)'
    BY <2>1, <2>2, <2>9 DEF RepetitionInv, TypeOK
  <2>11. \A u \in Timers \ live' :
            \/ generation'[u] = 0 \/ Cancelled(u)' \/ phase' = "destroyed"
            \/ RunsDone(u)'
    BY <2>1, <2>8, <2>9 DEF RepetitionInv, Cancelled
  <2> QED
    BY <2>1, <2>3, <2>5, <2>6, <2>7, <2>10, <2>11 DEF RepetitionInv
<1>8. ASSUME NEW t \in Timers, EndCallback(t) PROVE RepetitionInv'
  <2>1. /\ t \in running /\ t \in Held
        /\ phase = "callback" /\ phase' = "expire"
        /\ Held' \subseteq Held
        /\ UNCHANGED <<now, interval, fires, first, generation, cancelled>>
        /\ \A u \in Timers : u # t => /\ expiration'[u] = expiration[u]
                                      /\ repetitions'[u] = repetitions[u]
    BY <1>8 DEF EndCallback, Held, TypeOK
  <2>2. \A u \in Timers : u # t => Settled(u)' = Settled(u)
    BY <2>1 DEF Settled, TypeOK
  <2>3. Settled(t) = fires[t] - 1 /\ Settled(t)' = fires[t]
    BY <2>1 DEF Settled
  <2>4. OnSchedule(t)
    BY <2>1 DEF RepetitionInv
  <2>5. ASSUME NEW u \in Held', u # t PROVE OnSchedule(u)'
    <3>1. u \in Held /\ u \in Timers
      BY <2>1 DEF Held, TypeOK
    <3> QED
      BY <2>1, <2>2, <2>5, <3>1, ScheduleFrame DEF RepetitionInv
  <2>6. \A u \in Timers : OnTime(u)'
    BY <1>0, <2>1, TimeFrame
  <2>7. \A u \in Timers : (RunsLeft(u)' <=> RunsLeft(u))
                          /\ (RunsDone(u)' <=> RunsDone(u))
    BY <2>1, RunsFrame
  <2>8. Held \ {t} \subseteq Held'
    BY <1>8 DEF EndCallback, Held, TypeOK
  <2>9. CASE interval[t] = 0 \/ repetitions[t] = 0
    <3>1. live' = live \ {t} /\ t \notin Held'
      BY <1>8, <2>1, <2>9 DEF EndCallback, Held, PlaceInv, Places
    <3>2. RunsDone(t)
      <4>1. CASE interval[t] = 0
        BY <1>0, <2>3, <2>4, <4>1 DEF OnSchedule, RunsDone, Endless, Total
      <4>2. CASE interval[t] # 0 /\ repetitions[t] = 0
        <5>1. ~ Endless(t)
          BY <2>4, <4>2 DEF OnSchedule
        <5>2. first[t][2] \in Nat
          BY <1>0, <4>2, <5>1 DEF Endless
        <5>3. fires[t] - 1 = first[t][2]
          BY <1>0, <2>3, <2>4, <4>2, <5>2 DEF OnSchedule
        <5> QED
          BY <1>0, <4>2, <5>1, <5>2, <5>3 DEF RunsDone, Total
      <4> QED
        BY <2>9, <4>1, <4>2
    <3>3. \A u \in live' \ Held' : RunsLeft(u)'
      BY <2>7, <2>8, <3>1 DEF RepetitionInv, TypeOK
    <3>4. \A u \in Timers \ live' :
             \/ generation'[u] = 0 \/ Cancelled(u)' \/ phase' = "destroyed"
             \/ RunsDone(u)'
      BY <2>1, <2>7, <3>1, <3>2 DEF RepetitionInv, Cancelled
    <3> QED
      BY <2>1, <2>5, <2>6, <3>1, <3>3, <3>4 DEF RepetitionInv
  <2>10. CASE ~ (interval[t] = 0 \/ repetitions[t] = 0)
    <3>1. live' = live /\ t \in Held'
      BY <1>8, <2>1, <2>10 DEF EndCallback, Held
    <3>2. /\ expiration'[t] = expiration[t] + interval[t]
          /\ repetitions'[t] = RepetitionsLeft(repetitions[t])
      BY <1>8, <2>10 DEF EndCallback, TypeOK
    <3>3. Settled(t) \in Nat /\ Settled(t)' = Settled(t) + 1
      BY <1>0, <2>3, <2>4 DEF OnSchedule
    <3>4. Settled(t)' * interval[t] = Settled(t) * interval[t] + interval[t]
          /\ Settled(t) * interval[t] \in Nat
      BY <1>0, <3>3, OneMoreInterval
    <3>5. expiration'[t] = first[t][1] + Settled(t)' * interval[t]
      BY <1>0, <2>4, <3>2, <3>4 DEF OnSchedule
    <3>6. ASSUME first[t][2] >= 0
          PROVE  /\ repetitions'[t] >= 0
                 /\ repetitions'[t] + Settled(t)' = first[t][2]
      <4>1. /\ repetitions[t] >= 0 /\ repetitions[t] # 0
            /\ repetitions[t] + Settled(t) = first[t][2]
        BY <2>4, <2>10, <3>6 DEF OnSchedule
      <4>2. repetitions[t] \in Int /\ first[t][2] \in Int
        BY <1>0
      <4>3. repetitions'[t] = repetitions[t] - 1
        BY ONLY <3>2, <4>1, <4>2 DEF RepetitionsLeft
      <4> QED
        BY ONLY <3>3, <4>1, <4>2, <4>3
    <3>7. Endless(t)' => repetitions'[t] = -1
      BY <2>1, <2>4, <3>2 DEF OnSchedule, RepetitionsLeft, Endless
    <3>8. OnSchedule(t)'
      BY <2>1, <2>10, <3>3, <3>5, <3>6, <3>7 DEF OnSchedule
    <3>9. \A u \in live' \ Held' : RunsLeft(u)'
      BY <2>7, <2>8, <3>1 DEF RepetitionInv, TypeOK
    <3>10. \A u \in Timers \ live' :
              \/ generation'[u] = 0 \/ Cancelled(u)' \/ phase' = "destroyed"
              \/ RunsDone(u)'
      BY <2>1, <2>7, <3>1 DEF RepetitionInv, Cancelled
    <3> QED
      BY <2>1, <2>5, <2>6, <3>8, <3>9, <3>10 DEF RepetitionInv
  <2> QED
    BY <2>9, <2>10
<1>9. CASE Destroy
  <2>1. Held = container /\ Held' = {} /\ live' = live \ Held
    BY <1>9, AllDueAtForever DEF Destroy, PlaceInv, Held
  <2>2. UNCHANGED <<now, expiration, interval, repetitions, fires, first>>
        /\ phase' = "destroyed"
    BY <1>9 DEF Destroy
  <2>3. \A t \in Timers : OnTime(t)'
    BY <1>0, <2>2, TimeFrame
  <2>4. \A t \in Timers : RunsLeft(t)' <=> RunsLeft(t)
    BY <2>2, RunsFrame
  <2> QED
    BY <2>1, <2>2, <2>3, <2>4 DEF RepetitionInv, TypeOK
<1>10. ASSUME NEW t \in Timers, NEW d \in Delays, NEW i \in Intervals,
              NEW n \in Repetitions, AddTimer(t, d, i, n)
       PROVE  RepetitionInv'
  <2>1. /\ t \notin Held /\ Held' = Held \cup {t}
        /\ now + d \in Nat
        /\ i \in Nat /\ n \in Nat \cup {-1}
    BY <1>10, AddTimerFacts, ConstantFacts
  <2>2. /\ expiration'[t] = now + d /\ interval'[t] = i
        /\ repetitions'[t] = n /\ fires'[t] = 0
        /\ first'[t] = <<now + d, n>>
        /\ \A u \in Timers :
              u # t => /\ expiration'[u] = expiration[u]
                       /\ interval'[u] = interval[u]
                       /\ repetitions'[u] = repetitions[u]
                       /\ fires'[u] = fires[u]
                       /\ first'[u] = first[u]
                       /\ generation'[u] = generation[u]
    BY <1>10 DEF AddTimer, TypeOK, RepetitionInv
  <2>3. /\ fires' \in [Timers -> Nat]
        /\ first' \in [Timers -> Nat \X (Nat \cup {-1})]
    BY <1>10, <2>1 DEF AddTimer, RepetitionInv
  <2>4. /\ live' = live \cup {t}
        /\ UNCHANGED <<now, phase, running, cancelled>>
    BY <1>10 DEF AddTimer
  <2>5. Settled(t)' = 0 /\ \A u \in Timers : u # t => Settled(u)' = Settled(u)
    BY <2>1, <2>2, <2>4 DEF Settled, Held
  <2>6. OnSchedule(t)'
    <3>1. 0 * i = 0
      BY <2>1
    <3> QED
      BY <1>0, <2>1, <2>2, <2>5, <3>1 DEF OnSchedule, Endless
  <2>7. OnTime(t)'
    BY <2>2 DEF OnTime
  <2>8. ASSUME NEW u \in Held', u # t PROVE OnSchedule(u)'
    <3>1. u \in Held /\ u \in Timers
      BY <2>1, <2>8 DEF Held, TypeOK
    <3> QED
      BY <2>2, <2>5, <2>8, <3>1, ScheduleFrame DEF RepetitionInv
  <2>9. ASSUME NEW u \in Timers, u # t PROVE OnTime(u)'
    BY <1>0, <2>2, <2>4, <2>9, TimeFrame
  <2>10. \A u \in Timers : u # t => (RunsLeft(u)' <=> RunsLeft(u))
                                    /\ (RunsDone(u)' <=> RunsDone(u))
    BY <2>2, RunsFrame
  <2>11. \A u \in live' \ Held' : RunsLeft(u)'
    BY <2>1, <2>4, <2>10 DEF RepetitionInv, TypeOK
  <2>12. \A u \in Timers \ live' :
            \/ generation'[u] = 0 \/ Cancelled(u)' \/ phase' = "destroyed"
            \/ RunsDone(u)'
    BY <2>2, <2>4, <2>10 DEF RepetitionInv, Cancelled
  <2> QED
    BY <2>3, <2>6, <2>7, <2>8, <2>9, <2>11, <2>12 DEF RepetitionInv
<1>11. ASSUME NEW t \in Timers, NEW g \in 1 .. MaxCreated, CancelTimer(t, g)
       PROVE  RepetitionInv'
  <2>1. UNCHANGED <<now, expiration, interval, repetitions, fires, first,
                    generation, phase, running>>
    BY <1>11 DEF CancelTimer
  <2>2. \A u \in Timers : Settled(u)' = Settled(u)
    BY <2>1 DEF Settled
  <2>3. CASE t \notin container
    <3>1. Held' = Held /\ live' = live /\ cancelled' = cancelled
      BY <1>11, <2>3 DEF CancelTimer, Removes, Held
    <3>2. Held \subseteq Timers
      BY DEF Held, TypeOK
    <3> QED
      BY <1>0, <2>1, <2>2, <3>1, <3>2, RepetitionFrame
  <2>4. CASE t \in container
    <3>1. /\ Held' = Held \ {t}
          /\ live' = live \/ live' = live \ {t}
          /\ cancelled' = cancelled \cup {<<t, generation[t]>>}
      BY <1>11, <2>4 DEF CancelTimer, Removes, Held, PlaceInv, Places
    <3>2. RunsLeft(t)
      <4>1. t \in Held /\ Settled(t) = fires[t]
        BY <2>4 DEF Held, Settled, PlaceInv, Places
      <4> QED
        BY <4>1, HeldHasRunsLeft
    <3>3. ASSUME NEW u \in Held' PROVE OnSchedule(u)'
      <4>1. u \in Held /\ u \in Timers
        BY <3>1 DEF Held, TypeOK
      <4> QED
        BY <2>1, <2>2, <4>1, ScheduleFrame DEF RepetitionInv
    <3>4. \A u \in Timers : OnTime(u)'
      BY <1>0, <2>1, TimeFrame
    <3>5. \A u \in Timers : (RunsLeft(u)' <=> RunsLeft(u))
                            /\ (RunsDone(u)' <=> RunsDone(u))
      BY <2>1, RunsFrame
    <3>6. \A u \in live' \ Held' : RunsLeft(u)'
      BY <3>1, <3>2, <3>5 DEF RepetitionInv, TypeOK
    <3>7. \A u \in Timers \ live' :
             \/ generation'[u] = 0 \/ Cancelled(u)' \/ phase' = "destroyed"
             \/ RunsDone(u)'
      BY <2>1, <3>1, <3>5 DEF RepetitionInv, Cancelled
    <3> QED
      BY <2>1, <3>3, <3>4, <3>6, <3>7 DEF RepetitionInv
  <2> QED
    BY <2>3, <2>4
<1>12. CASE UNCHANGED vars
  BY <1>0, <1>12, RepetitionFrame DEF vars, Held, Settled
<1> QED
  BY <1>1, <1>2, <1>3, <1>4, <1>5, <1>6, <1>7, <1>8, <1>9, <1>10, <1>11,
     <1>12 DEF Next, LoopStep

\* number_of_repetitions is honoured exactly, whatever intervals were missed
\* and caught up on: a timer that an expiration has deleted has run as often as
\* it had to, one that is alive has runs left unless it is in its last, and no
\* callback runs before its time.
THEOREM RepetitionsAreExact == Spec => []RepetitionsExact
<1>1. Init => RepetitionInv
  BY DEF Init, RepetitionInv, Held, OnTime
<1>2. ASSUME TimerInv, RepetitionInv, NEW t \in Timers, generation[t] > 0
      PROVE  /\ t \notin live /\ ~ Cancelled(t) /\ phase # "destroyed" =>
                   ~ Endless(t) /\ fires[t] = Total(t)
             /\ t \in live /\ ~ Endless(t) =>
                   \/ fires[t] < Total(t)
                   \/ /\ fires[t] = Total(t)
                      /\ phase = "callback" /\ t \in running
             /\ fires[t] > 0 =>
                   now >= first[t][1] + (fires[t] - 1) * interval[t]
             /\ t \in container =>
                   /\ expiration[t] = first[t][1] + fires[t] * interval[t]
                   /\ ~ Endless(t) /\ interval[t] # 0 =>
                         repetitions[t] = first[t][2] - fires[t]
  <2>1. TypeOK /\ PlaceInv
    BY <1>2 DEF TimerInv
  <2>2. /\ fires[t] \in Nat /\ generation[t] \in Nat
        /\ first[t][2] \in Nat \cup {-1}
        /\ repetitions[t] \in Nat \cup {-1}
    BY <1>2, <2>1 DEF RepetitionInv, TypeOK
  <2>3. ASSUME t \notin live, ~ Cancelled(t), phase # "destroyed"
        PROVE  ~ Endless(t) /\ fires[t] = Total(t)
    BY <1>2, <2>2, <2>3 DEF RepetitionInv, RunsDone
  <2>4. ASSUME t \in live, ~ Endless(t)
        PROVE  \/ fires[t] < Total(t)
               \/ fires[t] = Total(t) /\ phase = "callback" /\ t \in running
    <3>1. CASE t \notin Held
      BY <1>2, <2>4, <3>1 DEF RepetitionInv, RunsLeft
    <3>2. CASE t \in Held
      <4>1. CASE Settled(t) = fires[t]
        BY <1>2, <2>1, <2>4, <3>2, <4>1, HeldHasRunsLeft DEF RunsLeft
      <4>2. CASE Settled(t) # fires[t]
        <5>1. phase = "callback" /\ t \in running
          BY <4>2 DEF Settled
        <5>2. fires[t] <= Total(t) /\ Total(t) \in Int
          BY <1>2, <2>1, <2>2, <2>4, <3>2, HeldHasRunsLeft DEF Total
        <5> QED
          BY <2>2, <5>1, <5>2
      <4> QED
        BY <4>1, <4>2
    <3> QED
      BY <3>1, <3>2
  <2>5. OnTime(t)
    BY <1>2 DEF RepetitionInv
  <2>6. ASSUME t \in container
        PROVE  /\ expiration[t] = first[t][1] + fires[t] * interval[t]
               /\ ~ Endless(t) /\ interval[t] # 0 =>
                     repetitions[t] = first[t][2] - fires[t]
    <3>1. OnSchedule(t)
      BY <1>2, <2>6 DEF RepetitionInv, Held
    <3>2. Settled(t) = fires[t]
      BY <2>1, <2>6 DEF PlaceInv, Places, Settled
    <3>3. expiration[t] = first[t][1] + fires[t] * interval[t]
      BY <3>1, <3>2 DEF OnSchedule
    <3>4. ASSUME ~ Endless(t), interval[t] # 0
          PROVE  repetitions[t] = first[t][2] - fires[t]
      <4>1. first[t][2] \in Nat
        BY <2>2, <3>4 DEF Endless
      <4> QED
        BY <2>2, <3>1, <3>2, <3>4, <4>1 DEF OnSchedule
    <3> QED
      BY <3>3, <3>4
  <2> QED
    BY <2>3, <2>4, <2>5, <2>6 DEF OnTime
<1>3. TimerInv /\ RepetitionInv => RepetitionsExact
  BY <1>2 DEF RepetitionsExact
<1> QED
  BY <1>1, <1>3, RepetitionStep, TimerInvariant, PTL DEF Spec
=============================================================================
