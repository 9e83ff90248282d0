------------------------------- MODULE Timers --------------------------------
(***************************************************************************)
(* TimerImpl and the part of the loop that runs timers: durations are      *)
(* turned into a timeval, libevent keeps a deadline, and each iteration of *)
(* the loop runs what expired while it was polling.  Operations on timers  *)
(* are called on the loop's thread, between callbacks or before the loop.  *)
(***************************************************************************)
EXTENDS Integers, Sequences, SequencesExt, FiniteSetsExt

CONSTANTS
  Timer,
  Millis, Micros,  \* milliseconds and microseconds in a second
  ClipTo,          \* INT32_MAX
  Duration,        \* durations asked for, in their unit
  MaxTime,         \* bound on the clock, in microseconds
  Factor,          \* scale factors, as <<numerator, denominator>>
  None

\* What EventLoopProofs assumes of the constants: a millisecond is a whole number of
\* microseconds, durations are not negative (enableTimer() does not check), scale factors
\* are fractions, and None is no time.
TimeUnits ==
  /\ Millis \in Nat \ {0} /\ Micros \in Nat \ {0} /\ ClipTo \in Nat /\ MaxTime \in Nat
  /\ \E k \in 1..Micros : Micros = Millis * k
  /\ Duration \subseteq Nat
  /\ Factor \subseteq Int \X (Nat \ {0})
  /\ IsFiniteSet(Timer) /\ None \notin Nat

VARIABLES
  now,        \* the clock, in microseconds
  cached,     \* tv_cache of libevent: the time when polling ended
  approximate_monotonic_time,
  phase,      \* of the loop: "prepare", "poll" or "run"
  deadline,   \* timer -> when its event is due; None if it is not added
  active,     \* the timers whose events expired, in the order they will run
  due,        \* history: timer -> when the last enable asked for it; None if it is not to fire
  fired       \* history: the last timer that ran, when it was due, and when it ran

vars == <<now, cached, approximate_monotonic_time, phase, deadline, active, due, fired>>

\* Mutant of Remainder: the rest of a second is taken as microseconds whatever the unit.
RemainderInUnits(d, secs, unit) == d - secs * unit

\* The part of a duration below a second, in microseconds.
Remainder(d, secs, unit) == (d - secs * unit) * (Micros \div unit)

\* durationToTimeval() for d >= 0 of which unit make a second.
DurationToTimeval(d, unit) ==
  LET secs == d \div unit IN
  IF secs > ClipTo THEN [tv_sec |-> ClipTo, tv_usec |-> 0]
  ELSE [tv_sec |-> secs, tv_usec |-> Remainder(d, secs, unit)]

\* ScaledTimerMinimum::computeMinimum() for a ScaledMinimum, whose factor UnitFloat keeps
\* between 0 and 1; an AbsoluteMinimum ignores the maximum.
ComputeMinimum(minimum, maximum) ==
  IF minimum.scaled
  THEN LET n == minimum.factor[1]  m == minimum.factor[2]
       IN  (Max({0, Min({n, m})}) * maximum) \div m
  ELSE minimum.value

Pending(t) == deadline[t] # None \/ t \in ToSet(active)
Enabled(t) == Pending(t)
Without(t) == RemoveFirst(active, t)

\* enableTimer() with unit = Millis, enableHRTimer() with unit = Micros: event_add() moves
\* an event that is pending, and takes it back when it has expired but did not run.
EnableTimer(t, d, unit) ==
  LET tv == DurationToTimeval(d, unit) IN
  /\ phase \in {"prepare", "run"}
  /\ deadline' = [deadline EXCEPT ![t] = cached + tv.tv_sec * Micros + tv.tv_usec]
  /\ active' = Without(t)
  /\ due' = [due EXCEPT ![t] = cached + Min({d * (Micros \div unit), ClipTo * Micros})]
  /\ UNCHANGED <<now, cached, approximate_monotonic_time, phase, fired>>

\* disableTimer(), and the destructor: event_del().
DisableTimer(t) ==
  /\ phase \in {"prepare", "run"}
  /\ deadline' = [deadline EXCEPT ![t] = None]
  /\ active' = Without(t)
  /\ due' = [due EXCEPT ![t] = None]
  /\ UNCHANGED <<now, cached, approximate_monotonic_time, phase, fired>>

\* onPrepareForCallback(): updateApproximateMonotonicTime().
Prepare ==
  /\ phase = "prepare"
  /\ approximate_monotonic_time' = now
  /\ phase' = "poll"
  /\ UNCHANGED <<now, cached, deadline, active, due, fired>>

\* The loop sleeps, possibly longer than the first deadline, and collects what expired.
Poll(time) ==
  LET expired == {t \in Timer : deadline[t] # None /\ deadline[t] <= time} IN
  /\ phase = "poll" /\ time >= now
  /\ now' = time /\ cached' = time
  /\ \E order \in SetToSeqs(expired) :
       /\ \A i, j \in DOMAIN order : i < j => deadline[order[i]] <= deadline[order[j]]
       /\ active' = order
  /\ deadline' = [t \in Timer |-> IF t \in expired THEN None ELSE deadline[t]]
  /\ phase' = "run"
  /\ UNCHANGED <<approximate_monotonic_time, due, fired>>

\* The callback of the constructor: it runs cb_, with or without a tracked object, which
\* only dumps of the state would show.
RunTimer ==
  LET t == Head(active) IN
  /\ phase = "run" /\ active # <<>>
  /\ active' = Tail(active)
  /\ fired' = <<t, due[t], now>>
  /\ due' = [due EXCEPT ![t] = None]
  /\ UNCHANGED <<now, cached, approximate_monotonic_time, phase, deadline>>

\* Callbacks take time, which libevent's cached time does not show.
Work ==
  /\ phase = "run" /\ now < MaxTime
  /\ now' = now + 1
  /\ UNCHANGED <<cached, approximate_monotonic_time, phase, deadline, active, due, fired>>

EndIteration ==
  /\ phase = "run" /\ active = <<>>
  /\ phase' = "prepare" /\ cached' = now  \* the cache is cleared
  /\ UNCHANGED <<now, approximate_monotonic_time, deadline, active, due, fired>>

Init ==
  /\ now = 0 /\ cached = 0 /\ approximate_monotonic_time = 0 /\ phase = "prepare"
  /\ deadline = [t \in Timer |-> None] /\ active = <<>>
  /\ due = [t \in Timer |-> None] /\ fired = <<>>

Next ==
  \/ \E t \in Timer, d \in Duration, unit \in {Millis, Micros} :
       EnableTimer(t, d, unit)
  \/ \E t \in Timer : DisableTimer(t)
  \/ Prepare \/ RunTimer \/ Work \/ EndIteration
  \/ \E time \in 0..MaxTime : Poll(time)

Spec == Init /\ [][Next]_vars
------------------------------------------------------------------------------
\* A timer runs only if it was enabled and neither disabled nor run since, not even
\* when it was disabled or moved by the callback of a timer that expired with it; never
\* before the time asked for in either unit (or 2^31 - 1 seconds, what longer durations
\* are clipped to); enabled() tells
\* whether it will; and the approximate time is never ahead of the clock.
TimersRunWhenDue ==
  /\ fired # <<>> => fired[2] # None /\ fired[3] >= fired[2]
  /\ \A t \in Timer : Enabled(t) <=> due[t] # None
  /\ approximate_monotonic_time <= now
  /\ \A f \in Factor, max \in Duration :
       ComputeMinimum([scaled |-> TRUE, factor |-> f], max) \in 0..max
==============================================================================
