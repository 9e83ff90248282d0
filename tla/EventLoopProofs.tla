--------------------------- MODULE EventLoopProofs ---------------------------
(***************************************************************************)
(* Theorems about module FileEvent, for every set of event types and every *)
(* set of platforms, and about module Timers, for any set of timers, any   *)
(* clipping limit and any durations: a timer runs only while it is enabled *)
(* and never early.                                                        *)
(***************************************************************************)
EXTENDS FileEvent, Integers, Sequences, SequenceTheorems, FiniteSetTheorems, FunctionTheorems, TLAPS

------------------------------------------------------------------------------
(* The inductive invariant *)

\* What the loop knows between two iterations: nothing is left on the work list.
IdleIsEmpty == phase = "poll" => what = {} /\ ~active

\* What waits to be reported is part of the mask in force, or was activated since the
\* last setEnabled().
PendingIsRelevant == what \subseteq enabled /\ injected \subseteq owed

\* Without its descriptor's registration an event has no mask.
DestroyedIsSilent == ~exists => enabled = {}

IndInv ==
  /\ TypeOK
  /\ IdleIsEmpty
  /\ PendingIsRelevant
  /\ DestroyedIsSilent
  /\ ArmedIffInjected
  /\ NoLostEdge

\* The constructor establishes the invariant.
LEMMA InitIndInv == Init => IndInv
<1> SUFFICES ASSUME Init PROVE IndInv
  OBVIOUS
<1>1. TypeOK
  BY DEF Init, TypeOK
<1>2. IdleIsEmpty /\ PendingIsRelevant /\ DestroyedIsSilent
  BY DEF Init, IdleIsEmpty, PendingIsRelevant, DestroyedIsSilent
<1>3. ArmedIffInjected
  BY DEF Init, ArmedIffInjected, CallbackEnabled
<1>4. NoLostEdge
  BY DEF Init, NoLostEdge
<1> QED BY <1>1, <1>2, <1>3, <1>4 DEF IndInv

\* The part of the invariant that speaks of the mask: updateEvents() leaves it intact
\* whether it returns early or registers the descriptor again.
LEMMA UpdateEventsProps ==
  ASSUME IndInv, NEW mask \in SUBSET ReadyType, UpdateEvents(mask)
  PROVE  /\ enabled' = mask
         /\ what' \in SUBSET ReadyType /\ edge' \in BOOLEAN
         /\ what' \subseteq mask
         /\ what' = {} \/ what' = what
         /\ trigger = "Edge" => edge' = (ready \cap mask # {})
BY DEF IndInv, TypeOK, PendingIsRelevant, UpdateEvents

\* Every step keeps the types.
LEMMA TypeStep == IndInv /\ [Next]_vars => TypeOK'
<1> SUFFICES ASSUME IndInv, [Next]_vars PROVE TypeOK'
  OBVIOUS
<1> USE DEF TypeOK, IndInv
<1>1. CASE Poll
  BY <1>1 DEF Poll
<1>2. CASE RunRawEvent
  BY <1>2 DEF RunRawEvent, MergeInjectedEventsAndRunCb
<1>3. CASE RunActivation
  BY <1>3 DEF RunActivation, MergeInjectedEventsAndRunCb
<1>4. CASE Return \/ IterationDone \/ RunOther
  BY <1>4 DEF Return, IterationDone, RunOther
<1>5. ASSUME NEW events \in (SUBSET ReadyType) \ {{}}, Activate(events) PROVE TypeOK'
  BY <1>5 DEF Activate, CallbackEnabled
<1>6. ASSUME NEW mask \in SUBSET ReadyType, SetEnabled(mask) PROVE TypeOK'
  BY <1>6, UpdateEventsProps DEF SetEnabled
<1>7. ASSUME NEW e \in ReadyType, RegisterIfEmulatedEdge(e) PROVE TypeOK'
  <2>1. enabled \cup {e} \in SUBSET ReadyType /\ enabled \ {e} \in SUBSET ReadyType
    OBVIOUS
  <2>2. enabled' \in SUBSET ReadyType /\ what' \in SUBSET ReadyType /\ edge' \in BOOLEAN
    BY <1>7, <2>1, UpdateEventsProps DEF RegisterIfEmulatedEdge
  <2> QED BY <1>7, <2>2 DEF RegisterIfEmulatedEdge
<1>8. ASSUME NEW e \in ReadyType, BecomesReady(e) \/ Exhausted(e) PROVE TypeOK'
  BY <1>8 DEF BecomesReady, Exhausted
<1>9. CASE Destroy
  BY <1>9 DEF Destroy
<1>10. CASE UNCHANGED vars
  BY <1>10 DEF vars
<1> QED BY <1>1, <1>2, <1>3, <1>4, <1>5, <1>6, <1>7, <1>8, <1>9, <1>10 DEF Next, LoopStep

\* The work list holds only what is relevant, and is empty between iterations.
LEMMA WorkListStep ==
  IndInv /\ [Next]_vars => IdleIsEmpty' /\ PendingIsRelevant' /\ DestroyedIsSilent'
<1> DEFINE Goal == IdleIsEmpty' /\ PendingIsRelevant' /\ DestroyedIsSilent'
<1> SUFFICES ASSUME IndInv, [Next]_vars PROVE Goal
  OBVIOUS
<1> USE DEF IdleIsEmpty, PendingIsRelevant, DestroyedIsSilent, IndInv, TypeOK
<1>1. CASE Poll
  BY <1>1 DEF Poll
<1>2. CASE RunRawEvent
  BY <1>2 DEF RunRawEvent, MergeInjectedEventsAndRunCb
<1>3. CASE RunActivation
  BY <1>3 DEF RunActivation, MergeInjectedEventsAndRunCb
<1>4. CASE Return \/ IterationDone \/ RunOther
  BY <1>4 DEF Return, IterationDone, RunOther
<1>5. ASSUME NEW events \in (SUBSET ReadyType) \ {{}}, Activate(events) PROVE Goal
  BY <1>5 DEF Activate, UserCode
<1>6. ASSUME NEW mask \in SUBSET ReadyType, SetEnabled(mask) PROVE Goal
  BY <1>6, UpdateEventsProps DEF SetEnabled, UserCode
<1>7. ASSUME NEW e \in ReadyType, RegisterIfEmulatedEdge(e) PROVE Goal
  <2>1. enabled \cup {e} \in SUBSET ReadyType /\ enabled \ {e} \in SUBSET ReadyType
    OBVIOUS
  <2>2. what' \subseteq enabled'
    BY <1>7, <2>1, UpdateEventsProps DEF RegisterIfEmulatedEdge
  <2> QED BY <1>7, <2>2 DEF RegisterIfEmulatedEdge, UserCode
<1>8. ASSUME NEW e \in ReadyType, BecomesReady(e) \/ Exhausted(e) PROVE Goal
  BY <1>8 DEF BecomesReady, Exhausted
<1>9. CASE Destroy
  BY <1>9 DEF Destroy, UserCode
<1>10. CASE UNCHANGED vars
  BY <1>10 DEF vars
<1> QED BY <1>1, <1>2, <1>3, <1>4, <1>5, <1>6, <1>7, <1>8, <1>9, <1>10 DEF Next, LoopStep

\* The activation stays armed exactly while something is injected: activate() arms it for
\* the first event, merging and setEnabled() cancel it together with the events, and
\* polling moves it from the timer to the empty work list.
LEMMA ArmedStep == IndInv /\ [Next]_vars => ArmedIffInjected'
<1> SUFFICES ASSUME IndInv, [Next]_vars PROVE ArmedIffInjected'
  OBVIOUS
<1> USE DEF ArmedIffInjected, CallbackEnabled, IndInv, TypeOK
<1>1. CASE Poll
  BY <1>1 DEF Poll, IdleIsEmpty
<1>2. CASE RunRawEvent
  BY <1>2 DEF RunRawEvent, MergeInjectedEventsAndRunCb
<1>3. CASE RunActivation
  BY <1>3 DEF RunActivation, MergeInjectedEventsAndRunCb
<1>4. CASE Return \/ IterationDone \/ RunOther
  BY <1>4 DEF Return, IterationDone, RunOther
<1>5. ASSUME NEW events \in (SUBSET ReadyType) \ {{}}, Activate(events) PROVE ArmedIffInjected'
  <2>1. PICK e \in events : TRUE
    OBVIOUS
  <2>2. e \in injected'
    BY <1>5, <2>1 DEF Activate
  <2>3. timer' \/ active'
    BY <1>5 DEF Activate
  <2> QED BY <2>2, <2>3
<1>6. ASSUME NEW mask \in SUBSET ReadyType, SetEnabled(mask) PROVE ArmedIffInjected'
  BY <1>6 DEF SetEnabled
<1>7. ASSUME NEW e \in ReadyType, RegisterIfEmulatedEdge(e) PROVE ArmedIffInjected'
  BY <1>7 DEF RegisterIfEmulatedEdge
<1>8. ASSUME NEW e \in ReadyType, BecomesReady(e) \/ Exhausted(e) PROVE ArmedIffInjected'
  BY <1>8 DEF BecomesReady, Exhausted
<1>9. CASE Destroy
  BY <1>9 DEF Destroy
<1>10. CASE UNCHANGED vars
  BY <1>10 DEF vars
<1> QED BY <1>1, <1>2, <1>3, <1>4, <1>5, <1>6, <1>7, <1>8, <1>9, <1>10 DEF Next, LoopStep

\* An edge that the callback was not told of is kept by the kernel or by the work list:
\* registering again makes the kernel look again, a poll moves the edge to the empty work
\* list, and what leaves that list is reported.
LEMMA EdgeStep == IndInv /\ [Next]_vars => NoLostEdge'
<1> SUFFICES ASSUME IndInv, [Next]_vars PROVE NoLostEdge'
  OBVIOUS
<1> USE DEF NoLostEdge, IndInv, TypeOK
<1>1. CASE Poll
  BY <1>1 DEF Poll, IdleIsEmpty
<1>2. CASE RunRawEvent
  BY <1>2 DEF RunRawEvent, MergeInjectedEventsAndRunCb
<1>3. CASE RunActivation
  BY <1>3 DEF RunActivation, MergeInjectedEventsAndRunCb
<1>4. CASE Return \/ IterationDone \/ RunOther
  BY <1>4 DEF Return, IterationDone, RunOther
<1>5. ASSUME NEW events \in (SUBSET ReadyType) \ {{}}, Activate(events) PROVE NoLostEdge'
  BY <1>5 DEF Activate
<1>6. ASSUME NEW mask \in SUBSET ReadyType, SetEnabled(mask) PROVE NoLostEdge'
  BY <1>6, UpdateEventsProps DEF SetEnabled
<1>7. ASSUME NEW e \in ReadyType, RegisterIfEmulatedEdge(e) PROVE NoLostEdge'
  BY <1>7 DEF RegisterIfEmulatedEdge
<1>8. ASSUME NEW e \in ReadyType, BecomesReady(e) PROVE NoLostEdge'
  BY <1>8 DEF BecomesReady
<1>9. ASSUME NEW e \in ReadyType, Exhausted(e) PROVE NoLostEdge'
  BY <1>9 DEF Exhausted
<1>10. CASE Destroy
  BY <1>10 DEF Destroy
<1>11. CASE UNCHANGED vars
  BY <1>11 DEF vars
<1> QED BY <1>1, <1>2, <1>3, <1>4, <1>5, <1>6, <1>7, <1>8, <1>9, <1>10, <1>11 DEF Next, LoopStep

\* The invariant holds in every state.
LEMMA Invariance == Spec => []IndInv
<1>1. IndInv /\ [Next]_vars => IndInv'
  BY TypeStep, WorkListStep, ArmedStep, EdgeStep DEF IndInv
<1> QED BY InitIndInv, <1>1, PTL DEF Spec

------------------------------------------------------------------------------
(* Theorems *)

\* The types of the variables of a file event.
THEOREM TypeCorrect == Spec => []TypeOK
<1>1. IndInv => TypeOK
  BY DEF IndInv
<1> QED BY Invariance, <1>1, PTL

\* "Armed iff pending_activation_events_ != 0": for every set of event types and every
\* trigger, the activation is scheduled exactly while something is injected.
THEOREM ActivationIsArmed == Spec => []ArmedIffInjected
<1>1. IndInv => ArmedIffInjected
  BY DEF IndInv
<1> QED BY Invariance, <1>1, PTL

\* No edge of an edge-triggered descriptor is lost, whatever setEnabled(), activate() and
\* the callbacks of other events do in between.
THEOREM EdgesAreKept == Spec => []NoLostEdge
<1>1. IndInv => NoLostEdge
  BY DEF IndInv
<1> QED BY Invariance, <1>1, PTL

\* cb_ is called with at least one event, each of which is in the mask in force or was
\* activated since the last setEnabled().
THEOREM OnlyRelevantIsReported == Spec => ReportsOnlyRelevant
<1> DEFINE Relevant == phase # "cb" /\ phase' = "cb" =>
                         reported' # {} /\ reported' \subseteq enabled \cup owed
<1>1. IndInv /\ [Next]_vars => [Relevant]_vars
  <2> SUFFICES ASSUME IndInv, [Next]_vars, phase # "cb", phase' = "cb"
               PROVE  reported' # {} /\ reported' \subseteq enabled \cup owed
    OBVIOUS
  <2>1. RunRawEvent \/ RunActivation
    BY DEF Next, LoopStep, Poll, Return, IterationDone, RunOther, Activate, SetEnabled,
           RegisterIfEmulatedEdge, BecomesReady, Exhausted, Destroy, vars
  <2>2. CASE RunRawEvent
    BY <2>2 DEF RunRawEvent, MergeInjectedEventsAndRunCb, IndInv, PendingIsRelevant
  <2>3. CASE RunActivation
    BY <2>3 DEF RunActivation, MergeInjectedEventsAndRunCb, IndInv, PendingIsRelevant,
                ArmedIffInjected, CallbackEnabled
  <2> QED BY <2>1, <2>2, <2>3
<1> QED BY Invariance, <1>1, PTL DEF Spec, ReportsOnlyRelevant

------------------------------------------------------------------------------
(* Timers *)

CONSTANTS Timer, Millis, Micros, ClipTo, Duration, MaxTime, Factor, None
VARIABLES now, cached, approximate_monotonic_time, turn, deadline, running, due, fired

Clocked == INSTANCE Timers WITH phase <- turn, active <- running

\* Module Timers speaks of the cardinality that is used here.
LEMMA CardinalityHere ==
  \A S : (Clocked!IsFiniteSet(S) <=> IsFiniteSet(S)) /\ Clocked!Cardinality(S) = Cardinality(S)
BY Zenon DEF Clocked!Cardinality, Cardinality, Clocked!IsFiniteSet, IsFiniteSet


------------------------------------------------------------------------------
(* Arithmetic *)

\* Min and Max of two integers.
LEMMA MinMaxOfTwo ==
  ASSUME NEW a \in Int, NEW b \in Int
  PROVE  /\ Clocked!Min({a, b}) = IF a <= b THEN a ELSE b
         /\ Clocked!Max({a, b}) = IF a >= b THEN a ELSE b
BY DEF Clocked!Min, Clocked!Max

\* Quotients and remainders.
LEMMA Quotient ==
  ASSUME NEW d \in Nat, NEW u \in Nat \ {0}
  PROVE  /\ d \div u \in Nat
         /\ (d \div u) * u <= d
         /\ d < (d \div u) * u + u
BY Z3

\* A quotient is below a bound when the dividend is below its multiple.
LEMMA QuotientBound ==
  ASSUME NEW d \in Nat, NEW u \in Nat \ {0}, NEW b \in Nat, d <= u * b
  PROVE  d \div u \in 0..b
<1> DEFINE q == d \div u
<1>1. q \in Nat /\ q * u <= d
  BY Quotient
<1> HIDE DEF q
<1>2. CASE q > b
  <2>1. q = b + 1 + (q - b - 1) /\ q - b - 1 \in Nat
    BY <1>1, <1>2
  <2>2. q * u = u * b + u + (q - b - 1) * u
    BY <1>1, <2>1
  <2>3. (q - b - 1) * u >= 0
    BY <2>1
  <2> QED
    BY <1>1, <2>2, <2>3
<1> QED
  BY <1>1, <1>2 DEF q

\* durationToTimeval(): the timeval is a time that is not before the one asked for, or
\* the clipping limit.
LEMMA TimevalIsNotEarly ==
  ASSUME Clocked!TimeUnits, NEW d \in Nat, NEW unit \in {Millis, Micros}
  PROVE  LET tv == Clocked!DurationToTimeval(d, unit)
             limit == Clocked!Min({d * (Micros \div unit), ClipTo * Micros})
         IN  /\ tv.tv_sec * Micros + tv.tv_usec \in Nat
             /\ limit \in Nat /\ limit <= tv.tv_sec * Micros + tv.tv_usec
<1>1. unit \in Nat \ {0} /\ Micros \in Nat \ {0} /\ ClipTo \in Nat
  BY DEF Clocked!TimeUnits
<1>2. PICK k \in Nat : Micros = unit * k
  <2>1. CASE unit = Micros
    <3>1. Micros = Micros * 1
      BY <1>1
    <3> QED
      BY <2>1, <3>1
  <2>2. CASE unit = Millis
    <3>1. PICK k \in 1..Micros : Micros = Millis * k
      BY DEF Clocked!TimeUnits
    <3>2. k \in Nat
      BY <1>1
    <3> QED
      BY <2>2, <3>1, <3>2
  <2> QED
    BY <2>1, <2>2
<1>3. Micros \div unit = k
  BY <1>1, <1>2, Z3
<1> DEFINE secs == d \div unit
<1>4. secs \in Nat /\ secs * unit <= d
  BY <1>1, Quotient
<1>5. d * k \in Nat /\ ClipTo * Micros \in Nat /\ secs * unit \in Nat
  BY <1>1, <1>4
<1> DEFINE tv == Clocked!DurationToTimeval(d, unit)
           limit == Clocked!Min({d * (Micros \div unit), ClipTo * Micros})
<1>6. limit \in Nat /\ limit <= d * k /\ limit <= ClipTo * Micros
  <2>1. limit = Clocked!Min({d * k, ClipTo * Micros})
    BY <1>3
  <2>2. Clocked!Min({d * k, ClipTo * Micros}) =
          IF d * k <= ClipTo * Micros THEN d * k ELSE ClipTo * Micros
    BY <1>5, MinMaxOfTwo
  <2> HIDE DEF limit
  <2> QED
    BY <1>5, <2>1, <2>2
<1> HIDE DEF limit
<1>7. CASE secs > ClipTo
  <2>1. tv = [tv_sec |-> ClipTo, tv_usec |-> 0]
    BY <1>7 DEF Clocked!DurationToTimeval
  <2>2. tv.tv_sec = ClipTo /\ tv.tv_usec = 0
    BY <2>1
  <2> HIDE DEF tv
  <2>3. tv.tv_sec * Micros + tv.tv_usec = ClipTo * Micros
    BY <1>5, <2>2
  <2> QED
    BY <1>5, <1>6, <2>3 DEF limit, tv
<1>8. CASE ~(secs > ClipTo)
  <2>1. tv = [tv_sec |-> secs, tv_usec |-> (d - secs * unit) * k]
    BY <1>3, <1>8 DEF Clocked!DurationToTimeval, Clocked!Remainder
  <2>2. tv.tv_sec = secs /\ tv.tv_usec = (d - secs * unit) * k
    BY <2>1
  <2> HIDE DEF secs, tv
  <2>3. secs * Micros = secs * unit * k
    BY <1>1, <1>2, <1>4
  <2>4. (d - secs * unit) * k = d * k - secs * unit * k
    BY <1>1, <1>4
  <2>5. secs * Micros + (d - secs * unit) * k = d * k
    BY <1>1, <1>4, <1>5, <2>3, <2>4
  <2>6. tv.tv_sec * Micros + tv.tv_usec = d * k
    BY <2>2, <2>5
  <2> QED
    BY <1>5, <1>6, <2>6 DEF limit, tv
<1> QED
  BY <1>7, <1>8

\* ScaledMinimum::computeMinimum(): between zero and the maximum, whatever the factor.
LEMMA MinimumIsInRange ==
  ASSUME Clocked!TimeUnits, NEW f \in Factor, NEW max \in Duration
  PROVE  Clocked!ComputeMinimum([scaled |-> TRUE, factor |-> f], max) \in 0..max
<1>1. f[1] \in Int /\ f[2] \in Nat \ {0} /\ max \in Nat
  BY DEF Clocked!TimeUnits
<1> DEFINE c == Clocked!Max({0, Clocked!Min({f[1], f[2]})})
<1>2. c \in 0..f[2]
  <2> DEFINE least == Clocked!Min({f[1], f[2]})
  <2>1. least = IF f[1] <= f[2] THEN f[1] ELSE f[2]
    BY <1>1, MinMaxOfTwo
  <2>2. least \in Int /\ least <= f[2]
    BY <1>1, <2>1
  <2> HIDE DEF least
  <2>3. Clocked!Max({0, least}) = IF 0 >= least THEN 0 ELSE least
    BY <2>2 DEF Clocked!Max
  <2>4. Clocked!Max({0, least}) \in 0..f[2]
    BY <1>1, <2>2, <2>3
  <2> QED
    BY <2>4 DEF least
<1>3. Clocked!ComputeMinimum([scaled |-> TRUE, factor |-> f], max) = (c * max) \div f[2]
  BY DEF Clocked!ComputeMinimum
<1> HIDE DEF c
<1>4. c * max \in Nat /\ c * max <= f[2] * max
  <2>1. f[2] - c \in Nat /\ c \in Nat
    BY <1>1, <1>2
  <2> DEFINE m == f[2]
  <2> HIDE DEF m
  <2>2. m \in Nat /\ m - c \in Nat
    BY <1>1, <2>1 DEF m
  <2>3. m * max = c * max + (m - c) * max
    BY <1>1, <2>1, <2>2
  <2>4. c * max \in Nat /\ (m - c) * max \in Nat
    BY <1>1, <2>1, <2>2
  <2> QED
    BY <2>3, <2>4 DEF m
<1> QED
  BY <1>1, <1>3, <1>4, QuotientBound

------------------------------------------------------------------------------
(* Lists of timers *)

InjectiveList(s) == \A i, j \in 1..Len(s) : s[i] = s[j] => i = j

\* The empty list holds nothing.
LEMMA EmptyListHasNone == \A u : u \notin Clocked!ToSet(<<>>)
<1>1. Len(<<>>) = 0
  BY EmptySeq
<1>2. \A i : i \notin 1..0
  OBVIOUS
<1> QED
  BY <1>1, <1>2 DEF Clocked!ToSet

\* The elements of a list.
LEMMA Elements ==
  ASSUME NEW s \in Seq(Timer)
  PROVE  \A u : u \in Clocked!ToSet(s) <=> \E i \in 1..Len(s) : s[i] = u
<1>1. DOMAIN s = 1..Len(s)
  BY LenProperties
<1> QED
  BY <1>1 DEF Clocked!ToSet

\* The callback takes the first timer of the list.
LEMMA TailOfList ==
  ASSUME NEW s \in Seq(Timer), s # <<>>, InjectiveList(s)
  PROVE  /\ Tail(s) \in Seq(Timer) /\ InjectiveList(Tail(s))
         /\ Head(s) \in Timer /\ Head(s) \in Clocked!ToSet(s)
         /\ Clocked!ToSet(Tail(s)) = Clocked!ToSet(s) \ {Head(s)}
<1> DEFINE r == Tail(s)
           n == Len(s)
<1>1. n \in Nat \ {0} /\ Head(s) = s[1] /\ s[1] \in Timer
  BY EmptySeq, ElementOfSeq
<1>2. /\ r \in Seq(Timer) /\ Len(r) = n - 1
      /\ \A i \in 1..(n - 1) : r[i] = s[i + 1]
  BY HeadTailProperties
<1> HIDE DEF r
<1>3. InjectiveList(r)
  BY <1>1, <1>2 DEF InjectiveList
<1>4. ASSUME NEW u
      PROVE  u \in Clocked!ToSet(r) <=> u \in Clocked!ToSet(s) /\ u # Head(s)
  <2>1. ASSUME NEW i \in 1..Len(r), r[i] = u
        PROVE  u \in Clocked!ToSet(s) /\ u # Head(s)
    <3>1. i + 1 \in 1..n /\ 1 \in 1..n /\ s[i + 1] = u /\ i + 1 # 1
      BY <1>1, <1>2, <2>1
    <3> QED
      BY <1>1, <3>1, Elements DEF InjectiveList
  <2>2. ASSUME NEW i \in 1..n, s[i] = u, u # Head(s)
        PROVE  u \in Clocked!ToSet(r)
    <3>1. i - 1 \in 1..Len(r) /\ r[i - 1] = u
      BY <1>1, <1>2, <2>2
    <3> QED
      BY <1>2, <3>1, Elements
  <2> QED
    BY <1>2, <2>1, <2>2, Elements
<1>5. Head(s) \in Clocked!ToSet(s)
  BY <1>1, Elements
<1> QED
  BY <1>1, <1>2, <1>3, <1>4, <1>5 DEF r

\* event_del() and event_add() take a timer out of the list.
LEMMA RemovedFromList ==
  ASSUME NEW s \in Seq(Timer), InjectiveList(s), NEW t \in Timer
  PROVE  /\ Clocked!RemoveFirst(s, t) \in Seq(Timer) /\ InjectiveList(Clocked!RemoveFirst(s, t))
         /\ Clocked!ToSet(Clocked!RemoveFirst(s, t)) = Clocked!ToSet(s) \ {t}
<1>1. CASE ~\E i \in 1..Len(s) : s[i] = t
  BY <1>1, Elements DEF Clocked!RemoveFirst
<1>2. CASE \E i \in 1..Len(s) : s[i] = t
  <2> DEFINE k == Clocked!SelectInSeq(s, LAMBDA v : v = t)
             n == Len(s)
             r == Clocked!RemoveAt(s, k)
  <2>1. k \in 1..n /\ s[k] = t /\ n \in Nat
    <3>1. n \in Nat
      BY LenProperties
    <3>2. PICK i \in 1..n : s[i] = t
      BY <1>2
    <3>3. {j \in 1..n : s[j] = t} = {i}
      BY <3>2 DEF InjectiveList
    <3>4. Clocked!Min({i}) = i
      BY <3>1 DEF Clocked!Min
    <3>5. k = Clocked!Min({j \in 1..n : s[j] = t})
      BY <3>3 DEF Clocked!SelectInSeq
    <3>6. k = i
      BY <3>3, <3>4, <3>5
    <3> QED
      BY <3>1, <3>2, <3>6
  <2>2. Clocked!RemoveFirst(s, t) = r
    BY <1>2 DEF Clocked!RemoveFirst
  <2> HIDE DEF k
  <2>3. /\ SubSeq(s, 1, k - 1) \in Seq(Timer) /\ Len(SubSeq(s, 1, k - 1)) = k - 1
        /\ \A i \in 1..(k - 1) : SubSeq(s, 1, k - 1)[i] = s[i]
    BY <2>1, SubSeqProperties, ElementOfSeq
  <2>4. /\ SubSeq(s, k + 1, n) \in Seq(Timer) /\ Len(SubSeq(s, k + 1, n)) = n - k
        /\ \A i \in 1..(n - k) : SubSeq(s, k + 1, n)[i] = s[k + i]
    BY <2>1, SubSeqProperties, ElementOfSeq
  <2>5. /\ r \in Seq(Timer) /\ Len(r) = n - 1
        /\ \A i \in 1..(n - 1) : r[i] = IF i <= k - 1 THEN s[i] ELSE s[i + 1]
    <3> DEFINE a == SubSeq(s, 1, k - 1)
               b == SubSeq(s, k + 1, n)
    <3>1. r = a \o b
      BY DEF Clocked!RemoveAt
    <3> HIDE DEF a, b, r
    <3>2. a \in Seq(Timer) /\ b \in Seq(Timer) /\ Len(a) = k - 1 /\ Len(b) = n - k
      BY <2>3, <2>4 DEF a, b
    <3>3. /\ r \in Seq(Timer) /\ Len(r) = (k - 1) + (n - k)
          /\ \A i \in 1..((k - 1) + (n - k)) :
               r[i] = IF i <= k - 1 THEN a[i] ELSE b[i - (k - 1)]
      BY <3>1, <3>2, ConcatProperties
    <3>4. (k - 1) + (n - k) = n - 1
      BY <2>1
    <3>5. ASSUME NEW i \in 1..(n - 1)
          PROVE  r[i] = IF i <= k - 1 THEN s[i] ELSE s[i + 1]
      <4>1. CASE i <= k - 1
        BY <2>1, <2>3, <3>3, <3>4, <4>1 DEF a
      <4>2. CASE ~(i <= k - 1)
        <5>1. i - (k - 1) \in 1..(n - k) /\ k + (i - (k - 1)) = i + 1
          BY <2>1, <4>2
        <5>2. b[i - (k - 1)] = s[i + 1]
          BY <2>4, <5>1 DEF b
        <5> QED
          BY <3>3, <3>4, <4>2, <5>2
      <4> QED
        BY <4>1, <4>2
    <3> QED
      BY <3>3, <3>4, <3>5
  <2> HIDE DEF r
  <2>6. InjectiveList(r)
    BY <2>1, <2>5 DEF InjectiveList
  <2>7. ASSUME NEW u
        PROVE  u \in Clocked!ToSet(r) <=> u \in Clocked!ToSet(s) /\ u # t
    <3>1. ASSUME NEW i \in 1..Len(r), r[i] = u
          PROVE  u \in Clocked!ToSet(s) /\ u # t
      <4> DEFINE j == IF i <= k - 1 THEN i ELSE i + 1
      <4>1. j \in 1..n /\ j # k /\ s[j] = u
        BY <2>1, <2>5, <3>1
      <4> QED
        BY <2>1, <4>1, Elements DEF InjectiveList
    <3>2. ASSUME NEW i \in 1..n, s[i] = u, u # t
          PROVE  u \in Clocked!ToSet(r)
      <4> DEFINE j == IF i <= k - 1 THEN i ELSE i - 1
      <4>1. j \in 1..Len(r) /\ r[j] = u
        BY <2>1, <2>5, <3>2
      <4> QED
        BY <2>5, <4>1, Elements
    <3> QED
      BY <2>5, <3>1, <3>2, Elements
  <2> QED
    BY <2>2, <2>5, <2>6, <2>7
<1> QED
  BY <1>1, <1>2

\* What polling collects is in the list, once each.
LEMMA CollectedList ==
  ASSUME Clocked!TimeUnits, NEW S \in SUBSET Timer, NEW s \in Clocked!SetToSeqs(S)
  PROVE  s \in Seq(Timer) /\ InjectiveList(s) /\ Clocked!ToSet(s) = S
<1>1. IsFiniteSet(S)
  BY FS_Subset, CardinalityHere DEF Clocked!TimeUnits
<1> DEFINE n == Cardinality(S)
<1>2. n \in Nat
  BY <1>1, FS_CardinalityType
<1>3. s \in [1..n -> S] /\ \A i, j \in 1..n : i # j => s[i] # s[j]
  BY CardinalityHere DEF Clocked!SetToSeqs
<1>4. s \in Injection(1..n, S)
  BY <1>3, Fun_IsInj
<1>5. IsFiniteSet(1..n) /\ Cardinality(1..n) = n
  BY <1>2, FS_Interval
<1>6. s \in Surjection(1..n, S)
  BY <1>1, <1>4, <1>5, FS_Injection
<1>7. s \in Seq(Timer) /\ Len(s) = n
  BY <1>2, <1>3
<1>8. InjectiveList(s)
  BY <1>3, <1>7 DEF InjectiveList
<1>9. Clocked!ToSet(s) = S
  BY <1>3, <1>6 DEF Clocked!ToSet, Surjection
<1> QED
  BY <1>7, <1>8, <1>9

------------------------------------------------------------------------------
(* The inductive invariant *)

Time == Nat \cup {None}

ClockInv ==
  /\ now \in Nat /\ cached \in Nat
  /\ approximate_monotonic_time \in Nat /\ approximate_monotonic_time <= now
  /\ turn \in {"prepare", "poll", "run"}

\* A list of expired timers exists only while the loop runs callbacks.
ListInv ==
  /\ running \in Seq(Timer) /\ InjectiveList(running)
  /\ turn # "run" => running = <<>>

\* An event is due, or it expired, or neither; the time asked for has not passed over
\* a deadline, and has come for every expired timer.
TimerInv ==
  /\ deadline \in [Timer -> Time] /\ due \in [Timer -> Time]
  /\ \A t \in Timer :
       /\ deadline[t] # None => due[t] # None /\ due[t] <= deadline[t] /\ t \notin Clocked!ToSet(running)
       /\ t \in Clocked!ToSet(running) => due[t] # None /\ due[t] <= now
       /\ due[t] # None => deadline[t] # None \/ t \in Clocked!ToSet(running)

FiredInv == fired # <<>> => fired[2] # None /\ fired[3] >= fired[2]

TimersInv == ClockInv /\ ListInv /\ TimerInv /\ FiredInv

\* No timer is enabled to begin with.
LEMMA InitTimersInv ==
  ASSUME Clocked!TimeUnits, Clocked!Init
  PROVE  TimersInv
<1>1. ClockInv /\ FiredInv
  BY DEF Clocked!Init, ClockInv, FiredInv
<1>2. running \in Seq(Timer) /\ Len(running) = 0 /\ running = <<>>
  BY EmptySeq DEF Clocked!Init
<1>3. ListInv
  BY <1>2 DEF ListInv, InjectiveList
<1>4. \A u : u \notin Clocked!ToSet(running)
  BY <1>2, EmptyListHasNone
<1>5. TimerInv
  BY <1>4 DEF Clocked!Init, TimerInv, Time
<1> QED
  BY <1>1, <1>3, <1>5 DEF TimersInv

\* Every step keeps the invariant.
LEMMA TimersInvariance ==
  ASSUME Clocked!TimeUnits, TimersInv, [Clocked!Next]_(Clocked!vars)
  PROVE  TimersInv'
<1>1. ClockInv /\ ListInv /\ TimerInv /\ FiredInv /\ None \notin Nat
  BY DEF TimersInv, Clocked!TimeUnits
<1>2. ASSUME NEW t \in Timer, running' = Clocked!Without(t), turn \in {"prepare", "run"}, turn' = turn
      PROVE  ListInv' /\ Clocked!ToSet(running') = Clocked!ToSet(running) \ {t}
  <2>1. /\ running' \in Seq(Timer) /\ InjectiveList(running')
        /\ Clocked!ToSet(running') = Clocked!ToSet(running) \ {t}
    BY <1>1, <1>2, RemovedFromList DEF ListInv, Clocked!Without
  <2>2. running = <<>> => running' = <<>>
    <3>1. CASE running = <<>>
      <4>1. 1..Len(running) = {}
        BY <3>1
      <4> QED
        BY <1>2, <3>1, <4>1 DEF Clocked!Without, Clocked!RemoveFirst
    <3> QED
      BY <3>1
  <2> QED
    BY <1>1, <1>2, <2>1, <2>2 DEF ListInv
<1>3. ASSUME NEW t \in Timer, NEW d \in Duration, NEW unit \in {Millis, Micros},
             Clocked!EnableTimer(t, d, unit)
      PROVE  TimersInv'
  <2> DEFINE tv == Clocked!DurationToTimeval(d, unit)
             time == tv.tv_sec * Micros + tv.tv_usec
             limit == Clocked!Min({d * (Micros \div unit), ClipTo * Micros})
  <2>1. time \in Nat /\ limit \in Nat /\ limit <= time
    <3>1. d \in Nat
      BY DEF Clocked!TimeUnits
    <3> QED
      BY <3>1, TimevalIsNotEarly
  <2>2. /\ turn \in {"prepare", "run"} /\ running' = Clocked!Without(t)
        /\ deadline' = [deadline EXCEPT ![t] = cached + tv.tv_sec * Micros + tv.tv_usec]
        /\ due' = [due EXCEPT ![t] = cached + limit]
        /\ UNCHANGED <<now, cached, approximate_monotonic_time, turn, fired>>
    BY <1>3 DEF Clocked!EnableTimer
  <2>3. cached + tv.tv_sec * Micros + tv.tv_usec = cached + time
    <3>1. tv.tv_sec \in Nat /\ tv.tv_usec \in Int
      <4>1. d \in Nat /\ unit \in Nat \ {0} /\ ClipTo \in Nat /\ Micros \in Nat
        BY DEF Clocked!TimeUnits
      <4>2. d \div unit \in Nat /\ Micros \div unit \in Nat
        BY <4>1, Quotient
      <4>3. Clocked!Remainder(d, d \div unit, unit) \in Int
        BY <4>1, <4>2 DEF Clocked!Remainder
      <4> QED
        BY <4>1, <4>2, <4>3 DEF Clocked!DurationToTimeval
    <3>2. cached \in Nat /\ Micros \in Nat
      BY <1>1 DEF ClockInv, Clocked!TimeUnits
    <3> HIDE DEF tv
    <3> QED
      BY <3>1, <3>2
  <2> HIDE DEF time, limit, tv
  <2>4. cached + time \in Nat /\ cached + limit \in Nat /\ cached + limit <= cached + time
    BY <1>1, <2>1 DEF ClockInv
  <2>5. ListInv' /\ Clocked!ToSet(running') = Clocked!ToSet(running) \ {t}
    BY <1>2, <2>2
  <2>6. TimerInv'
    <3>1. deadline' = [deadline EXCEPT ![t] = cached + time]
      BY <2>2, <2>3
    <3>2. deadline' \in [Timer -> Time] /\ due' \in [Timer -> Time]
      BY <1>1, <2>2, <2>4, <3>1 DEF TimerInv, Time
    <3>3. \A u \in Timer : (u \in Clocked!ToSet(running))' <=> u \in Clocked!ToSet(running) /\ u # t
      BY <2>5
    <3> QED
      BY <1>1, <2>2, <2>4, <3>1, <3>2, <3>3 DEF TimerInv, Time
  <2> QED
    BY <1>1, <2>2, <2>5, <2>6 DEF TimersInv, ClockInv, FiredInv
<1>4. ASSUME NEW t \in Timer, Clocked!DisableTimer(t)
      PROVE  TimersInv'
  <2>1. /\ turn \in {"prepare", "run"} /\ running' = Clocked!Without(t)
        /\ deadline' = [deadline EXCEPT ![t] = None]
        /\ due' = [due EXCEPT ![t] = None]
        /\ UNCHANGED <<now, cached, approximate_monotonic_time, turn, fired>>
    BY <1>4 DEF Clocked!DisableTimer
  <2>2. ListInv' /\ Clocked!ToSet(running') = Clocked!ToSet(running) \ {t}
    BY <1>2, <2>1
  <2>3. \A u \in Timer : (u \in Clocked!ToSet(running))' <=> u \in Clocked!ToSet(running) /\ u # t
    BY <2>2
  <2>4. TimerInv'
    BY <1>1, <2>1, <2>3 DEF TimerInv, Time
  <2> QED
    BY <1>1, <2>1, <2>2, <2>4 DEF TimersInv, ClockInv, FiredInv
<1>5. ASSUME NEW time \in 0..MaxTime, Clocked!Poll(time)
      PROVE  TimersInv'
  <2> DEFINE expired == {t \in Timer : deadline[t] # None /\ deadline[t] <= time}
  <2>1. /\ turn = "poll" /\ time >= now /\ now' = time /\ cached' = time
        /\ running' \in Clocked!SetToSeqs(expired)
        /\ deadline' = [t \in Timer |-> IF t \in expired THEN None ELSE deadline[t]]
        /\ turn' = "run" /\ UNCHANGED <<approximate_monotonic_time, due, fired>>
    BY <1>5 DEF Clocked!Poll
  <2>2. time \in Nat
    BY DEF Clocked!TimeUnits
  <2>3. running' \in Seq(Timer) /\ InjectiveList(running') /\ Clocked!ToSet(running') = expired
    <3>1. expired \in SUBSET Timer
      OBVIOUS
    <3> HIDE DEF expired
    <3> QED
      BY <2>1, <3>1, CollectedList
  <2>4. running = <<>>
    BY <1>1, <2>1 DEF ListInv
  <2>5. \A u : u \notin Clocked!ToSet(running)
    BY <2>4, EmptyListHasNone
  <2>6. \A t \in Timer : due'[t] \in Time /\ deadline'[t] \in Time /\ deadline[t] \in Time
    BY <1>1, <2>1 DEF TimerInv, Time
  <2>7. ASSUME NEW t \in Timer, t \in expired
        PROVE  due[t] # None /\ due[t] <= time
    <3>1. deadline[t] \in Nat /\ deadline[t] <= time /\ due[t] # None /\ due[t] <= deadline[t]
      BY <1>1, <2>6, <2>7 DEF TimerInv, Time
    <3>2. due[t] \in Nat
      BY <1>1, <3>1 DEF TimerInv, Time
    <3> QED
      BY <2>2, <3>1, <3>2
  <2>8. TimerInv'
    <3>1. deadline' \in [Timer -> Time] /\ due' \in [Timer -> Time]
      BY <1>1, <2>1 DEF TimerInv, Time
    <3>2. \A u : (u \in Clocked!ToSet(running))' <=> u \in expired
      BY <2>3
    <3> HIDE DEF expired
    <3> QED
      BY <1>1, <2>1, <2>5, <2>7, <3>1, <3>2 DEF TimerInv
  <2>9. ClockInv'
    BY <1>1, <2>1, <2>2 DEF ClockInv
  <2> QED
    BY <1>1, <2>1, <2>3, <2>8, <2>9 DEF TimersInv, ListInv, FiredInv
<1>6. CASE Clocked!RunTimer
  <2> DEFINE t == Head(running)
  <2>1. /\ turn = "run" /\ running # <<>> /\ running' = Tail(running)
        /\ fired' = <<t, due[t], now>> /\ due' = [due EXCEPT ![t] = None]
        /\ UNCHANGED <<now, cached, approximate_monotonic_time, turn, deadline>>
    BY <1>6 DEF Clocked!RunTimer
  <2>2. /\ running' \in Seq(Timer) /\ InjectiveList(running') /\ t \in Timer
        /\ t \in Clocked!ToSet(running) /\ Clocked!ToSet(running') = Clocked!ToSet(running) \ {t}
    BY <1>1, <2>1, TailOfList DEF ListInv
  <2> HIDE DEF t
  <2>3. due[t] # None /\ due[t] <= now /\ due[t] \in Nat /\ deadline[t] = None
    BY <1>1, <2>2 DEF TimerInv, Time
  <2>4. FiredInv'
    BY <1>1, <2>1, <2>3 DEF FiredInv, ClockInv
  <2>5. \A u : (u \in Clocked!ToSet(running))' <=> u \in Clocked!ToSet(running) /\ u # t
    BY <2>2
  <2>6. TimerInv'
    BY <1>1, <2>1, <2>2, <2>3, <2>5 DEF TimerInv, Time
  <2> QED
    BY <1>1, <2>1, <2>2, <2>4, <2>6 DEF TimersInv, ClockInv, ListInv
<1>7. CASE Clocked!Work
  <2>1. /\ turn = "run" /\ now' = now + 1
        /\ UNCHANGED <<cached, approximate_monotonic_time, turn, deadline, running, due, fired>>
    BY <1>7 DEF Clocked!Work
  <2>2. ASSUME NEW t \in Timer, t \in Clocked!ToSet(running)
        PROVE  due[t] # None /\ due[t] <= now + 1
    <3>1. due[t] # None /\ due[t] <= now /\ due[t] \in Nat
      BY <1>1, <2>2 DEF TimerInv, Time
    <3> QED
      BY <1>1, <3>1 DEF ClockInv
  <2>3. TimerInv'
    BY <1>1, <2>1, <2>2 DEF TimerInv
  <2> QED
    BY <1>1, <2>1, <2>3 DEF TimersInv, ClockInv, ListInv, FiredInv
<1>8. CASE Clocked!Prepare
  BY <1>1, <1>8 DEF Clocked!Prepare, TimersInv, ClockInv, ListInv, TimerInv, FiredInv
<1>9. CASE Clocked!EndIteration
  BY <1>1, <1>9 DEF Clocked!EndIteration, TimersInv, ClockInv, ListInv, TimerInv, FiredInv
<1>10. CASE UNCHANGED Clocked!vars
  BY <1>1, <1>10 DEF Clocked!vars, TimersInv, ClockInv, ListInv, TimerInv, FiredInv
<1> QED
  BY <1>3, <1>4, <1>5, <1>6, <1>7, <1>8, <1>9, <1>10 DEF Clocked!Next

------------------------------------------------------------------------------
\* TimerImpl runs its callback only when it was enabled and neither disabled nor run
\* since, even by the callback of a timer that expired in the same iteration; never
\* before the time asked for in either unit, nor before the clipping limit; enabled()
\* and the approximate time are right, and scaled minimums lie in their range.
THEOREM TimersAreNeverEarly ==
  ASSUME Clocked!TimeUnits
  PROVE  Clocked!Spec => []Clocked!TimersRunWhenDue
<1>1. Clocked!Init => TimersInv
  BY InitTimersInv
<1>2. TimersInv /\ [Clocked!Next]_(Clocked!vars) => TimersInv'
  BY TimersInvariance
<1>3. TimersInv => Clocked!TimersRunWhenDue
  <2> SUFFICES ASSUME TimersInv
               PROVE  Clocked!TimersRunWhenDue
    OBVIOUS
  <2>1. \A t \in Timer : Clocked!Enabled(t) <=> due[t] # None
    BY DEF TimersInv, TimerInv, Clocked!Enabled, Clocked!Pending
  <2>2. \A f \in Factor, max \in Duration :
          Clocked!ComputeMinimum([scaled |-> TRUE, factor |-> f], max) \in 0..max
    BY MinimumIsInRange
  <2> QED
    BY <2>1, <2>2 DEF TimersInv, FiredInv, ClockInv, Clocked!TimersRunWhenDue
<1> QED
  BY <1>1, <1>2, <1>3, PTL DEF Clocked!Spec
==============================================================================
