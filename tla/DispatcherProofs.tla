--------------------------- MODULE DispatcherProofs ---------------------------
(***************************************************************************)
(* Theorems about module Dispatcher, for any set of threads and any bounds *)
(* on the work handed over.                                                *)
(***************************************************************************)
EXTENDS Dispatcher, SequenceTheorems, TLAPS

------------------------------------------------------------------------------
(* The work list *)

\* Activating an event keeps the work list a sequence of events, keeps what was
\* active and makes the event active (event_active).
LEMMA ActivatedProps ==
  ASSUME active \in Seq(Event), NEW e \in Event
  PROVE  /\ Activated(e) \in Seq(Event)
         /\ Activated(e) # <<>>
         /\ \E i \in DOMAIN Activated(e) : Activated(e)[i] = e
         /\ \A f : Armed(f) => \E i \in DOMAIN Activated(e) : Activated(e)[i] = f
<1>1. CASE Armed(e)
  <2>1. Activated(e) = active
    BY <1>1 DEF Activated
  <2>2. active # <<>>
    BY <1>1 DEF Armed
  <2> QED BY <1>1, <2>1, <2>2 DEF Armed
<1>2. CASE ~Armed(e)
  <2>1. Activated(e) = Append(active, e)
    BY <1>2 DEF Activated
  <2>2. /\ Append(active, e) \in Seq(Event)
        /\ Len(Append(active, e)) = Len(active) + 1
        /\ DOMAIN Append(active, e) = 1..(Len(active) + 1)
        /\ Append(active, e)[Len(active) + 1] = e
        /\ \A i \in DOMAIN active : Append(active, e)[i] = active[i]
        /\ DOMAIN active = 1..Len(active)
        /\ Len(active) \in Nat
    OBVIOUS
  <2>3. \E i \in DOMAIN Append(active, e) : Append(active, e)[i] = e
    BY <2>2
  <2>4. ASSUME NEW f, Armed(f)
        PROVE  \E i \in DOMAIN Append(active, e) : Append(active, e)[i] = f
    <3>1. PICK i \in DOMAIN active : active[i] = f
      BY <2>4 DEF Armed
    <3>2. i \in DOMAIN Append(active, e) /\ Append(active, e)[i] = f
      BY <2>2, <3>1
    <3> QED BY <3>2
  <2>5. Append(active, e) # <<>>
    BY <2>2
  <2> QED BY <2>1, <2>2, <2>3, <2>4, <2>5
<1> QED BY <1>1, <1>2

\* Taking the first event off the work list leaves the others active.
LEMMA TailProps ==
  ASSUME active \in Seq(Event), active # <<>>
  PROVE  /\ Tail(active) \in Seq(Event)
         /\ \A f : Armed(f) /\ f # Head(active) =>
              \E i \in DOMAIN Tail(active) : Tail(active)[i] = f
<1>1. /\ Tail(active) \in Seq(Event)
      /\ DOMAIN active = 1..Len(active)
      /\ Len(active) \in Nat
      /\ DOMAIN Tail(active) = 1..(Len(active) - 1)
      /\ \A i \in 1..(Len(active) - 1) : Tail(active)[i] = active[i + 1]
      /\ Head(active) = active[1]
  OBVIOUS
<1>2. ASSUME NEW f, Armed(f), f # Head(active)
      PROVE  \E i \in DOMAIN Tail(active) : Tail(active)[i] = f
  <2>1. PICK i \in DOMAIN active : active[i] = f
    BY <1>2 DEF Armed
  <2>2. i - 1 \in 1..(Len(active) - 1)
    BY <1>1, <1>2, <2>1
  <2>3. Tail(active)[i - 1] = active[i]
    BY <1>1, <2>1, <2>2
  <2> QED BY <1>1, <2>1, <2>2, <2>3
<1> QED BY <1>1, <1>2

\* Removing an event from the work list leaves the others active (event_del).
LEMMA WithoutProps ==
  ASSUME active \in Seq(Event), NEW e
  PROVE  /\ Without(e) \in Seq(Event)
         /\ \A f : Armed(f) /\ f # e =>
              \E i \in DOMAIN Without(e) : Without(e)[i] = f
<1>1. CASE ~Armed(e)
  BY <1>1 DEF Without, Armed
<1>2. CASE Armed(e)
  <2> DEFINE i0 == CHOOSE i \in DOMAIN active : active[i] = e
             w == [j \in 1..(Len(active) - 1) |->
                     IF j < i0 THEN active[j] ELSE active[j + 1]]
  <2>1. i0 \in DOMAIN active /\ active[i0] = e
    BY <1>2 DEF Armed
  <2>2. Without(e) = w
    BY <1>2 DEF Without
  <2>3. /\ DOMAIN active = 1..Len(active)
        /\ Len(active) \in Nat
        /\ \A j \in 1..Len(active) : active[j] \in Event
    OBVIOUS
  <2> HIDE DEF i0
  <2>4. /\ w \in Seq(Event)
        /\ DOMAIN w = 1..(Len(active) - 1)
    <3>1. \A j \in 1..(Len(active) - 1) : w[j] \in Event
      BY <2>1, <2>3
    <3>2. w \in [1..(Len(active) - 1) -> Event]
      BY <3>1
    <3>3. Len(active) - 1 \in Nat
      BY <2>1, <2>3
    <3> QED BY <3>2, <3>3
  <2>5. ASSUME NEW f, Armed(f), f # e
        PROVE  \E j \in DOMAIN w : w[j] = f
    <3>1. PICK i \in DOMAIN active : active[i] = f
      BY <2>5 DEF Armed
    <3>2. CASE i < i0
      <4>1. i \in 1..(Len(active) - 1) /\ w[i] = f
        BY <2>1, <2>3, <3>1, <3>2
      <4> QED BY <4>1
    <3>3. CASE i > i0
      <4>1. i - 1 \in 1..(Len(active) - 1) /\ w[i - 1] = f
        BY <2>1, <2>3, <3>1, <3>3
      <4> QED BY <4>1
    <3>4. i # i0
      BY <2>1, <2>5, <3>1
    <3> QED BY <2>1, <2>3, <3>1, <3>2, <3>3, <3>4
  <2> QED BY <2>2, <2>4, <2>5
<1> QED BY <1>1, <1>2

------------------------------------------------------------------------------
(* Type correctness *)

\* The swap in clearDeferredDeleteList() keeps the vectors' types.
LEMMA BeginClearType ==
  ASSUME TypeOK, BeginClear
  PROVE  /\ to_delete' \in [1..2 -> Seq(Nat)]
         /\ current' \in 1..2
         /\ deferred_deleting' \in BOOLEAN
         /\ in_dtor' \in BOOLEAN
<1>1. to_delete' \in [1..2 -> Seq(Nat)] /\ current' \in 1..2
  BY DEF TypeOK, BeginClear, deferredVars
<1>2. deferred_deleting' \in BOOLEAN /\ in_dtor' \in BOOLEAN
  BY DEF TypeOK, BeginClear, deferredVars
<1> QED BY <1>1, <1>2

\* No step takes the dispatcher out of its type invariant.
LEMMA TypeStep == TypeOK /\ [Next]_vars => TypeOK'
<1> SUFFICES ASSUME TypeOK, [Next]_vars
             PROVE  TypeOK'
  OBVIOUS
<1> USE DEF TypeOK, lists, history, loopVars, deferredVars
<1>1. ASSUME NEW t \in AllThreads, NEW k \in QKind, Push(t, k)
      PROVE  TypeOK'
  <2>0. handed[k] + 1 \in Nat /\ queue[k] \in Seq(Nat)
    <3>1. k \in Kind
      BY DEF Kind
    <3>2. handed[k] \in Nat
      BY <3>1
    <3>3. handed[k] + 1 \in Nat
      BY <3>2
    <3> QED BY <3>3
  <2>1. queue' \in [QKind -> Seq(Nat)]
    <3>1. Append(queue[k], handed[k] + 1) \in Seq(Nat)
      BY <2>0, AppendProperties
    <3> QED BY <1>1, <3>1 DEF Push
  <2>2. checking' \in [QKind -> SUBSET AllThreads]
    BY <1>1 DEF Push
  <2>3. handed' \in [Kind -> Nat]
    BY <1>1, <2>0 DEF Push
  <2> QED BY <1>1, <2>1, <2>2, <2>3 DEF Push
<1>2. ASSUME NEW t \in AllThreads, NEW k \in QKind, CheckEnabled(t, k)
      PROVE  TypeOK'
  BY <1>2 DEF CheckEnabled
<1>3. ASSUME NEW t \in AllThreads, NEW k \in QKind, Activate(t, k)
      PROVE  TypeOK'
  <2>1. active' \in Seq(Event)
    BY <1>3, ActivatedProps DEF Activate, EventActive, Event, Kind
  <2> QED BY <1>3, <2>1 DEF Activate
<1>4. ASSUME NEW t \in AllThreads, Exit(t)
      PROVE  TypeOK'
  <2>1. active' \in Seq(Event)
    BY <1>4, ActivatedProps DEF Exit, EventActive, Event
  <2>2. exits' \in Nat
    BY <1>4 DEF Exit
  <2> QED BY <1>4, <2>1, <2>2 DEF Exit
<1>5. CASE DeferredDelete
  <2>1. active' \in Seq(Event)
    BY <1>5, ActivatedProps DEF DeferredDelete, Event, Kind
  <2>2. handed["deferred"] + 1 \in Nat /\ to_delete[current] \in Seq(Nat)
    <3>1. "deferred" \in Kind
      BY DEF Kind
    <3>2. handed["deferred"] \in Nat
      BY <3>1
    <3>3. handed["deferred"] + 1 \in Nat
      BY <3>2
    <3>4. to_delete[current] \in Seq(Nat)
      OBVIOUS
    <3> QED BY <3>3, <3>4
  <2>3. to_delete' \in [1..2 -> Seq(Nat)] /\ handed' \in [Kind -> Nat]
    <3>1. Append(to_delete[current], handed["deferred"] + 1) \in Seq(Nat)
      BY <2>2, AppendProperties
    <3> QED BY <1>5, <2>2, <3>1 DEF DeferredDelete
  <2> QED BY <1>5, <2>1, <2>2, <2>3 DEF DeferredDelete
<1>6. CASE ClearDeferredDeleteList
  BY <1>6, BeginClearType DEF ClearDeferredDeleteList
<1>7. ASSUME NEW b \in BOOLEAN, Register(b)
      PROVE  TypeOK'
  <2>1. active' \in Seq(Event)
    BY <1>7, WithoutProps DEF Register
  <2> QED BY <1>7, <2>1 DEF Register
<1>8. CASE ResetElement
  <2>1. to_delete[Other] \in Seq(Nat) /\ Other \in 1..2
    BY DEF Other
  <2>2. Tail(to_delete[Other]) \in Seq(Nat) /\ Head(to_delete[Other]) \in Nat
    BY <1>8, <2>1, HeadTailProperties DEF ResetElement
  <2> QED BY <1>8, <2>1, <2>2 DEF ResetElement
<1>9. CASE ElementDestroyed
  BY <1>9 DEF ElementDestroyed
<1>10. ASSUME NEW k \in QKind, Take(k)
       PROVE  TypeOK'
  <2>1. queue' \in [QKind -> Seq(Nat)]
    BY <1>10, EmptySeq DEF Take
  <2>2. batch' \in Seq(Nat)
    BY <1>10 DEF Take
  <2> QED BY <1>10, <2>1, <2>2 DEF Take, LoopPC, QKind
<1>11. ASSUME NEW k \in QKind, Start(k)
       PROVE  TypeOK'
  <2>1. Tail(batch) \in Seq(Nat) /\ Head(batch) \in Nat
    BY <1>11, HeadTailProperties DEF Start
  <2> QED BY <1>11, <2>1 DEF Start, LoopPC, Kind, QKind
<1>12. ASSUME NEW k \in QKind, Drained(k)
       PROVE  TypeOK'
  BY <1>12 DEF Drained, LoopPC
<1>13. CASE Return
  BY <1>13 DEF Return, LoopPC
<1>14. CASE LoopReturns
  BY <1>14 DEF LoopReturns, LoopPC
<1>15. ASSUME NEW ready \in BOOLEAN, Poll(ready)
       PROVE  TypeOK'
  <2>1. active' \in Seq(Event)
    BY <1>15, ActivatedProps DEF Poll, Event
  <2>2. pc' \in LoopPC
    BY <1>15 DEF Poll, LoopPC
  <2> QED BY <1>15, <2>1, <2>2 DEF Poll
<1>16. ASSUME NEW ready \in BOOLEAN, Wake(ready)
       PROVE  TypeOK'
  <2>1. active' \in Seq(Event)
    BY <1>16, ActivatedProps DEF Wake, Event
  <2> QED BY <1>16, <2>1 DEF Wake, LoopPC
<1>17. ASSUME NEW e \in Event, Fire(e)
       PROVE  TypeOK'
  <2>1. active' \in Seq(Event)
    BY <1>17, TailProps DEF Fire
  <2>2. pc' \in LoopPC
    BY <1>17 DEF Fire, LoopPC
  <2>3. /\ to_delete' \in [1..2 -> Seq(Nat)]
        /\ current' \in 1..2
        /\ deferred_deleting' \in BOOLEAN
        /\ in_dtor' \in BOOLEAN
    BY <1>17, BeginClearType DEF Fire
  <2> QED BY <1>17, <2>1, <2>2, <2>3 DEF Fire
<1>18. CASE WorkDone
  BY <1>18 DEF WorkDone, LoopPC
<1>19. ASSUME NEW t \in RunType, Run(t)
       PROVE  TypeOK'
  BY <1>19, BeginClearType DEF Run, LoopPC
<1>20. CASE Shutdown
  BY <1>20 DEF Shutdown, LoopPC
<1>21. CASE Destroy
  BY <1>21 DEF Destroy, LoopPC
<1>22. CASE UNCHANGED vars
  BY <1>22 DEF vars
<1> HIDE DEF TypeOK, lists, history, loopVars, deferredVars
<1> QED
  BY <1>1, <1>2, <1>3, <1>4, <1>5, <1>6, <1>7, <1>8, <1>9, <1>10, <1>11, <1>12,
     <1>13, <1>14, <1>15, <1>16, <1>17, <1>18, <1>19, <1>20, <1>21, <1>22
  DEF Next, Caller, Scheduler, UserOps, LoopStep, Owner

\* Every reachable state is of the declared types: the loop's thread is always
\* at a known point, and the lists hold submission numbers.
THEOREM TypeCorrect == Spec => []TypeOK
<1>1. Init => TypeOK
  <2> SUFFICES ASSUME Init
               PROVE  TypeOK
    OBVIOUS
  <2>1. active \in Seq(Event) /\ batch \in Seq(Nat)
    BY EmptySeq DEF Init
  <2>2. queue \in [QKind -> Seq(Nat)] /\ to_delete \in [1..2 -> Seq(Nat)]
    BY EmptySeq DEF Init
  <2>3. handed \in [Kind -> Nat] /\ delivered \in [Kind -> Nat]
    BY DEF Init
  <2>4. /\ checking \in [QKind -> SUBSET AllThreads]
        /\ activating \in [QKind -> SUBSET AllThreads]
    BY DEF Init
  <2>5. pc \in LoopPC /\ type \in RunType
    BY DEF Init, LoopPC, RunType
  <2>6. /\ in_loop \in BOOLEAN /\ gotterm \in BOOLEAN /\ registered \in BOOLEAN
        /\ deferred_deleting \in BOOLEAN /\ in_dtor \in BOOLEAN
    BY DEF Init
  <2>7. current \in 1..2 /\ exits \in Nat
    BY DEF Init
  <2> QED BY <2>1, <2>2, <2>3, <2>4, <2>5, <2>6, <2>7 DEF TypeOK
<1>2. TypeOK /\ [Next]_vars => TypeOK'
  BY TypeStep
<1> QED BY <1>1, <1>2, PTL DEF Spec

------------------------------------------------------------------------------
(* No lost wakeup *)

\* An event other than the one at the head stays active, or becomes active,
\* in every step; written for the next state.
LEMMA ArmedPrimed ==
  ASSUME NEW e, NEW s, active' = s, \E i \in DOMAIN s : s[i] = e
  PROVE  Armed(e)'
BY DEF Armed

\* No step leaves an item in post_callbacks_ or deletables_in_dispatcher_thread_
\* without someone who is going to look at the list.
LEMMA WakeupStep ==
  TypeOK /\ NoLostWakeup /\ [Next]_vars => NoLostWakeup'
<1> SUFFICES ASSUME TypeOK, NoLostWakeup, [Next]_vars, Initialized,
                    NEW q \in QKind, queue'[q] # <<>>
             PROVE  \/ Armed(q)'
                    \/ checking'[q] \cup activating'[q] # {}
                    \/ pc' = (IF q = "post" THEN "take_post" ELSE "take_delete")
  BY DEF NoLostWakeup
<1> DEFINE Goal == \/ Armed(q)'
                   \/ checking'[q] \cup activating'[q] # {}
                   \/ pc' = (IF q = "post" THEN "take_post" ELSE "take_delete")
<1> USE DEF lists, history, loopVars, deferredVars
<1>a. active \in Seq(Event) /\ q \in Event
  BY DEF TypeOK, Event, Kind
<1>b. queue[q] # <<>> =>
        \/ Armed(q)
        \/ checking[q] \cup activating[q] # {}
        \/ pc = (IF q = "post" THEN "take_post" ELSE "take_delete")
  BY DEF NoLostWakeup
<1>c. ASSUME NEW e \in Event, active' = Activated(e), Armed(q) \/ q = e
      PROVE  Armed(q)'
  BY <1>a, <1>c, ActivatedProps, ArmedPrimed
<1>d. ASSUME active' = active, Armed(q)
      PROVE  Armed(q)'
  BY <1>d DEF Armed
\* Steps that leave the lists, their schedulers and the loop's place alone.
<1>e. ASSUME UNCHANGED <<lists, pc>>, Armed(q) => Armed(q)'
      PROVE  Goal
  BY <1>b, <1>e
<1>1. ASSUME NEW t \in AllThreads, NEW k \in QKind, Push(t, k)
      PROVE  Goal
  <2>1. CASE k = q
    <3>1. CASE queue[q] = <<>>
      BY <1>1, <2>1, <3>1 DEF Push, NeedSchedule, TypeOK
    <3>2. CASE queue[q] # <<>>
      BY <1>1, <1>b, <1>d, <2>1, <3>2 DEF Push, NeedSchedule, TypeOK
    <3> QED BY <3>1, <3>2
  <2>2. CASE k # q
    BY <1>1, <1>b, <1>d, <2>2 DEF Push, TypeOK
  <2> QED BY <2>1, <2>2
<1>2. ASSUME NEW t \in AllThreads, NEW k \in QKind, CheckEnabled(t, k)
      PROVE  Goal
  <2>1. CASE k = q /\ Armed(q)
    BY <1>2, <1>d, <2>1 DEF CheckEnabled
  <2>2. CASE k = q /\ ~Armed(q)
    BY <1>2, <2>2 DEF CheckEnabled, TypeOK
  <2>3. CASE k # q
    BY <1>2, <1>b, <1>d, <2>3 DEF CheckEnabled, TypeOK
  <2> QED BY <2>1, <2>2, <2>3
<1>3. ASSUME NEW t \in AllThreads, NEW k \in QKind, Activate(t, k)
      PROVE  Goal
  <2>1. active' = Activated(k) /\ k \in Event
    BY <1>3 DEF Activate, EventActive, Event, Kind
  <2>2. CASE k = q
    BY <1>c, <2>1, <2>2
  <2>3. CASE k # q
    BY <1>3, <1>b, <1>c, <2>1, <2>3 DEF Activate, TypeOK
  <2> QED BY <2>2, <2>3
<1>4. ASSUME NEW t \in AllThreads, Exit(t)
      PROVE  Goal
  BY <1>4, <1>c, <1>e DEF Exit, EventActive, Event
<1>5. CASE DeferredDelete
  BY <1>5, <1>c, <1>d, <1>e DEF DeferredDelete, Event, Kind
<1>6. CASE ClearDeferredDeleteList
  BY <1>6, <1>d, <1>e DEF ClearDeferredDeleteList
<1>7. ASSUME NEW b \in BOOLEAN, Register(b)
      PROVE  Goal
  <2>1. q # "event"
    BY DEF QKind
  <2>2. ASSUME Armed(q), active' = Without("event")
        PROVE  Armed(q)'
    BY <1>a, <2>1, <2>2, WithoutProps, ArmedPrimed
  <2> QED BY <1>7, <1>d, <1>e, <2>2 DEF Register
<1>8. CASE ResetElement
  BY <1>8, <1>d, <1>e DEF ResetElement
<1>9. CASE ElementDestroyed
  BY <1>9, <1>d, <1>e DEF ElementDestroyed
<1>10. ASSUME NEW k \in QKind, Take(k)
       PROVE  Goal
  <2>1. k # q
    BY <1>10 DEF Take, TypeOK
  <2>2. queue'[q] = queue[q]
    BY <1>10, <2>1 DEF Take, TypeOK
  <2>3. pc # (IF q = "post" THEN "take_post" ELSE "take_delete")
    BY <1>10, <2>1 DEF Take, QKind
  <2> QED BY <1>10, <1>b, <1>d, <2>2, <2>3 DEF Take
<1>11. ASSUME NEW k \in QKind, Start(k)
       PROVE  Goal
  <2>1. pc \notin {"take_post", "take_delete"}
    BY <1>11 DEF Start, QKind
  <2> QED BY <1>11, <1>b, <1>d, <2>1 DEF Start
<1>12. ASSUME NEW k \in QKind, Drained(k)
       PROVE  Goal
  <2>1. pc \notin {"take_post", "take_delete"}
    BY <1>12 DEF Drained, QKind
  <2> QED BY <1>12, <1>b, <1>d, <2>1 DEF Drained
<1>13. CASE Return
  BY <1>13, <1>b, <1>d DEF Return
<1>14. CASE LoopReturns
  BY <1>14, <1>b, <1>d DEF LoopReturns
<1>15. ASSUME NEW ready \in BOOLEAN, Poll(ready)
       PROVE  Goal
  BY <1>15, <1>b, <1>c, <1>d DEF Poll, Event
<1>16. ASSUME NEW ready \in BOOLEAN, Wake(ready)
       PROVE  Goal
  BY <1>16, <1>b, <1>c, <1>d DEF Wake, Event
<1>17. ASSUME NEW e \in Event, Fire(e)
       PROVE  Goal
  <2>1. CASE e = q
    BY <1>17, <2>1 DEF Fire, QKind
  <2>2. CASE e # q
    <3>1. Armed(q) => Armed(q)'
      BY <1>17, <1>a, <2>2, TailProps, ArmedPrimed DEF Fire
    <3> QED BY <1>17, <1>b, <3>1 DEF Fire
  <2> QED BY <2>1, <2>2
<1>18. CASE WorkDone
  BY <1>18, <1>b, <1>d DEF WorkDone
<1>19. ASSUME NEW t \in RunType, Run(t)
       PROVE  Goal
  BY <1>19, <1>b, <1>d DEF Run
<1>20. CASE Shutdown
  BY <1>20, <1>b, <1>d DEF Shutdown
<1>21. CASE Destroy
  BY <1>21, <1>b, <1>d DEF Destroy
<1>22. CASE UNCHANGED vars
  BY <1>22, <1>d, <1>e DEF vars
<1> QED
  BY <1>1, <1>2, <1>3, <1>4, <1>5, <1>6, <1>7, <1>8, <1>9, <1>10, <1>11, <1>12,
     <1>13, <1>14, <1>15, <1>16, <1>17, <1>18, <1>19, <1>20, <1>21, <1>22
  DEF Next, Caller, Scheduler, UserOps, LoopStep, Owner

\* However the threads interleave, a callback or deletable left in its list is
\* one that a scheduled callback, a thread about to schedule it, or the loop's
\* thread about to take the list will find.
THEOREM WakeupIsNeverLost == Spec => []NoLostWakeup
<1>1. Init => NoLostWakeup
  BY DEF Init, NoLostWakeup
<1>2. TypeOK /\ NoLostWakeup /\ [Next]_vars => NoLostWakeup'
  BY WakeupStep
<1> QED BY <1>1, <1>2, TypeCorrect, PTL DEF Spec

------------------------------------------------------------------------------
(* Deferred deletion *)

\* clearDeferredDeleteList() started when nothing is being cleared: it either
\* does nothing because the current vector is empty, or makes the empty vector
\* the current one.
LEMMA BeginClearScheduled ==
  ASSUME TypeOK, DeferredScheduled, BeginClear
  PROVE  /\ to_delete'[current'] # <<>> =>
              to_delete[current] # <<>> /\ deferred_deleting
         /\ (~deferred_deleting => to_delete[Other] = <<>>)'
<1>0. current \in 1..2 /\ deferred_deleting \in BOOLEAN
  BY DEF TypeOK
<1>1. CASE deferred_deleting \/ to_delete[current] = <<>>
  BY <1>0, <1>1 DEF BeginClear, deferredVars, DeferredScheduled, Other
<1>2. CASE ~(deferred_deleting \/ to_delete[current] = <<>>)
  <2>1. current' = Other /\ deferred_deleting' = TRUE /\ to_delete' = to_delete
    BY <1>2 DEF BeginClear, Other
  <2>2. to_delete[Other] = <<>>
    BY <1>2 DEF DeferredScheduled
  <2> QED BY <2>1, <2>2
<1> QED BY <1>1, <1>2

\* No step leaves an object in the current vector without a scheduled
\* deferred_delete_cb_.
LEMMA DeferredStep ==
  TypeOK /\ DeferredScheduled /\ [Next]_vars => DeferredScheduled'
<1> SUFFICES ASSUME TypeOK, DeferredScheduled, [Next]_vars
             PROVE  DeferredScheduled'
  OBVIOUS
<1> USE DEF lists, history, loopVars, deferredVars
<1>a. active \in Seq(Event) /\ "deferred" \in Event
  BY DEF TypeOK, Event, Kind
<1>b. ASSUME NEW e \in Event, active' = Activated(e), Armed("deferred") \/ e = "deferred"
      PROVE  Armed("deferred")'
  BY <1>a, <1>b, ActivatedProps, ArmedPrimed
<1>c. ASSUME active' = active, Armed("deferred")
      PROVE  Armed("deferred")'
  BY <1>c DEF Armed
<1>d. ASSUME UNCHANGED <<to_delete, current, deferred_deleting>>,
             Armed("deferred") => Armed("deferred")'
      PROVE  DeferredScheduled'
  BY <1>d DEF DeferredScheduled, Other
<1>e. ASSUME BeginClear, active' = active
      PROVE  DeferredScheduled'
  <2>1. to_delete'[current'] # <<>> => Armed("deferred")'
    BY <1>c, <1>e, BeginClearScheduled DEF DeferredScheduled
  <2> QED BY <1>e, <2>1, BeginClearScheduled DEF DeferredScheduled
<1>1. ASSUME NEW t \in AllThreads, NEW k \in QKind, Push(t, k)
      PROVE  DeferredScheduled'
  BY <1>1, <1>c, <1>d DEF Push
<1>2. ASSUME NEW t \in AllThreads, NEW k \in QKind, CheckEnabled(t, k)
      PROVE  DeferredScheduled'
  BY <1>2, <1>c, <1>d DEF CheckEnabled
<1>3. ASSUME NEW t \in AllThreads, NEW k \in QKind, Activate(t, k)
      PROVE  DeferredScheduled'
  <2>1. k \in Event
    BY DEF Event, Kind
  <2> QED BY <1>3, <1>b, <1>c, <1>d, <2>1 DEF Activate, EventActive
<1>4. ASSUME NEW t \in AllThreads, Exit(t)
      PROVE  DeferredScheduled'
  BY <1>4, <1>b, <1>c, <1>d DEF Exit, EventActive, Event
<1>5. CASE DeferredDelete
  <2>1. current \in 1..2 /\ to_delete \in [1..2 -> Seq(Nat)] /\ Other # current
    BY DEF TypeOK, Other
  <2>2. current' = current /\ deferred_deleting' = deferred_deleting
    BY <1>5 DEF DeferredDelete
  <2>3. to_delete'[Other] = to_delete[Other] /\ Other' = Other
    BY <1>5, <2>1, <2>2 DEF DeferredDelete, Other
  <2>4. Armed("deferred")'
    <3>1. CASE Len(to_delete[current]) = 0
      BY <1>5, <1>a, <1>b, <3>1 DEF DeferredDelete
    <3>2. CASE Len(to_delete[current]) # 0
      <4>1. to_delete[current] # <<>>
        BY <3>2, EmptySeq
      <4> QED BY <1>5, <1>c, <3>2, <4>1 DEF DeferredDelete, DeferredScheduled
    <3> QED BY <3>1, <3>2
  <2> QED BY <2>2, <2>3, <2>4 DEF DeferredScheduled
<1>6. CASE ClearDeferredDeleteList
  BY <1>6, <1>e DEF ClearDeferredDeleteList
<1>7. ASSUME NEW b \in BOOLEAN, Register(b)
      PROVE  DeferredScheduled'
  <2>1. ASSUME Armed("deferred"), active' = Without("event")
        PROVE  Armed("deferred")'
    BY <1>a, <2>1, WithoutProps, ArmedPrimed
  <2> QED BY <1>7, <1>c, <1>d, <2>1 DEF Register
<1>8. CASE ResetElement
  <2>1. current \in 1..2 /\ to_delete \in [1..2 -> Seq(Nat)] /\ Other # current
    BY DEF TypeOK, Other
  <2>2. to_delete'[current] = to_delete[current]
    BY <1>8, <2>1 DEF ResetElement
  <2>3. current' = current /\ deferred_deleting' /\ active' = active
    BY <1>8 DEF ResetElement
  <2> QED BY <1>c, <2>2, <2>3 DEF DeferredScheduled
<1>9. CASE ElementDestroyed
  <2>1. to_delete' = to_delete /\ current' = current /\ active' = active
    BY <1>9 DEF ElementDestroyed
  <2>2. deferred_deleting' <=> to_delete[Other] # <<>>
    BY <1>9 DEF ElementDestroyed
  <2> QED BY <1>c, <2>1, <2>2 DEF DeferredScheduled, Other
<1>10. ASSUME NEW k \in QKind, Take(k)
       PROVE  DeferredScheduled'
  BY <1>10, <1>c, <1>d DEF Take
<1>11. ASSUME NEW k \in QKind, Start(k)
       PROVE  DeferredScheduled'
  BY <1>11, <1>c, <1>d DEF Start
<1>12. ASSUME NEW k \in QKind, Drained(k)
       PROVE  DeferredScheduled'
  BY <1>12, <1>c, <1>d DEF Drained
<1>13. CASE Return
  BY <1>13, <1>c, <1>d DEF Return
<1>14. CASE LoopReturns
  BY <1>14, <1>c, <1>d DEF LoopReturns
<1>15. ASSUME NEW ready \in BOOLEAN, Poll(ready)
       PROVE  DeferredScheduled'
  BY <1>15, <1>b, <1>c, <1>d DEF Poll, Event
<1>16. ASSUME NEW ready \in BOOLEAN, Wake(ready)
       PROVE  DeferredScheduled'
  BY <1>16, <1>b, <1>c, <1>d DEF Wake, Event
<1>17. ASSUME NEW e \in Event, Fire(e)
       PROVE  DeferredScheduled'
  <2>0. ~deferred_deleting
    BY <1>17 DEF Fire, LoopFree
  <2>1. CASE e \in {"post", "deferred"}
    <3>1. to_delete'[current'] = <<>>
      BY <1>17, <2>0, <2>1, BeginClearScheduled DEF Fire
    <3>2. (~deferred_deleting => to_delete[Other] = <<>>)'
      BY <1>17, <2>1, BeginClearScheduled DEF Fire
    <3> QED BY <3>1, <3>2 DEF DeferredScheduled
  <2>2. CASE e \notin {"post", "deferred"}
    <3>1. Armed("deferred") => Armed("deferred")'
      BY <1>17, <1>a, <2>2, TailProps, ArmedPrimed DEF Fire
    <3> QED BY <1>17, <1>d, <2>2, <3>1 DEF Fire
  <2> QED BY <2>1, <2>2
<1>18. CASE WorkDone
  BY <1>18, <1>c, <1>d DEF WorkDone
<1>19. ASSUME NEW t \in RunType, Run(t)
       PROVE  DeferredScheduled'
  BY <1>19, <1>e DEF Run
<1>20. CASE Shutdown
  BY <1>20, <1>c, <1>d DEF Shutdown
<1>21. CASE Destroy
  BY <1>21, <1>c, <1>d DEF Destroy
<1>22. CASE UNCHANGED vars
  BY <1>22, <1>c, <1>d DEF vars
<1> QED
  BY <1>1, <1>2, <1>3, <1>4, <1>5, <1>6, <1>7, <1>8, <1>9, <1>10, <1>11, <1>12,
     <1>13, <1>14, <1>15, <1>16, <1>17, <1>18, <1>19, <1>20, <1>21, <1>22
  DEF Next, Caller, Scheduler, UserOps, LoopStep, Owner

\* Whoever calls clearDeferredDeleteList() and whatever the destructors defer
\* in turn, an object waiting in the current vector always has a scheduled
\* deferred_delete_cb_, and no object is forgotten in the vector that was
\* cleared.
THEOREM DeferredAlwaysScheduled == Spec => []DeferredScheduled
<1>1. Init => DeferredScheduled
  BY DEF Init, DeferredScheduled, Other
<1>2. TypeOK /\ DeferredScheduled /\ [Next]_vars => DeferredScheduled'
  BY DeferredStep
<1> QED BY <1>1, <1>2, TypeCorrect, PTL DEF Spec

------------------------------------------------------------------------------
(* Nothing is lost, duplicated or reordered *)

\* The items of one queue.
LEMMA QueueShapeStep ==
  ASSUME TypeOK, [Next]_vars, NEW q \in QKind, QueueShape(q)
  PROVE  QueueShape(q)'
<1> USE DEF lists, history, loopVars, deferredVars
<1>a. /\ q \in {"post", "delete"} /\ q \in Kind
      /\ queue[q] \in Seq(Nat) /\ batch \in Seq(Nat)
      /\ handed[q] \in Nat /\ delivered[q] \in Nat
      /\ Len(queue[q]) \in Nat /\ Len(batch) \in Nat
      /\ BatchLen(q) \in Nat
  BY DEF TypeOK, QKind, Kind, BatchLen
<1>s. handed[q] = delivered[q] + BatchLen(q) + Len(queue[q])
  BY DEF QueueShape
<1>t. BatchOf(q) => \A i \in 1..Len(batch) : batch[i] = delivered[q] + i
  BY DEF QueueShape
<1>u. \A i \in 1..Len(queue[q]) : queue[q][i] = delivered[q] + BatchLen(q) + i
  BY DEF QueueShape
<1>n. /\ handed[q] \in Nat /\ delivered[q] \in Nat /\ BatchLen(q) \in Nat
      /\ Len(queue[q]) \in Nat /\ Len(batch) \in Nat
  BY <1>a
<1>b. ASSUME queue'[q] = queue[q], batch' = batch,
             handed'[q] = handed[q], delivered'[q] = delivered[q],
             BatchOf(q)' <=> BatchOf(q)
      PROVE  QueueShape(q)'
  <2>1. BatchLen(q)' = BatchLen(q)
    BY <1>b DEF BatchLen
  <2> QED BY <1>b, <2>1 DEF QueueShape
<1>c. ASSUME UNCHANGED <<queue, batch, handed, delivered, pc>>
      PROVE  QueueShape(q)'
  BY <1>b, <1>c DEF BatchOf
<1>1. ASSUME NEW t \in AllThreads, NEW k \in QKind, Push(t, k)
      PROVE  QueueShape(q)'
  <2>1. CASE k # q
    BY <1>1, <1>b, <2>1 DEF Push, TypeOK, BatchOf
  <2>2. CASE k = q
    <3> DEFINE d == delivered[q]
               b == BatchLen(q)
               n == Len(queue[q])
    <3>a. d + b + n + 1 = d + b + (n + 1)
      <4>1. d \in Nat /\ b \in Nat /\ n \in Nat
        BY <1>n
      <4> HIDE DEF d, b, n
      <4> QED BY <4>1
    <3>1. handed'[q] = handed[q] + 1
      BY <1>1, <1>a, <2>2 DEF Push, TypeOK
    <3>2. queue'[q] = Append(queue[q], handed[q] + 1)
      BY <1>1, <1>a, <2>2 DEF Push, TypeOK
    <3>3. delivered'[q] = delivered[q] /\ batch' = batch /\ pc' = pc
      BY <1>1 DEF Push
    <3>4. BatchOf(q)' <=> BatchOf(q)
      BY <3>3 DEF BatchOf
    <3>5. BatchLen(q)' = BatchLen(q)
      BY <3>3, <3>4 DEF BatchLen
    <3>6. Len(queue'[q]) = Len(queue[q]) + 1
      BY <1>a, <3>2, AppendProperties
    <3>7. \A i \in 1..Len(queue[q]) : queue'[q][i] = queue[q][i]
      BY <1>a, <3>2, AppendProperties
    <3>8. queue'[q][Len(queue[q]) + 1] = handed[q] + 1
      BY <1>a, <3>2, AppendProperties
    <3>9. handed'[q] = delivered'[q] + BatchLen(q)' + Len(queue'[q])
      <4>1. handed'[q] = delivered[q] + BatchLen(q) + Len(queue[q]) + 1
        BY <1>s, <3>1
      <4>2. @ = delivered[q] + BatchLen(q) + (Len(queue[q]) + 1)
        BY <3>a
      <4> QED BY <3>3, <3>5, <3>6, <4>1, <4>2
    <3>10. ASSUME NEW i \in 1..Len(queue'[q])
           PROVE  queue'[q][i] = delivered'[q] + BatchLen(q)' + i
      <4>1. CASE i = Len(queue[q]) + 1
        <5>1. queue'[q][i] = delivered[q] + BatchLen(q) + Len(queue[q]) + 1
          BY <1>s, <3>8, <4>1
        <5>2. delivered[q] + BatchLen(q) + Len(queue[q]) + 1 = delivered[q] + BatchLen(q) + i
          BY <3>a, <4>1
        <5> QED BY <3>3, <3>5, <5>1, <5>2
      <4>2. CASE i \in 1..Len(queue[q])
        BY <1>u, <3>3, <3>5, <3>7, <4>2
      <4> QED BY <1>n, <3>6, <3>10, <4>1, <4>2
    <3> QED BY <1>t, <3>3, <3>4, <3>9, <3>10 DEF QueueShape
  <2> QED BY <2>1, <2>2
<1>2. ASSUME NEW k \in QKind, Take(k)
      PROVE  QueueShape(q)'
  <2>1. /\ ~BatchOf(q) /\ BatchLen(q) = 0
        /\ handed' = handed /\ delivered' = delivered
    BY <1>2, <1>a DEF Take, BatchOf, BatchLen, QKind
  <2>2. CASE k # q
    <3>1. ~BatchOf(q)' /\ BatchLen(q)' = 0 /\ queue'[q] = queue[q]
      BY <1>2, <1>a, <2>2 DEF Take, BatchOf, BatchLen, QKind, TypeOK
    <3> QED BY <2>1, <3>1 DEF QueueShape
  <2>3. CASE k = q
    <3>1. /\ queue'[q] = <<>> /\ batch' = queue[q]
          /\ BatchOf(q)' /\ BatchLen(q)' = Len(queue[q])
      BY <1>2, <1>a, <2>3 DEF Take, BatchOf, BatchLen, QKind, TypeOK
    <3>2. Len(queue'[q]) = 0
      BY <3>1, EmptySeq
    <3> QED BY <1>a, <2>1, <3>1, <3>2 DEF QueueShape
  <2> QED BY <2>2, <2>3
<1>3. ASSUME NEW k \in QKind, Start(k)
      PROVE  QueueShape(q)'
  <2>1. CASE k # q
    <3>1. ~BatchOf(q) /\ ~BatchOf(q)' /\ BatchLen(q) = 0 /\ BatchLen(q)' = 0
      <4>1. pc = k /\ pc' = (IF k = "post" THEN "callback" ELSE "destructor")
        BY <1>3 DEF Start
      <4>2. ~BatchOf(q) /\ ~BatchOf(q)'
        <5>1. CASE k = "post"
          BY <1>a, <2>1, <4>1, <5>1 DEF BatchOf
        <5>2. CASE k = "delete"
          BY <1>a, <2>1, <4>1, <5>2 DEF BatchOf
        <5> QED BY <5>1, <5>2 DEF QKind
      <4> QED BY <4>2 DEF BatchLen
    <3>2. queue' = queue /\ handed' = handed /\ delivered'[q] = delivered[q]
      BY <1>3, <2>1, <1>a DEF Start, TypeOK
    <3> QED BY <3>1, <3>2 DEF QueueShape
  <2>2. CASE k = q
    <3>1. BatchOf(q) /\ BatchOf(q)' /\ batch # <<>>
      BY <1>3, <1>a, <2>2 DEF Start, BatchOf
    <3>2. batch' = Tail(batch) /\ queue' = queue /\ handed' = handed
      BY <1>3 DEF Start
    <3>3. Len(batch') = Len(batch) - 1 /\ Len(batch) # 0
      BY <1>a, <3>1, <3>2, HeadTailProperties, EmptySeq
    <3>4. \A i \in 1..(Len(batch) - 1) : batch'[i] = batch[i + 1]
      BY <1>a, <3>1, <3>2, HeadTailProperties
    <3>5. delivered'[q] = delivered[q] + 1
      <4>1. delivered'[q] = batch[1]
        BY <1>3, <1>a, <2>2 DEF Start, TypeOK
      <4>2. 1 \in 1..Len(batch)
        BY <1>n, <3>3
      <4> QED BY <1>t, <3>1, <4>1, <4>2
    <3>6. BatchLen(q) = Len(batch) /\ BatchLen(q)' = Len(batch) - 1
      BY <3>1, <3>3 DEF BatchLen
    <3>7. ASSUME NEW i \in 1..Len(batch')
          PROVE  batch'[i] = delivered'[q] + i
      <4>1. i + 1 \in 1..Len(batch) /\ i \in 1..(Len(batch) - 1)
        BY <1>n, <3>3
      <4>2. batch'[i] = delivered[q] + (i + 1)
        BY <1>t, <3>1, <3>4, <4>1
      <4>3. delivered[q] + (i + 1) = (delivered[q] + 1) + i
        BY <1>n, <4>1
      <4> QED BY <3>5, <4>2, <4>3
    <3>8. delivered'[q] + BatchLen(q)' = delivered[q] + BatchLen(q)
      BY <1>n, <3>5, <3>6
    <3>9. /\ handed'[q] = delivered'[q] + BatchLen(q)' + Len(queue'[q])
          /\ \A i \in 1..Len(queue'[q]) : queue'[q][i] = delivered'[q] + BatchLen(q)' + i
      BY <1>s, <1>u, <3>2, <3>8
    <3> QED BY <3>7, <3>9 DEF QueueShape
  <2> QED BY <2>1, <2>2
<1>4. ASSUME NEW k \in QKind, Drained(k)
      PROVE  QueueShape(q)'
  <2>1. /\ UNCHANGED <<queue, batch, handed, delivered>>
        /\ BatchLen(q) = 0 /\ BatchLen(q)' = 0 /\ ~BatchOf(q)'
    <3>1. Len(batch) = 0 /\ batch' = batch
      BY <1>4, EmptySeq DEF Drained
    <3>2. UNCHANGED <<queue, handed, delivered>> /\ ~BatchOf(q)'
      BY <1>4, <1>a DEF Drained, BatchOf
    <3> QED BY <3>1, <3>2 DEF BatchLen
  <2> QED BY <2>1 DEF QueueShape
<1>5. CASE Return
  <2>1. UNCHANGED <<queue, batch, handed, delivered>> /\ (BatchOf(q)' <=> BatchOf(q))
    BY <1>5, <1>a DEF Return, BatchOf
  <2> QED BY <1>b, <2>1
<1>6. CASE ResetElement
  <2>1. UNCHANGED <<queue, batch, handed, pc>> /\ delivered'[q] = delivered[q]
    BY <1>6, <1>a DEF ResetElement, TypeOK
  <2> QED BY <1>b, <2>1 DEF BatchOf
<1>7. CASE DeferredDelete
  <2>1. UNCHANGED <<queue, batch, delivered, pc>> /\ handed'[q] = handed[q]
    BY <1>7, <1>a DEF DeferredDelete, TypeOK
  <2> QED BY <1>b, <2>1 DEF BatchOf
\* The steps of the loop that move its thread between places with no batch.
<1>8. ASSUME UNCHANGED <<queue, batch, handed, delivered>>, ~BatchOf(q), ~BatchOf(q)'
      PROVE  QueueShape(q)'
  BY <1>8, <1>b
<1>9. CASE LoopReturns
  BY <1>9, <1>8, <1>a DEF LoopReturns, BatchOf
<1>10. ASSUME NEW ready \in BOOLEAN, Poll(ready)
       PROVE  QueueShape(q)'
  BY <1>10, <1>8, <1>a DEF Poll, BatchOf
<1>11. ASSUME NEW ready \in BOOLEAN, Wake(ready)
       PROVE  QueueShape(q)'
  BY <1>11, <1>8, <1>a DEF Wake, BatchOf
<1>12. ASSUME NEW e \in Event, Fire(e)
       PROVE  QueueShape(q)'
  BY <1>12, <1>8, <1>a DEF Fire, BatchOf
<1>13. CASE WorkDone
  BY <1>13, <1>8, <1>a DEF WorkDone, BatchOf
<1>14. ASSUME NEW t \in RunType, Run(t)
       PROVE  QueueShape(q)'
  BY <1>14, <1>8, <1>a DEF Run, BatchOf
<1>15. CASE Shutdown
  BY <1>15, <1>8, <1>a DEF Shutdown, BatchOf
<1>16. CASE Destroy
  BY <1>16, <1>8, <1>a DEF Destroy, BatchOf
\* The steps that touch neither the queues nor the loop's place.
<1>17. ASSUME NEW t \in AllThreads, NEW k \in QKind, CheckEnabled(t, k) \/ Activate(t, k)
       PROVE  QueueShape(q)'
  BY <1>17, <1>c DEF CheckEnabled, Activate
<1>18. ASSUME NEW t \in AllThreads, Exit(t)
       PROVE  QueueShape(q)'
  BY <1>18, <1>c DEF Exit
<1>19. CASE ClearDeferredDeleteList \/ ElementDestroyed
  BY <1>19, <1>c DEF ClearDeferredDeleteList, ElementDestroyed
<1>20. ASSUME NEW b \in BOOLEAN, Register(b)
       PROVE  QueueShape(q)'
  BY <1>20, <1>c DEF Register
<1>21. CASE UNCHANGED vars
  BY <1>21, <1>c DEF vars
<1> QED
  BY <1>1, <1>2, <1>3, <1>4, <1>5, <1>6, <1>7, <1>9, <1>10, <1>11, <1>12, <1>13,
     <1>14, <1>15, <1>16, <1>17, <1>18, <1>19, <1>20, <1>21
  DEF Next, Caller, Scheduler, UserOps, LoopStep, Owner

\* The objects in the two vectors.
LEMMA DeferredShapeStep ==
  ASSUME TypeOK, DeferredScheduled, [Next]_vars, DeferredShape
  PROVE  DeferredShape'
<1> USE DEF lists, history, loopVars, deferredVars
<1> DEFINE h == handed["deferred"]
           d == delivered["deferred"]
           o == to_delete[Other]
           c == to_delete[current]
<1>a. /\ h \in Nat /\ d \in Nat /\ "deferred" \in Kind
      /\ current \in 1..2 /\ Other \in 1..2 /\ Other # current
      /\ o \in Seq(Nat) /\ c \in Seq(Nat)
  <2>1. "deferred" \in Kind
    BY DEF Kind
  <2>2. current \in 1..2 /\ Other \in 1..2 /\ Other # current
    BY DEF TypeOK, Other
  <2> QED BY <2>1, <2>2 DEF TypeOK
<1>n. Len(o) \in Nat /\ Len(c) \in Nat
  BY <1>a, LenProperties
<1>s. h = d + Len(o) + Len(c)
  BY DEF DeferredShape
<1>t. \A i \in 1..Len(o) : o[i] = d + i
  BY DEF DeferredShape
<1>u. \A i \in 1..Len(c) : c[i] = d + Len(o) + i
  BY DEF DeferredShape
<1>b. ASSUME UNCHANGED <<to_delete, current>>, h' = h, d' = d
      PROVE  DeferredShape'
  BY <1>b DEF DeferredShape, Other
<1>c. ASSUME BeginClear, h' = h, d' = d
      PROVE  DeferredShape'
  <2>1. CASE deferred_deleting \/ to_delete[current] = <<>>
    BY <1>b, <1>c, <2>1 DEF BeginClear
  <2>2. CASE ~(deferred_deleting \/ to_delete[current] = <<>>)
    <3>1. current' = Other /\ to_delete' = to_delete /\ Other' = current
      BY <1>a, <1>c, <2>2 DEF BeginClear, Other
    <3>2. Len(o) = 0
      BY <2>2, EmptySeq DEF DeferredScheduled
    <3>3. o' = c /\ c' = o
      BY <3>1
    <3>4. h' = d' + Len(o') + Len(c')
      BY <1>a, <1>c, <1>n, <1>s, <3>2, <3>3
    <3>5. \A i \in 1..Len(o') : o'[i] = d' + i
      BY <1>a, <1>c, <1>u, <3>2, <3>3
    <3>6. \A i \in 1..Len(c') : c'[i] = d' + Len(o') + i
      BY <3>2, <3>3
    <3> QED BY <3>4, <3>5, <3>6 DEF DeferredShape
  <2> QED BY <2>1, <2>2
<1>1. CASE DeferredDelete
  <2>1. current' = current /\ Other' = Other /\ d' = d
    BY <1>1 DEF DeferredDelete, Other
  <2>2. h' = h + 1
    BY <1>1, <1>a DEF DeferredDelete, TypeOK
  <2>3. o' = o
    BY <1>1, <1>a, <2>1 DEF DeferredDelete, TypeOK
  <2>4. c' = Append(c, h + 1)
    BY <1>1, <1>a, <2>1 DEF DeferredDelete, TypeOK
  <2>5. Len(c') = Len(c) + 1
    BY <1>a, <2>4, AppendProperties
  <2>6. \A i \in 1..Len(c) : c'[i] = c[i]
    BY <1>a, <2>4, AppendProperties
  <2>7. c'[Len(c) + 1] = h + 1
    BY <1>a, <2>4, AppendProperties
  <2> HIDE DEF h, d, o, c
  <2>8. h' = d' + Len(o') + Len(c')
    BY <1>a, <1>n, <1>s, <2>1, <2>2, <2>3, <2>5
  <2>9. ASSUME NEW i \in 1..Len(c')
        PROVE  c'[i] = d' + Len(o') + i
    <3>1. CASE i = Len(c) + 1
      <4>1. c'[i] = d + Len(o) + Len(c) + 1
        BY <1>s, <2>7, <3>1
      <4>2. d + Len(o) + Len(c) + 1 = d + Len(o) + i
        BY <1>a, <1>n, <3>1
      <4> QED BY <2>1, <2>3, <4>1, <4>2
    <3>2. CASE i \in 1..Len(c)
      BY <1>u, <2>1, <2>3, <2>6, <3>2
    <3> QED BY <1>n, <2>5, <2>9, <3>1, <3>2
  <2>10. \A i \in 1..Len(o') : o'[i] = d' + i
    BY <1>t, <2>1, <2>3
  <2> QED BY <2>8, <2>9, <2>10 DEF DeferredShape, h, d, o, c
<1>2. CASE ResetElement
  <2>1. current' = current /\ Other' = Other /\ h' = h /\ o # <<>>
    BY <1>2 DEF ResetElement, Other
  <2>2. c' = c
    BY <1>2, <1>a, <2>1 DEF ResetElement, TypeOK
  <2>3. o' = Tail(o)
    BY <1>2, <1>a, <2>1 DEF ResetElement, TypeOK
  <2>4. Len(o') = Len(o) - 1 /\ Len(o) # 0
    BY <1>a, <2>1, <2>3, HeadTailProperties, EmptySeq
  <2>5. \A i \in 1..(Len(o) - 1) : o'[i] = o[i + 1]
    BY <1>a, <2>1, <2>3, HeadTailProperties
  <2>6. d' = d + 1
    <3>1. d' = o[1]
      BY <1>2, <1>a DEF ResetElement, TypeOK
    <3>2. 1 \in 1..Len(o)
      BY <1>n, <2>4
    <3> QED BY <1>t, <3>1, <3>2
  <2> HIDE DEF h, d, o, c
  <2>7. d' + Len(o') = d + Len(o)
    BY <1>a, <1>n, <2>4, <2>6
  <2>8. h' = d' + Len(o') + Len(c')
    BY <1>s, <2>1, <2>2, <2>7
  <2>9. ASSUME NEW i \in 1..Len(o')
        PROVE  o'[i] = d' + i
    <3>1. i + 1 \in 1..Len(o) /\ i \in 1..(Len(o) - 1)
      BY <1>n, <2>4
    <3>2. o'[i] = d + (i + 1)
      BY <1>t, <2>5, <3>1
    <3>3. d + (i + 1) = (d + 1) + i
      BY <1>a, <3>1, <1>n
    <3> QED BY <2>6, <3>2, <3>3
  <2>10. \A i \in 1..Len(c') : c'[i] = d' + Len(o') + i
    BY <1>u, <2>2, <2>7
  <2> QED BY <2>8, <2>9, <2>10 DEF DeferredShape, h, d, o, c
<1>3. ASSUME NEW t \in AllThreads, NEW k \in QKind, Push(t, k)
      PROVE  DeferredShape'
  <2>1. h' = h
    BY <1>3 DEF Push, TypeOK, QKind, Kind
  <2> QED BY <1>3, <1>b, <2>1 DEF Push
<1>4. ASSUME NEW k \in QKind, Start(k)
      PROVE  DeferredShape'
  <2>1. d' = d
    BY <1>4 DEF Start, TypeOK, QKind, Kind
  <2> QED BY <1>4, <1>b, <2>1 DEF Start
<1>5. ASSUME NEW e \in Event, Fire(e)
      PROVE  DeferredShape'
  BY <1>5, <1>b, <1>c DEF Fire
<1>6. ASSUME NEW t \in RunType, Run(t)
      PROVE  DeferredShape'
  BY <1>6, <1>c DEF Run
<1>7. CASE ClearDeferredDeleteList
  BY <1>7, <1>c DEF ClearDeferredDeleteList
\* The other steps touch neither the vectors nor the counts.
<1>8. ASSUME NEW t \in AllThreads, NEW k \in QKind, CheckEnabled(t, k) \/ Activate(t, k)
      PROVE  DeferredShape'
  BY <1>8, <1>b DEF CheckEnabled, Activate
<1>9. ASSUME NEW t \in AllThreads, Exit(t)
      PROVE  DeferredShape'
  BY <1>9, <1>b DEF Exit
<1>10. ASSUME NEW b \in BOOLEAN, Register(b)
       PROVE  DeferredShape'
  BY <1>10, <1>b DEF Register
<1>11. ASSUME NEW k \in QKind, Take(k) \/ Drained(k)
       PROVE  DeferredShape'
  BY <1>11, <1>b DEF Take, Drained
<1>12. ASSUME NEW ready \in BOOLEAN, Poll(ready) \/ Wake(ready)
       PROVE  DeferredShape'
  BY <1>12, <1>b DEF Poll, Wake
<1>13. CASE ElementDestroyed \/ Return \/ LoopReturns \/ WorkDone \/ Shutdown \/ Destroy
  BY <1>13, <1>b
  DEF ElementDestroyed, Return, LoopReturns, WorkDone, Shutdown, Destroy
<1>14. CASE UNCHANGED vars
  BY <1>14, <1>b DEF vars
<1> QED
  BY <1>1, <1>2, <1>3, <1>4, <1>5, <1>6, <1>7, <1>8, <1>9, <1>10, <1>11, <1>12,
     <1>13, <1>14
  DEF Next, Caller, Scheduler, UserOps, LoopStep, Owner

\* After ~DispatcherImpl() nothing moves in the dispatcher any more.
LEMMA DestroyedStep ==
  ASSUME TypeOK, [Next]_vars, pc = "destroyed" => ~deferred_deleting
  PROVE  (pc = "destroyed" => ~deferred_deleting)'
<1> USE DEF lists, history, loopVars, deferredVars
<1>1. CASE pc = "destroyed"
  <2>1. ~deferred_deleting
    BY <1>1
  <2>2. ~(\E t \in AllThreads : Caller(t)) /\ ~UserOps
    BY <1>1 DEF Caller, Push, Exit, MayCall, UserOps, DeferredDelete,
                ClearDeferredDeleteList, Register
  <2>3. ~LoopStep /\ ~Wake(TRUE) /\ ~Owner
    BY <1>1, <2>1
    DEF LoopStep, ResetElement, ElementDestroyed, Take, Start, Drained, Return,
        LoopReturns, Poll, Wake, Fire, WorkDone, Owner, Run, Shutdown, Destroy, QKind
  <2>4. ASSUME NEW t \in AllThreads, Scheduler(t)
        PROVE  deferred_deleting' = deferred_deleting
    BY <2>4 DEF Scheduler, CheckEnabled, Activate
  <2>5. CASE UNCHANGED vars
    BY <2>1, <2>5 DEF vars
  <2> QED BY <2>1, <2>2, <2>3, <2>4, <2>5 DEF Next
<1>2. CASE pc # "destroyed" /\ pc' = "destroyed"
  <2>1. Destroy
    BY <1>2
    DEF Next, Caller, Push, Exit, Scheduler, CheckEnabled, Activate, UserOps,
        DeferredDelete, ClearDeferredDeleteList, Register, LoopStep, ResetElement,
        ElementDestroyed, Take, Start, Drained, Return, LoopReturns, Poll, Wake, Fire,
        WorkDone, Owner, Run, Shutdown, vars, QKind
  <2> QED BY <2>1 DEF Destroy, LoopFree
<1> QED BY <1>1, <1>2

\* Every item handed over and not yet consumed is in the dispatcher exactly
\* once and in submission order.
THEOREM NothingIsLostOrReordered == Spec => []NothingLostOrReordered
<1>1. Init => NothingLostOrReordered
  BY DEF Init, NothingLostOrReordered, QueueShape, DeferredShape, BatchLen, BatchOf,
         Other, QKind, Kind
<1>2. TypeOK /\ DeferredScheduled /\ NothingLostOrReordered /\ [Next]_vars
        => NothingLostOrReordered'
  BY QueueShapeStep, DeferredShapeStep, DestroyedStep DEF NothingLostOrReordered
<1> QED BY <1>1, <1>2, TypeCorrect, DeferredAlwaysScheduled, PTL DEF Spec

------------------------------------------------------------------------------
(* Refinement *)

\* Running a callback or destroying an object consumes the oldest item of its
\* kind that is still there.
LEMMA DeliverStep ==
  ASSUME TypeOK, NothingLostOrReordered
  PROVE  /\ \A k \in QKind : Start(k) => M!Deliver(k)
         /\ ResetElement => M!Deliver("deferred")
<1> USE DEF lists, history, loopVars, deferredVars
<1>1. ASSUME NEW k \in QKind, Start(k)
      PROVE  M!Deliver(k)
  <2>1. k \in Kind /\ batch \in Seq(Nat) /\ queue[k] \in Seq(Nat)
        /\ delivered[k] \in Nat /\ handed[k] \in Nat
    BY DEF TypeOK, Kind
  <2>2. BatchOf(k) /\ QueueShape(k) /\ batch # <<>>
    BY <1>1 DEF Start, BatchOf, QKind, NothingLostOrReordered
  <2>3. Len(batch) \in Nat /\ Len(batch) # 0 /\ Len(queue[k]) \in Nat
    BY <2>1, <2>2, LenProperties, EmptySeq
  <2>4. Head(batch) = delivered[k] + 1
    <3>1. Head(batch) = batch[1]
      BY <2>1, <2>2, HeadTailProperties
    <3> QED BY <2>2, <2>3, <3>1 DEF QueueShape
  <2>5. handed[k] = delivered[k] + Len(batch) + Len(queue[k])
    BY <2>2 DEF QueueShape, BatchLen
  <2>6. delivered[k] < handed[k]
    BY <2>1, <2>3, <2>5
  <2>7. delivered' = [delivered EXCEPT ![k] = @ + 1]
    BY <1>1, <2>4 DEF Start
  <2>8. pc # "destroyed" /\ pc' # "destroyed" /\ UNCHANGED handed
    BY <1>1 DEF Start, QKind
  <2> QED BY <2>6, <2>7, <2>8 DEF M!Deliver
<1>2. ASSUME ResetElement
      PROVE  M!Deliver("deferred")
  <2>1. /\ "deferred" \in Kind
        /\ delivered["deferred"] \in Nat /\ handed["deferred"] \in Nat
        /\ to_delete[Other] \in Seq(Nat) /\ to_delete[current] \in Seq(Nat)
    <3>1. "deferred" \in Kind
      BY DEF Kind
    <3>2. current \in 1..2 /\ Other \in 1..2
      BY DEF TypeOK, Other
    <3> QED BY <3>1, <3>2 DEF TypeOK
  <2>2. DeferredShape /\ to_delete[Other] # <<>>
    BY <1>2 DEF ResetElement, NothingLostOrReordered
  <2>3. /\ Len(to_delete[Other]) \in Nat /\ Len(to_delete[Other]) # 0
        /\ Len(to_delete[current]) \in Nat
    BY <2>1, <2>2, LenProperties, EmptySeq
  <2>4. Head(to_delete[Other]) = delivered["deferred"] + 1
    <3>1. Head(to_delete[Other]) = to_delete[Other][1]
      BY <2>1, <2>2, HeadTailProperties
    <3> QED BY <2>2, <2>3, <3>1 DEF DeferredShape
  <2>5. delivered["deferred"] < handed["deferred"]
    BY <2>1, <2>2, <2>3 DEF DeferredShape
  <2>6. delivered' = [delivered EXCEPT !["deferred"] = @ + 1]
    BY <1>2, <2>4 DEF ResetElement
  <2>7. pc # "destroyed" /\ pc' = pc /\ UNCHANGED handed
    BY <1>2 DEF ResetElement, NothingLostOrReordered
  <2> QED BY <2>5, <2>6, <2>7 DEF M!Deliver
<1> QED BY <1>1, <1>2

\* The dispatcher implements the three mailboxes: every callback runs once and
\* every object is destroyed once, in submission order, whatever batches,
\* vector swaps and re-entrant calls they go through.
THEOREM ImplementsMailbox == Spec => MailboxSpec
<1>1. Init => M!Init
  BY DEF Init, M!Init
<1>2. TypeOK /\ NothingLostOrReordered /\ [Next]_vars => [M!Next]_(M!vars)
  <2> SUFFICES ASSUME TypeOK, NothingLostOrReordered, [Next]_vars
               PROVE  M!Next \/ UNCHANGED M!vars
    OBVIOUS
  <2> USE DEF lists, history, loopVars, deferredVars
  \* Steps that neither hand over nor consume anything.
  <2>0. ASSUME UNCHANGED <<handed, delivered>>, pc # "destroyed", pc' # "destroyed"
        PROVE  UNCHANGED M!vars
    BY <2>0 DEF M!vars
  <2>1. ASSUME NEW t \in AllThreads, NEW k \in QKind, Push(t, k)
        PROVE  M!Next
    <3>1. M!Submit(k)
      BY <2>1 DEF Push, MayCall, M!Submit
    <3> QED BY <3>1 DEF M!Next, Kind
  <2>2. CASE DeferredDelete
    <3>1. M!Submit("deferred")
      BY <2>2 DEF DeferredDelete, MayCall, M!Submit
    <3> QED BY <3>1 DEF M!Next, Kind
  <2>3. ASSUME NEW k \in QKind, Start(k)
        PROVE  M!Next
    BY <2>3, DeliverStep DEF M!Next, Kind
  <2>4. CASE ResetElement
    BY <2>4, DeliverStep DEF M!Next, Kind
  <2>5. CASE Destroy
    <3>1. M!Close
      BY <2>5 DEF Destroy, M!Close
    <3> QED BY <3>1 DEF M!Next
  <2>6. ASSUME NEW t \in AllThreads, NEW k \in QKind, CheckEnabled(t, k) \/ Activate(t, k)
        PROVE  UNCHANGED M!vars
    BY <2>6 DEF CheckEnabled, Activate, M!vars
  <2>7. ASSUME NEW t \in AllThreads, Exit(t)
        PROVE  UNCHANGED M!vars
    BY <2>7 DEF Exit, M!vars
  <2>8. CASE ClearDeferredDeleteList \/ ElementDestroyed
    BY <2>8 DEF ClearDeferredDeleteList, ElementDestroyed, M!vars
  <2>9. ASSUME NEW b \in BOOLEAN, Register(b)
        PROVE  UNCHANGED M!vars
    BY <2>9 DEF Register, M!vars
  <2>10. ASSUME NEW k \in QKind, Take(k) \/ Drained(k)
         PROVE  UNCHANGED M!vars
    BY <2>0, <2>10 DEF Take, Drained, QKind
  <2>11. CASE Return \/ LoopReturns \/ WorkDone \/ Shutdown
    BY <2>0, <2>11 DEF Return, LoopReturns, WorkDone, Shutdown
  <2>12. ASSUME NEW ready \in BOOLEAN, Poll(ready) \/ Wake(ready)
         PROVE  UNCHANGED M!vars
    BY <2>0, <2>12 DEF Poll, Wake
  <2>13. ASSUME NEW e \in Event, Fire(e)
         PROVE  UNCHANGED M!vars
    BY <2>0, <2>13 DEF Fire
  <2>14. ASSUME NEW t \in RunType, Run(t)
         PROVE  UNCHANGED M!vars
    BY <2>0, <2>14 DEF Run
  <2>15. CASE UNCHANGED vars
    BY <2>15 DEF vars, M!vars
  <2> QED
    BY <2>1, <2>2, <2>3, <2>4, <2>5, <2>6, <2>7, <2>8, <2>9, <2>10, <2>11, <2>12,
       <2>13, <2>14, <2>15
    DEF Next, Caller, Scheduler, UserOps, LoopStep, Owner
<1> QED BY <1>1, <1>2, TypeCorrect, NothingIsLostOrReordered, PTL
        DEF Spec, MailboxSpec, M!Spec
==============================================================================
