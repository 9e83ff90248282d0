----------------------------- MODULE CommonProofs -----------------------------
(***************************************************************************)
(* Proofs about what the other parts of the program share. Modules Locks   *)
(* and Threads, for any number of threads and slots and any nesting: a     *)
(* guard unlocks what it locked, once, unless a second tryLock() makes it  *)
(* forget, an object that several threads ask for at the same time is made *)
(* once, and the checks for the main thread are exact. Then modules        *)
(* IntervalSet, RandomGenerator and TrieLookupTable, for values, pools and *)
(* keys of any size.                                                       *)
(***************************************************************************)
EXTENDS Locks, Sequences, FiniteSetTheorems, FunctionTheorems, WellFoundedInduction, TLAPS

------------------------------------------------------------------------------
(* Guards *)

Kinds == {"none", "lock", "optional", "releasable", "try"}

GuardTypes ==
  /\ holder \in Thread \cup {NoThread}
  /\ guard \in [Thread -> [kind : Kinds, unlocks : BOOLEAN]]

GuardInv == GuardTypes /\ GuardsOwnTheirLock

\* No mutex is held before there is a guard.
LEMMA GuardInit ==
  ASSUME ThreadIds, Init
  PROVE  GuardInv
BY DEF ThreadIds, Init, GuardInv, GuardTypes, GuardsOwnTheirLock, NoGuard, Kinds

\* Every step of a guard keeps the mutex with the thread that is to unlock it, or that
\* forgot to.
LEMMA GuardStep ==
  ASSUME ThreadIds, GuardInv, [Next]_vars
  PROVE  GuardInv'
<1> USE DEF GuardInv, GuardTypes, GuardsOwnTheirLock
<1>1. CASE UNCHANGED guardVars
  BY <1>1 DEF guardVars
<1>2. ASSUME NEW t \in Thread, NEW kind \in {"lock", "optional", "releasable"},
             LockGuard(t, kind)
      PROVE  GuardInv'
  BY <1>2 DEF LockGuard, ThreadIds, NoGuard, Kinds
<1>3. ASSUME NEW t \in Thread, NEW kind \in {"optional", "try"}, GuardWithoutLock(t, kind)
      PROVE  GuardInv'
  BY <1>3 DEF GuardWithoutLock, NoGuard, Kinds
<1>4. ASSUME NEW t \in Thread, TryLock(t)
      PROVE  GuardInv'
  BY <1>4 DEF TryLock, ThreadIds
<1>5. ASSUME NEW t \in Thread, Release(t)
      PROVE  GuardInv'
  BY <1>5 DEF Release, AfterRelease, ThreadIds
<1>6. ASSUME NEW t \in Thread, DestroyGuard(t)
      PROVE  GuardInv'
  BY <1>6 DEF DestroyGuard, ThreadIds, NoGuard, Kinds
<1>7. ObjectNext \/ UNCHANGED vars => UNCHANGED guardVars
  BY DEF ObjectNext, vars, guardVars, Get, LockAndLoad, Unlock, Return, Make, CallOnce,
         Create, DestroyArray
<1> QED
  BY <1>1, <1>2, <1>3, <1>4, <1>5, <1>6, <1>7 DEF Next, GuardNext

\* LockGuard, OptionalLockGuard, TryLockGuard and ReleasableLockGuard: at any time
\* the mutex is held exactly by the thread whose guard is still to unlock it, so no
\* guard unlocks it for another thread and none forgets to, but for a TryLockGuard whose
\* tryLock() was called again while it held the mutex: that thread keeps it for good.
THEOREM GuardsHoldTheirLock ==
  ASSUME ThreadIds
  PROVE  Spec => []GuardsOwnTheirLock
<1>1. Init => GuardInv
  BY GuardInit
<1>2. GuardInv /\ [Next]_vars => GuardInv'
  BY GuardStep
<1>3. GuardInv => GuardsOwnTheirLock
  BY DEF GuardInv
<1> QED
  BY <1>1, <1>2, <1>3, PTL DEF Spec

------------------------------------------------------------------------------
(* Objects *)

ArrayTypes ==
  /\ data \in [Index -> Nat]
  /\ mutex \in Thread \cup {NoThread}
  /\ call \in [Thread -> [pc : {"out", "lock", "make", "unlock", "return"}, slot : Index]]
  /\ got \in [Thread -> {<<>>} \cup (Index \X Nat)]
  /\ made \in [Index -> SUBSET Nat]
  /\ deleted \in SUBSET Nat
  /\ instance \in Nat

\* mutex_ is held from the load under the lock to the end of the block, and what that
\* load saw stays true as long as it is held.
LockProtects ==
  /\ \A t \in Thread : mutex = t <=> call[t].pc \in {"make", "unlock"}
  /\ \A t \in Thread : call[t].pc = "make" => data[call[t].slot] = 0

\* call_once() lets one thread in, and the others wait.
CreatedOnce ==
  IF once = "done" THEN instance = 1 ELSE instance = 0 /\ once \in Thread \cup {"no"}

ObjectInv == ArrayTypes /\ LockProtects /\ CreatedOnce /\ ObjectsAreMadeOnce

\* Finitely many objects have been made: their number is a number.
LEMMA CountMade ==
  ASSUME Slots, ArrayTypes, ObjectsAreMadeOnce
  PROVE  Cardinality(UNION {made[j] : j \in Index}) \in Nat
<1> DEFINE image == {data[i] : i \in Index}
<1>1. IsFiniteSet(image)
  <2>1. data \in [Index -> image] /\ \A y \in image : \E i \in Index : data[i] = y
    BY DEF ArrayTypes
  <2> HIDE DEF image
  <2>2. data \in Surjection(Index, image)
    BY <2>1, Fun_IsSurj
  <2> QED
    BY <2>2, FS_Surjection DEF Slots
<1>2. UNION {made[j] : j \in Index} \in SUBSET image
  BY DEF ObjectsAreMadeOnce
<1> HIDE DEF image
<1>3. IsFiniteSet(UNION {made[j] : j \in Index})
  BY <1>1, <1>2, FS_Subset
<1> QED
  BY <1>3, FS_CardinalityType

\* Nothing is made before the first get().
LEMMA ObjectInit ==
  ASSUME ThreadIds, Slots, Init
  PROVE  ObjectInv
<1> DEFINE first == CHOOSE i \in Index : TRUE
<1>1. first \in Index
  BY DEF Slots
<1> HIDE DEF first
<1>2. ArrayTypes
  BY <1>1 DEF Init, ArrayTypes, first
<1>3. LockProtects /\ CreatedOnce
  BY DEF Init, LockProtects, CreatedOnce, ThreadIds
<1>4. ObjectsAreMadeOnce
  BY DEF Init, ObjectsAreMadeOnce
<1> QED
  BY <1>2, <1>3, <1>4 DEF ObjectInv

\* Every step keeps each slot with the one object that was made for it.
LEMMA ObjectStep ==
  ASSUME ThreadIds, Slots, ObjectInv, [Next]_vars
  PROVE  ObjectInv'
<1>1. ArrayTypes /\ LockProtects /\ CreatedOnce /\ ObjectsAreMadeOnce
  BY DEF ObjectInv
<1> USE DEF At, Go, guardVars, arrayVars, onceVars
<1>2. CASE UNCHANGED <<arrayVars, onceVars>>
  BY <1>1, <1>2 DEF ObjectInv, ArrayTypes, LockProtects, CreatedOnce, ObjectsAreMadeOnce
<1>3. ASSUME NEW t \in Thread, NEW i \in Index, Get(t, i)
      PROVE  ObjectInv'
  <2>1. ArrayTypes'
    BY <1>1, <1>3 DEF Get, ArrayTypes
  <2>2. LockProtects'
    BY <1>1, <1>3 DEF Get, ArrayTypes, LockProtects
  <2> QED
    BY <1>1, <1>3, <2>1, <2>2 DEF Get, ObjectInv, CreatedOnce, ObjectsAreMadeOnce
<1>4. ASSUME NEW t \in Thread, LockAndLoad(t)
      PROVE  ObjectInv'
  <2>1. ArrayTypes'
    BY <1>1, <1>4 DEF LockAndLoad, ArrayTypes
  <2>2. LockProtects'
    BY <1>1, <1>4 DEF LockAndLoad, StillMissing, ArrayTypes, LockProtects, ThreadIds
  <2> QED
    BY <1>1, <1>4, <2>1, <2>2 DEF LockAndLoad, ObjectInv, CreatedOnce, ObjectsAreMadeOnce
<1>5. ASSUME NEW t \in Thread, Unlock(t)
      PROVE  ObjectInv'
  <2>1. ArrayTypes'
    BY <1>1, <1>5 DEF Unlock, ArrayTypes
  <2>2. LockProtects'
    BY <1>1, <1>5 DEF Unlock, ArrayTypes, LockProtects, ThreadIds
  <2> QED
    BY <1>1, <1>5, <2>1, <2>2 DEF Unlock, ObjectInv, CreatedOnce, ObjectsAreMadeOnce
<1>6. ASSUME NEW t \in Thread, Return(t)
      PROVE  ObjectInv'
  <2>1. call[t].slot \in Index /\ data[call[t].slot] \in Nat
    BY <1>1 DEF ArrayTypes
  <2>2. ArrayTypes'
    BY <1>1, <1>6, <2>1 DEF Return, ArrayTypes
  <2>3. LockProtects'
    BY <1>1, <1>6 DEF Return, ArrayTypes, LockProtects
  <2>4. data[call[t].slot] \in made[call[t].slot] \cup {0}
    BY <1>1, <2>1 DEF ObjectsAreMadeOnce
  <2>5. \A u \in Thread : got'[u] # <<>> => got'[u][2] \in made[got'[u][1]] \cup {0}
    BY <1>1, <1>6, <2>4 DEF Return, ArrayTypes, ObjectsAreMadeOnce
  <2> QED
    BY <1>1, <1>6, <2>2, <2>3, <2>5 DEF Return, ObjectInv, CreatedOnce, ObjectsAreMadeOnce
<1>7. ASSUME NEW t \in Thread, NEW null \in BOOLEAN, Make(t, null)
      PROVE  ObjectInv'
  <2> DEFINE i == call[t].slot
             n == Cardinality(UNION {made[j] : j \in Index}) + 1
  <2>1. n \in Nat /\ n # 0
    BY <1>1, CountMade
  <2> HIDE DEF n
  <2>2. /\ call[t].pc = "make" /\ deleted = {}
        /\ data' = [data EXCEPT ![i] = IF null THEN 0 ELSE n]
        /\ made' = [made EXCEPT ![i] = IF null THEN @ ELSE @ \cup {n}]
        /\ call' = [call EXCEPT ![t].pc = "unlock"]
        /\ UNCHANGED <<mutex, got, deleted, onceVars>>
    BY <1>7 DEF Make, n
  <2>3. i \in Index /\ data[i] = 0 /\ made[i] = {} /\ mutex = t
    BY <1>1, <2>2 DEF ArrayTypes, LockProtects, ObjectsAreMadeOnce
  <2> HIDE DEF i
  <2>4. ArrayTypes'
    BY <1>1, <2>1, <2>2, <2>3 DEF ArrayTypes
  <2>5. LockProtects'
    BY <1>1, <2>2, <2>3 DEF ArrayTypes, LockProtects
  <2>6. \A j \in Index : made'[j] = {data'[j]} \ {0} /\ made[j] \subseteq made'[j]
    BY <1>1, <2>1, <2>2, <2>3 DEF ArrayTypes, ObjectsAreMadeOnce
  <2>7. \A u \in Thread : got'[u] # <<>> => got'[u][2] \in made'[got'[u][1]] \cup {0}
    <3> SUFFICES ASSUME NEW u \in Thread, got[u] # <<>>
                 PROVE  got[u][2] \in made'[got[u][1]] \cup {0}
      BY <2>2
    <3>1. got[u][1] \in Index
      BY <1>1 DEF ArrayTypes
    <3>2. got[u][2] \in made[got[u][1]] \cup {0}
      BY <1>1 DEF ObjectsAreMadeOnce
    <3> QED
      BY <2>6, <3>1, <3>2
  <2> QED
    BY <1>1, <2>2, <2>4, <2>5, <2>6, <2>7 DEF ObjectInv, CreatedOnce, ObjectsAreMadeOnce
<1>8. CASE DestroyArray
  <2>1. deleted' = {data[i] : i \in Index} \ {0} /\ UNCHANGED <<data, mutex, call, got, made, onceVars>>
    BY <1>8 DEF DestroyArray
  <2>2. deleted' = UNION {made[i] : i \in Index}
    BY <1>1, <2>1 DEF ObjectsAreMadeOnce
  <2>3. ArrayTypes'
    BY <1>1, <2>1 DEF ArrayTypes
  <2> QED
    BY <1>1, <2>1, <2>2, <2>3 DEF ObjectInv, LockProtects, CreatedOnce, ObjectsAreMadeOnce
<1>9. ASSUME NEW t \in Thread, CallOnce(t) \/ Create(t)
      PROVE  ObjectInv'
  <2>1. CreatedOnce' /\ instance' \in 0..1 /\ (once' = "done" => instance' = 1)
    BY <1>1, <1>9 DEF CallOnce, Create, CreatedOnce, ThreadIds
  <2>2. UNCHANGED arrayVars
    BY <1>9 DEF CallOnce, Create
  <2> QED
    BY <1>1, <2>1, <2>2 DEF ObjectInv, ArrayTypes, LockProtects, ObjectsAreMadeOnce
<1>10. GuardNext \/ UNCHANGED vars => UNCHANGED <<arrayVars, onceVars>>
  BY DEF GuardNext, vars, LockGuard, GuardWithoutLock, TryLock, Release, DestroyGuard
<1> QED
  BY <1>2, <1>3, <1>4, <1>5, <1>6, <1>7, <1>8, <1>9, <1>10 DEF Next, ObjectNext

\* AtomicPtrArray::get() and ThreadSafeSingleton::get(): however many threads race
\* between the test without the lock and the test under it, each slot is given one
\* object, which every one of them gets, and the destructor deletes what was made.
THEOREM ObjectsAreNotMadeTwice ==
  ASSUME ThreadIds, Slots
  PROVE  Spec => []ObjectsAreMadeOnce
<1>1. Init => ObjectInv
  BY ObjectInit
<1>2. ObjectInv /\ [Next]_vars => ObjectInv'
  BY ObjectStep
<1>3. ObjectInv => ObjectsAreMadeOnce
  BY DEF ObjectInv
<1> QED
  BY <1>1, <1>2, <1>3, PTL DEF Spec

------------------------------------------------------------------------------
(* The registry of main threads *)

CONSTANTS TestThread, MaxNested, Uint32
VARIABLES main_threads_to_usage_count, skip_asserts, life, mains, skips

Registry == INSTANCE Threads

\* CountersFit speaks of the cardinality that is used here.
LEMMA CountersFitHere ==
  Registry!CountersFit <=> /\ IsFiniteSet(Thread)
                           /\ MaxNested \in Nat /\ Uint32 \in Nat
                           /\ Cardinality(Thread) * MaxNested < Uint32
<1>1. Registry!IsFiniteSet(Thread) <=> IsFiniteSet(Thread)
  BY Zenon DEF Registry!IsFiniteSet, IsFiniteSet
<1>2. Registry!Cardinality(Thread) = Cardinality(Thread)
  BY Zenon DEF Registry!Cardinality, Cardinality, Registry!IsFiniteSet, IsFiniteSet
<1> QED
  BY <1>1, <1>2, Zenon DEF Registry!CountersFit


(***************************************************************************)
(* The inductive invariant.                                                *)
(***************************************************************************)

Types ==
  /\ life \in [Thread -> {"new", "running", "ended", "joined"}]
  /\ mains \in [Thread -> 0..MaxNested] /\ skips \in [Thread -> 0..MaxNested]

\* The map holds the threads with a MainThread object, each with its number of them.
MapIsExact ==
  /\ DOMAIN main_threads_to_usage_count = {t \in Thread : mains[t] > 0}
  /\ \A t \in Thread : mains[t] > 0 => main_threads_to_usage_count[t] = mains[t]

\* Only a running thread has objects.
ObjectsOfRunning ==
  \A t \in Thread : mains[t] > 0 \/ skips[t] > 0 => life[t] = "running"

\* The SkipAsserts objects that are alive, as pairs, for s = skips.
Alive(s) == UNION {{t} \X (1..s[t]) : t \in Thread}

\* skip_asserts_ is their number.
SkipsAreCounted == skip_asserts = Cardinality(Alive(skips))

IndInv == Types /\ MapIsExact /\ ObjectsOfRunning /\ SkipsAreCounted

------------------------------------------------------------------------------
(* The number of objects *)

Counts == [Thread -> 0..MaxNested]

\* The objects by thread and number; the counter has room for them.
LEMMA AliveAre ==
  ASSUME Registry!CountersFit, NEW s \in Counts
  PROVE  /\ Alive(s) = {p \in Thread \X (1..MaxNested) : p[2] <= s[p[1]]}
         /\ IsFiniteSet(Alive(s))
         /\ Cardinality(Alive(s)) \in 0..(Uint32 - 1)
<1> DEFINE Q == {p \in Thread \X (1..MaxNested) : p[2] <= s[p[1]]}
<1>1. Alive(s) = Q
  <2>1. Alive(s) \subseteq Q
    BY DEF Alive, Counts, Registry!CountersFit
  <2>2. ASSUME NEW p \in Q
        PROVE  p \in {p[1]} \X (1..s[p[1]]) /\ p[1] \in Thread
    BY DEF Counts, Registry!CountersFit
  <2>3. Q \subseteq Alive(s)
    BY <2>2 DEF Alive
  <2> QED
    BY <2>1, <2>3
<1>2. IsFiniteSet(1..MaxNested) /\ Cardinality(1..MaxNested) = MaxNested
  BY FS_Interval DEF Registry!CountersFit
<1>3. /\ IsFiniteSet(Thread \X (1..MaxNested))
      /\ Cardinality(Thread \X (1..MaxNested)) = Cardinality(Thread) * MaxNested
  BY <1>2, FS_Product, CountersFitHere
<1>4. Q \in SUBSET (Thread \X (1..MaxNested))
  OBVIOUS
<1>5. IsFiniteSet(Q) /\ Cardinality(Q) <= Cardinality(Thread) * MaxNested
  <2> HIDE DEF Q
  <2> QED
    BY <1>3, <1>4, FS_Subset
<1>6. Cardinality(Q) \in Nat
  <2> HIDE DEF Q
  <2> QED
    BY <1>5, FS_CardinalityType
<1>7. Cardinality(Thread) * MaxNested \in Nat
  BY <1>3, FS_CardinalityType
<1>8. Cardinality(Q) \in 0..(Uint32 - 1)
  <2> HIDE DEF Q
  <2> QED
    BY <1>5, <1>6, <1>7, CountersFitHere
<1> QED
  BY <1>1, <1>5, <1>8

\* None is alive exactly when no thread has one.
LEMMA AliveNone ==
  ASSUME Registry!CountersFit, NEW s \in Counts
  PROVE  Cardinality(Alive(s)) = 0 <=> \A t \in Thread : s[t] = 0
<1>1. Cardinality(Alive(s)) = 0 <=> Alive(s) = {}
  BY AliveAre, FS_EmptySet
<1>2. ASSUME NEW t \in Thread, s[t] # 0
      PROVE  <<t, s[t]>> \in Alive(s)
  BY <1>2, AliveAre DEF Counts, Registry!CountersFit
<1>3. (\A t \in Thread : s[t] = 0) => Alive(s) = {}
  BY DEF Alive
<1> QED
  BY <1>1, <1>2, <1>3

\* A thread constructs one object: r before, s after; or destroys one: s before.
LEMMA AliveOneMore ==
  ASSUME Registry!CountersFit, NEW r \in Counts, NEW s \in Counts, NEW t \in Thread,
         s[t] = r[t] + 1, \A u \in Thread \ {t} : s[u] = r[u]
  PROVE  Cardinality(Alive(s)) = Cardinality(Alive(r)) + 1
<1> DEFINE p == <<t, s[t]>>
<1>1. s[t] \in 1..MaxNested /\ r[t] \in Nat
  BY DEF Counts, Registry!CountersFit
<1>2. p \in Thread \X (1..MaxNested) /\ p \notin Alive(r)
  BY <1>1, AliveAre
<1>3. Alive(s) = Alive(r) \cup {p}
  <2>1. ASSUME NEW q \in Thread \X (1..MaxNested)
        PROVE  q[2] <= s[q[1]] <=> q[2] <= r[q[1]] \/ q = p
    <3>1. q = <<q[1], q[2]>> /\ q[2] \in 1..MaxNested /\ q[1] \in Thread
      BY <2>1
    <3>2. CASE q[1] = t
      <4>1. q[2] <= r[t] + 1 <=> q[2] <= r[t] \/ q[2] = r[t] + 1
        BY <1>1, <3>1 DEF Registry!CountersFit
      <4> QED
        BY <3>1, <3>2, <4>1
    <3>3. CASE q[1] # t
      BY <3>1, <3>3
    <3> QED
      BY <3>2, <3>3
  <2>2. /\ Alive(r) = {q \in Thread \X (1..MaxNested) : q[2] <= r[q[1]]}
        /\ Alive(s) = {q \in Thread \X (1..MaxNested) : q[2] <= s[q[1]]}
    BY AliveAre
  <2> HIDE DEF p
  <2> QED
    BY <1>2, <2>1, <2>2
<1> HIDE DEF p
<1> QED
  BY <1>2, <1>3, AliveAre, FS_AddElement

\* A uint32_t that does not overflow.
LEMMA NoWrap ==
  ASSUME NEW n \in Nat, NEW m \in 0..(n - 1)
  PROVE  m % n = m
OBVIOUS

------------------------------------------------------------------------------
(* The steps *)

\* Before the first object, the map is empty and the counter is zero.
LEMMA InitIndInv ==
  ASSUME Registry!CountersFit, Registry!Init
  PROVE  IndInv
<1>1. Types /\ MapIsExact /\ ObjectsOfRunning
  BY DEF Registry!Init, Types, MapIsExact, ObjectsOfRunning, Registry!CountersFit
<1>2. skips \in Counts /\ \A t \in Thread : skips[t] = 0
  BY DEF Registry!Init, Counts, Registry!CountersFit
<1>3. SkipsAreCounted
  BY <1>2, AliveNone DEF Registry!Init, SkipsAreCounted
<1> QED
  BY <1>1, <1>3 DEF IndInv

\* Every step keeps the map and the counter with the objects.
LEMMA Invariance ==
  ASSUME Registry!CountersFit, IndInv, [Registry!Next]_(Registry!vars)
  PROVE  IndInv'
<1>1. Types /\ MapIsExact /\ ObjectsOfRunning /\ SkipsAreCounted /\ MaxNested \in Nat
  BY DEF IndInv, Registry!CountersFit
<1>2. skips \in Counts /\ skip_asserts \in 0..(Uint32 - 1) /\ Uint32 \in Nat
  BY <1>1, AliveAre DEF Types, Counts, SkipsAreCounted, Registry!CountersFit
<1>3. ASSUME NEW t \in Thread, Registry!RegisterMainThread(t)
      PROVE  IndInv'
  <2>1. /\ life[t] = "running" /\ mains[t] < MaxNested
        /\ mains' = [mains EXCEPT ![t] = @ + 1]
        /\ UNCHANGED <<skip_asserts, life, skips>>
    BY <1>3 DEF Registry!RegisterMainThread
  <2>2. Types' /\ ObjectsOfRunning' /\ SkipsAreCounted'
    BY <1>1, <2>1 DEF Types, ObjectsOfRunning, SkipsAreCounted
  <2>3. DOMAIN main_threads_to_usage_count' = {u \in Thread : mains'[u] > 0}
    BY <1>1, <1>3, <2>1 DEF Registry!RegisterMainThread, MapIsExact, Types
  <2>4. ASSUME NEW u \in Thread, mains'[u] > 0
        PROVE  main_threads_to_usage_count'[u] = mains'[u]
    <3>1. u \in DOMAIN main_threads_to_usage_count \cup {t}
      BY <1>1, <2>1, <2>4 DEF MapIsExact, Types
    <3>2. main_threads_to_usage_count'[u] =
            (IF u \in DOMAIN main_threads_to_usage_count
             THEN main_threads_to_usage_count[u] ELSE 0) + (IF u = t THEN 1 ELSE 0)
      BY <1>3, <3>1 DEF Registry!RegisterMainThread
    <3>3. mains[u] \in Nat /\ mains'[u] = mains[u] + (IF u = t THEN 1 ELSE 0)
      BY <1>1, <2>1 DEF Types
    <3>4. (IF u \in DOMAIN main_threads_to_usage_count
           THEN main_threads_to_usage_count[u] ELSE 0) = mains[u]
      BY <1>1, <3>3 DEF MapIsExact
    <3> QED
      BY <3>2, <3>3, <3>4
  <2> QED
    BY <2>2, <2>3, <2>4 DEF IndInv, MapIsExact
<1>4. ASSUME NEW t \in Thread, Registry!ReleaseMainThread(t)
      PROVE  IndInv'
  <2>1. /\ life[t] = "running" /\ mains[t] > 0
        /\ mains' = [mains EXCEPT ![t] = @ - 1]
        /\ UNCHANGED <<skip_asserts, life, skips>>
    BY <1>4 DEF Registry!ReleaseMainThread
  <2>2. Types' /\ ObjectsOfRunning' /\ SkipsAreCounted'
    BY <1>1, <2>1 DEF Types, ObjectsOfRunning, SkipsAreCounted
  <2>3. t \in DOMAIN main_threads_to_usage_count /\ main_threads_to_usage_count[t] = mains[t]
    BY <1>1, <2>1 DEF MapIsExact
  <2>4. CASE mains[t] = 1
    <3>1. main_threads_to_usage_count' = [u \in DOMAIN main_threads_to_usage_count \ {t} |->
                                             main_threads_to_usage_count[u]]
      BY <1>4, <2>3, <2>4 DEF Registry!ReleaseMainThread, Registry!InMainThread, Registry!Erases
    <3> QED
      BY <1>1, <2>1, <2>2, <2>4, <3>1 DEF IndInv, MapIsExact, Types
  <2>5. CASE mains[t] # 1
    <3>1. main_threads_to_usage_count' = [main_threads_to_usage_count EXCEPT ![t] = @ - 1]
      BY <1>1, <1>4, <2>3, <2>5 DEF Registry!ReleaseMainThread, Registry!InMainThread, Registry!Erases, Types
    <3>2. DOMAIN main_threads_to_usage_count' = DOMAIN main_threads_to_usage_count
      BY <3>1
    <3>3. main_threads_to_usage_count'[t] = mains[t] - 1
      BY <2>3, <3>1
    <3>4. \A u \in DOMAIN main_threads_to_usage_count \ {t} :
            main_threads_to_usage_count'[u] = main_threads_to_usage_count[u]
      BY <3>1
    <3> QED
      BY <1>1, <2>1, <2>2, <2>3, <2>5, <3>2, <3>3, <3>4 DEF IndInv, MapIsExact, Types
  <2> QED
    BY <2>4, <2>5
<1>5. ASSUME NEW t \in Thread, Registry!IncSkipAsserts(t)
      PROVE  IndInv'
  <2>1. /\ life[t] = "running" /\ skips[t] < MaxNested
        /\ skip_asserts' = (skip_asserts + 1) % Uint32
        /\ skips' = [skips EXCEPT ![t] = @ + 1]
        /\ UNCHANGED <<main_threads_to_usage_count, life, mains>>
    BY <1>5 DEF Registry!IncSkipAsserts
  <2>2. Types' /\ ObjectsOfRunning' /\ MapIsExact'
    BY <1>1, <2>1 DEF Types, ObjectsOfRunning, MapIsExact
  <2>3. /\ skips' \in Counts /\ skips'[t] = skips[t] + 1
        /\ \A u \in Thread \ {t} : skips'[u] = skips[u]
    BY <1>1, <2>1, <2>2 DEF Types, Counts
  <2>4. Cardinality(Alive(skips')) = skip_asserts + 1
    BY <1>1, <1>2, <2>3, AliveOneMore DEF SkipsAreCounted
  <2>5. skip_asserts + 1 \in 0..(Uint32 - 1)
    BY <2>3, <2>4, AliveAre
  <2>6. skip_asserts' = Cardinality(Alive(skips'))
    BY <1>2, <2>1, <2>4, <2>5, NoWrap
  <2>7. Alive(skips)' = Alive(skips')
    BY DEF Alive
  <2> QED
    BY <2>2, <2>6, <2>7 DEF IndInv, SkipsAreCounted
<1>6. ASSUME NEW t \in Thread, Registry!DecSkipAsserts(t)
      PROVE  IndInv'
  <2>1. /\ life[t] = "running" /\ skips[t] > 0
        /\ skip_asserts' = (skip_asserts - 1) % Uint32
        /\ skips' = [skips EXCEPT ![t] = @ - 1]
        /\ UNCHANGED <<main_threads_to_usage_count, life, mains>>
    BY <1>6 DEF Registry!DecSkipAsserts
  <2>2. Types' /\ ObjectsOfRunning' /\ MapIsExact'
    BY <1>1, <2>1 DEF Types, ObjectsOfRunning, MapIsExact
  <2>3. /\ skips' \in Counts /\ skips[t] = skips'[t] + 1
        /\ \A u \in Thread \ {t} : skips[u] = skips'[u]
    BY <1>1, <2>1, <2>2 DEF Types, Counts
  <2>4. skip_asserts = Cardinality(Alive(skips')) + 1
    BY <1>1, <1>2, <2>3, AliveOneMore DEF SkipsAreCounted
  <2>5. Cardinality(Alive(skips')) \in 0..(Uint32 - 1)
    BY <2>3, AliveAre
  <2>6. skip_asserts' = Cardinality(Alive(skips'))
    BY <1>2, <2>1, <2>4, <2>5, NoWrap
  <2>7. Alive(skips)' = Alive(skips')
    BY DEF Alive
  <2> QED
    BY <2>2, <2>6, <2>7 DEF IndInv, SkipsAreCounted
<1>7. ASSUME NEW t \in Thread, Registry!CreateThread(t) \/ Registry!RoutineReturns(t) \/ Registry!Join(t) \/ Registry!ReuseId(t)
      PROVE  IndInv'
  <2>1. UNCHANGED <<main_threads_to_usage_count, skip_asserts, mains, skips>>
    BY <1>7 DEF Registry!CreateThread, Registry!RoutineReturns, Registry!Join, Registry!ReuseId
  <2>2. MapIsExact' /\ SkipsAreCounted'
    BY <1>1, <2>1 DEF MapIsExact, SkipsAreCounted
  <2>3. PICK l \in {"new", "running", "ended", "joined"} : life' = [life EXCEPT ![t] = l]
    BY <1>7 DEF Registry!CreateThread, Registry!RoutineReturns, Registry!Join, Registry!ReuseId
  <2>4. Types'
    BY <1>1, <2>1, <2>3 DEF Types
  <2>5. life'[t] = "running" \/ (mains[t] = 0 /\ skips[t] = 0)
    BY <1>1, <1>7 DEF Registry!CreateThread, Registry!RoutineReturns, Registry!Join, Registry!ReuseId, Types, ObjectsOfRunning
  <2>6. ObjectsOfRunning'
    BY <1>1, <2>1, <2>3, <2>5 DEF Types, ObjectsOfRunning
  <2> QED
    BY <2>2, <2>4, <2>6 DEF IndInv
<1>8. CASE UNCHANGED Registry!vars
  BY <1>1, <1>8 DEF Registry!vars, IndInv, Types, MapIsExact, ObjectsOfRunning, SkipsAreCounted
<1> QED
  BY <1>3, <1>4, <1>5, <1>6, <1>7, <1>8 DEF Registry!Next

------------------------------------------------------------------------------
\* The macros of Thread.h fail only on the wrong thread: registerMainThread() and
\* releaseMainThread() keep exactly the threads with a live MainThread object in the
\* map, however objects nest and ids are reused, and skip_asserts_ is zero exactly when
\* no SkipAsserts object is alive anywhere.
THEOREM ThreadChecksHold ==
  ASSUME Registry!CountersFit
  PROVE  Registry!Spec => []Registry!ThreadChecksAreExact
<1>1. Registry!Init => IndInv
  BY InitIndInv
<1>2. IndInv /\ [Registry!Next]_(Registry!vars) => IndInv'
  BY Invariance
<1>3. IndInv => Registry!ThreadChecksAreExact
  <2> SUFFICES ASSUME IndInv
               PROVE  Registry!ThreadChecksAreExact
    OBVIOUS
  <2>1. skips \in Counts /\ mains \in [Thread -> Nat]
    BY DEF IndInv, Types, Counts, Registry!CountersFit
  <2>2. skip_asserts = 0 <=> \A t \in Thread : skips[t] = 0
    BY <2>1, AliveNone DEF IndInv, SkipsAreCounted
  <2>3. skip_asserts \in Nat
    BY <2>1, AliveAre DEF IndInv, SkipsAreCounted, Registry!CountersFit
  <2>4. Registry!SkipAsserts <=> \E u \in Thread : skips[u] > 0
    BY <2>1, <2>2, <2>3 DEF Registry!SkipAsserts, Counts, Registry!CountersFit
  <2>5. \A t \in Thread : Registry!InMainThread(t) <=> mains[t] > 0
    BY DEF IndInv, MapIsExact, Registry!InMainThread
  <2>6. Registry!IsMainThreadActive <=> \E t \in Thread : mains[t] > 0
    BY DEF IndInv, MapIsExact, Registry!IsMainThreadActive
  <2>7. \A t \in Thread : Registry!InMainThread(t) => life[t] = "running"
    BY <2>5 DEF IndInv, ObjectsOfRunning
  <2> QED
    BY <2>4, <2>5, <2>6, <2>7
       DEF Registry!ThreadChecksAreExact, Registry!AssertIsTestThread, Registry!AssertIsNotTestThread,
           Registry!AssertIsMainOrTestThread, Registry!AssertIsNotMainOrTestThread, Registry!IsTestThread
<1> QED
  BY <1>1, <1>2, <1>3, PTL DEF Registry!Spec

------------------------------------------------------------------------------
(* Interval sets *)

CONSTANT MaxValue
VARIABLES intervals, inserted

Intervals == INSTANCE IntervalSet

\* Every set of numbers has a smallest one.
LEMMA Smallest ==
  ASSUME NEW S, S \subseteq Nat, S # {}
  PROVE  \E x \in S : \A y \in S : x <= y
<1> DEFINE R == OpToRel(<, Nat)
<1>1. PICK x \in S : \A y \in S : <<y, x>> \notin R
  <2>1. IsWellFoundedOn(R, Nat)
    BY NatLessThanWellFounded
  <2> HIDE DEF R
  <2> QED
    BY <2>1, WFMin
<1>2. \A y \in S : ~(y < x)
  BY <1>1 DEF OpToRel
<1> HIDE DEF R
<1> QED
  BY <1>2

\* A set of numbers up to n has a largest one.
LEMMA Largest ==
  ASSUME NEW n \in Nat, NEW S, S \subseteq 0..n, S # {}
  PROVE  \E x \in S : \A y \in S : y <= x
<1> DEFINE T == {n - x : x \in S}
<1>1. T \subseteq Nat /\ T # {}
  <2>1. PICK x \in S : TRUE
    OBVIOUS
  <2>2. n - x \in T
    OBVIOUS
  <2>3. T \subseteq Nat
    OBVIOUS
  <2> QED
    BY <2>2, <2>3
<1>2. PICK t \in T : \A u \in T : t <= u
  <2> HIDE DEF T
  <2> QED
    BY <1>1, Smallest
<1>3. PICK x \in S : t = n - x
  OBVIOUS
<1>4. \A y \in S : n - x <= n - y
  BY <1>2, <1>3
<1> QED
  BY <1>4

\* The half-open intervals, which are not empty.
Interval == {e \in Intervals!Value \X Intervals!Value : e[1] < e[2]}

\* An interval and its ends.
LEMMA IntervalIs ==
  ASSUME MaxValue \in Nat
  PROVE  /\ \A e \in Interval : e[1] \in 0..MaxValue /\ e[2] \in 0..MaxValue /\ e[1] < e[2]
         /\ \A x, y \in 0..MaxValue : x < y => <<x, y>> \in Interval
BY DEF Interval, Intervals!Value

\* First() and Last() are the intervals of a set that begin first and last.
LEMMA FirstIs ==
  ASSUME MaxValue \in Nat, NEW S, S \subseteq Interval, S # {}
  PROVE  Intervals!First(S) \in S /\ \A f \in S : Intervals!First(S)[1] <= f[1]
<1> DEFINE B == {e[1] : e \in S}
<1>1. B \subseteq Nat /\ B # {}
  BY IntervalIs
<1>2. PICK x \in B : \A y \in B : x <= y
  <2> HIDE DEF B
  <2> QED
    BY <1>1, Smallest
<1>3. \E e \in S : \A f \in S : e[1] <= f[1]
  BY <1>2
<1> QED
  BY <1>3 DEF Intervals!First

LEMMA LastIs ==
  ASSUME MaxValue \in Nat, NEW S, S \subseteq Interval, S # {}
  PROVE  Intervals!Last(S) \in S /\ \A f \in S : f[1] <= Intervals!Last(S)[1]
<1> DEFINE B == {e[1] : e \in S}
<1>1. B \subseteq 0..MaxValue /\ B # {}
  BY IntervalIs
<1>2. PICK x \in B : \A y \in B : y <= x
  <2> HIDE DEF B
  <2> QED
    BY <1>1, Largest
<1>3. \E e \in S : \A f \in S : f[1] <= e[1]
  BY <1>2
<1> QED
  BY <1>3 DEF Intervals!Last

\* Intervals with a gap between any two of them.
Separate(I) == \A a, b \in I : a # b => a[2] < b[1] \/ b[2] < a[1]

\* The values in the intervals I.
Covered(I) == UNION {a[1]..(a[2] - 1) : a \in I}

IntervalInv ==
  intervals \subseteq Interval /\ Separate(intervals) /\ inserted = Covered(intervals)

\* Which values are covered.
LEMMA CoveredIs ==
  ASSUME MaxValue \in Nat, NEW I, I \subseteq Interval
  PROVE  \A v : v \in Covered(I) <=> v \in Int /\ \E e \in I : e[1] <= v /\ v < e[2]
<1>1. \A e \in I : e[1] \in Int /\ e[2] \in Int
  BY IntervalIs
<1> QED
  BY <1>1 DEF Covered

\* [left, right) is combined with exactly the intervals E that it overlaps or
\* touches, into one that covers it and them and is apart from the others.
LEMMA MergedIs ==
  ASSUME MaxValue \in Nat, IntervalInv, NEW left \in 0..MaxValue, NEW right \in 0..MaxValue,
         left < right
  PROVE  LET m == Intervals!Merged(left, right)
             E == {e \in intervals : left <= e[2] /\ e[1] <= right}
         IN  /\ intervals \ m.erase = intervals \ E
             /\ m.by \in Interval
             /\ \A e \in intervals \ E : e[2] < m.by[1] \/ m.by[2] < e[1]
             /\ \A v \in Int : (m.by[1] <= v /\ v < m.by[2]) <=>
                  \/ left <= v /\ v < right
                  \/ \E e \in E : e[1] <= v /\ v < e[2]
<1> DEFINE from == {e \in intervals : left <= e[2]}
           upto == {e \in intervals : e[1] <= right}
           E == {e \in intervals : left <= e[2] /\ e[1] <= right}
           F == Intervals!First(from)
           L == Intervals!Last(upto)
           m == Intervals!Merged(left, right)
           merge == from # {} /\ right >= F[1] /\ upto # {} /\ L[2] >= left
<1>1. /\ \A e \in intervals : e[1] \in 0..MaxValue /\ e[2] \in 0..MaxValue /\ e[1] < e[2]
      /\ \A a, b \in intervals : a # b => a[2] < b[1] \/ b[2] < a[1]
  BY IntervalIs DEF IntervalInv, Separate
<1>2. from = Intervals!FromLowerBound(<<left, left>>) /\ upto = Intervals!BeforeUpperBound(<<right, right>>)
  BY <1>1 DEF Intervals!FromLowerBound, Intervals!BeforeUpperBound, Intervals!Compare
<1>3. m = IF merge
          THEN [erase |-> from \cap upto,
                by |-> <<IF F[1] < left THEN F[1] ELSE left, IF L[2] > right THEN L[2] ELSE right>>]
          ELSE [erase |-> {}, by |-> <<left, right>>]
  BY <1>2 DEF Intervals!Merged, Intervals!Reaches
<1>4. from # {} => F \in from /\ \A f \in from : F[1] <= f[1]
  <2>1. from \subseteq Interval
    BY DEF IntervalInv
  <2> HIDE DEF from
  <2> QED
    BY <2>1, FirstIs
<1>5. upto # {} => L \in upto /\ \A f \in upto : f[1] <= L[1]
  <2>1. upto \subseteq Interval
    BY DEF IntervalInv
  <2> HIDE DEF upto
  <2> QED
    BY <2>1, LastIs
<1>6. E = from \cap upto
  OBVIOUS
<1> HIDE DEF F, L, m
<1>7. CASE merge
  <2>1. F \in E /\ L \in E /\ \A e \in E : F[1] <= e[1] /\ e[1] <= L[1]
    BY <1>1, <1>4, <1>5, <1>7
  <2>2. \A e \in E : e[2] <= L[2]
    BY <1>1, <2>1
  <2> DEFINE x == IF F[1] < left THEN F[1] ELSE left
             y == IF L[2] > right THEN L[2] ELSE right
  <2>3. m.erase = E /\ m.by = <<x, y>> /\ m.by[1] = x /\ m.by[2] = y
    BY <1>3, <1>6, <1>7
  <2>4. /\ x \in 0..MaxValue /\ y \in 0..MaxValue /\ x <= left /\ right <= y /\ x <= F[1] /\ L[2] <= y
        /\ x = left \/ (x = F[1] /\ F[1] < left)
        /\ y = right \/ (y = L[2] /\ right < L[2])
    BY <1>1, <2>1
  <2> HIDE DEF x, y
  <2>5. <<x, y>> \in Interval
    BY <2>4, IntervalIs
  <2>6. ASSUME NEW e \in intervals \ E
        PROVE  e[2] < x \/ y < e[1]
    BY <1>1, <2>1, <2>4, <2>6
  <2>7. ASSUME NEW v \in Int, x <= v, v < y
        PROVE  (left <= v /\ v < right) \/ \E e \in E : e[1] <= v /\ v < e[2]
    <3>1. CASE v < left
      BY <1>1, <2>1, <2>4, <2>7, <3>1
    <3>2. CASE right <= v
      BY <1>1, <2>1, <2>4, <2>7, <3>2
    <3> QED
      BY <3>1, <3>2
  <2>8. ASSUME NEW v \in Int, (left <= v /\ v < right) \/ \E e \in E : e[1] <= v /\ v < e[2]
        PROVE  x <= v /\ v < y
    BY <1>1, <2>1, <2>2, <2>4, <2>8
  <2> QED
    BY <2>3, <2>5, <2>6, <2>7, <2>8 DEF m
<1>8. CASE ~merge
  <2>1. E = {}
    <3> SUFFICES ASSUME NEW e \in E
                 PROVE  FALSE
      OBVIOUS
    <3>1. e \in from /\ e \in upto /\ F[1] <= e[1] /\ e[1] <= L[1] /\ L \in intervals /\ F \in intervals
      BY <1>4, <1>5
    <3> QED
      BY <1>1, <1>8, <3>1
  <2>2. m.erase = {} /\ m.by = <<left, right>> /\ m.by[1] = left /\ m.by[2] = right
    BY <1>3, <1>8
  <2>3. \A e \in intervals : e[2] < left \/ right < e[1]
    BY <1>1, <2>1
  <2>4. <<left, right>> \in Interval
    BY IntervalIs
  <2> QED
    BY <2>1, <2>2, <2>3, <2>4 DEF m
<1> QED
  BY <1>7, <1>8

\* insert() keeps the intervals apart and covers what it is given.
LEMMA InsertKeeps ==
  ASSUME MaxValue \in Nat, IntervalInv, NEW left \in Intervals!Value, NEW right \in Intervals!Value,
         Intervals!Insert(left, right)
  PROVE  IntervalInv'
<1>1. left \in 0..MaxValue /\ right \in 0..MaxValue /\ left <= right
  BY DEF Intervals!Insert, Intervals!Value
<1>2. \A v : v \in inserted <=> v \in Int /\ \E e \in intervals : e[1] <= v /\ v < e[2]
  BY CoveredIs DEF IntervalInv
<1>3. \A v : v \in inserted' <=> v \in inserted \/ (v \in Int /\ left <= v /\ v < right)
  BY <1>1 DEF Intervals!Insert
<1>4. CASE left = right
  <2>1. intervals' = intervals
    BY <1>4 DEF Intervals!Insert
  <2>2. inserted' = inserted
    BY <1>1, <1>3, <1>4
  <2> QED
    BY <2>1, <2>2 DEF IntervalInv, Separate, Covered
<1>5. CASE left < right
  <2> DEFINE m == Intervals!Merged(left, right)
             E == {e \in intervals : left <= e[2] /\ e[1] <= right}
             J == intervals \ E
  <2>1. /\ intervals \ m.erase = J /\ m.by \in Interval
        /\ \A e \in J : e[2] < m.by[1] \/ m.by[2] < e[1]
        /\ \A v \in Int : (m.by[1] <= v /\ v < m.by[2]) <=>
             \/ left <= v /\ v < right
             \/ \E e \in E : e[1] <= v /\ v < e[2]
    BY <1>1, <1>5, MergedIs
  <2>2. intervals' = Intervals!SetInsert(J, m.by)
    <3>1. intervals' = IF left = right THEN intervals ELSE Intervals!SetInsert(intervals \ m.erase, m.by)
      BY Zenon DEF Intervals!Insert
    <3>2. left # right /\ intervals \ m.erase = J
      BY <1>1, <1>5, <2>1
    <3> HIDE DEF m, J
    <3> QED
      BY <3>1, <3>2
  <2> HIDE DEF m
  <2> DEFINE x == m.by
  <2>3. x[1] \in Int /\ x[2] \in Int /\ x[1] < x[2]
    BY <2>1, IntervalIs
  <2>4. \A e \in J : e \in Interval /\ e[1] \in Int /\ e[2] \in Int /\ e[1] < e[2]
    BY IntervalIs DEF IntervalInv
  <2>5. intervals' = J \cup {x}
    BY <2>1, <2>2, <2>3, <2>4 DEF Intervals!SetInsert, Intervals!Compare
  <2> HIDE DEF x
  <2>6. intervals' \subseteq Interval
    BY <2>1, <2>4, <2>5 DEF x
  <2>7. Separate(intervals')
    <3>1. \A a, b \in J : a # b => a[2] < b[1] \/ b[2] < a[1]
      BY DEF IntervalInv, Separate
    <3>2. \A e \in J : e[2] < x[1] \/ x[2] < e[1]
      BY <2>1 DEF x
    <3> HIDE DEF J
    <3> QED
      BY <2>5, <3>1, <3>2 DEF Separate
  <2>8. \A v : v \in Covered(intervals') <=> v \in Int /\ \E e \in intervals' : e[1] <= v /\ v < e[2]
    BY <2>6, CoveredIs
  <2>9. ASSUME NEW v \in Int
        PROVE  (\E e \in intervals' : e[1] <= v /\ v < e[2]) <=>
                 (left <= v /\ v < right) \/ \E e \in intervals : e[1] <= v /\ v < e[2]
    <3>1. (x[1] <= v /\ v < x[2]) <=> (left <= v /\ v < right) \/ \E e \in E : e[1] <= v /\ v < e[2]
      BY <2>1 DEF x
    <3>2. (\E e \in intervals' : e[1] <= v /\ v < e[2]) <=>
            (x[1] <= v /\ v < x[2]) \/ \E e \in J : e[1] <= v /\ v < e[2]
      BY <2>5
    <3>3. (\E e \in intervals : e[1] <= v /\ v < e[2]) <=>
            (\E e \in E : e[1] <= v /\ v < e[2]) \/ \E e \in J : e[1] <= v /\ v < e[2]
      OBVIOUS
    <3> HIDE DEF E, J
    <3> QED
      BY <3>1, <3>2, <3>3
  <2>10. inserted' = Covered(intervals')
    <3>1. \A v : v \in inserted' <=> v \in Covered(intervals')
      BY <1>2, <1>3, <2>8, <2>9
    <3> QED
      BY <3>1
  <2> QED
    BY <2>6, <2>7, <2>10 DEF IntervalInv
<1> QED
  BY <1>1, <1>4, <1>5

\* test() looks at the first interval that does not end before the value.
LEMMA TestIs ==
  ASSUME MaxValue \in Nat, IntervalInv, NEW v \in Intervals!Value
  PROVE  Intervals!Test(v) <=> v \in inserted
<1> DEFINE from == {e \in intervals : v <= e[2]}
           F == Intervals!First(from)
<1>1. /\ \A e \in intervals : e[1] \in 0..MaxValue /\ e[2] \in 0..MaxValue /\ e[1] < e[2]
      /\ \A a, b \in intervals : a # b => a[2] < b[1] \/ b[2] < a[1]
      /\ v \in Int
  BY IntervalIs DEF IntervalInv, Separate, Intervals!Value
<1>2. from = Intervals!FromLowerBound(<<v, v + 1>>)
  BY <1>1 DEF Intervals!FromLowerBound, Intervals!Compare
<1>3. Intervals!Test(v) <=> from # {} /\ v >= F[1] /\ v < F[2]
  BY <1>2 DEF Intervals!Test
<1>4. from # {} => F \in from /\ \A f \in from : F[1] <= f[1]
  <2>1. from \subseteq Interval
    BY DEF IntervalInv
  <2> HIDE DEF from
  <2> QED
    BY <2>1, FirstIs
<1>5. v \in inserted <=> \E e \in intervals : e[1] <= v /\ v < e[2]
  BY <1>1, CoveredIs DEF IntervalInv
<1> HIDE DEF F
<1>6. ASSUME NEW e \in intervals, e[1] <= v, v < e[2]
      PROVE  from # {} /\ v >= F[1] /\ v < F[2]
  <2>1. e \in from
    BY <1>1, <1>6
  <2>2. F \in from /\ F[1] <= e[1]
    BY <1>4, <2>1
  <2> QED
    BY <1>1, <1>6, <2>1, <2>2
<1>7. ASSUME from # {}, v >= F[1], v < F[2]
      PROVE  \E e \in intervals : e[1] <= v /\ v < e[2]
  <2>1. F \in intervals
    BY <1>4, <1>7
  <2> QED
    BY <1>1, <1>7, <2>1
<1> QED
  BY <1>3, <1>5, <1>6, <1>7

\* However insert() and clear() are called, the intervals of an IntervalSetImpl never
\* overlap nor touch, cover exactly what was inserted, and test() says so, for values
\* up to any limit.
THEOREM IntervalsStayMerged ==
  ASSUME MaxValue \in Nat
  PROVE  Intervals!Spec => []Intervals!IntervalsAreMerged
<1>1. Intervals!Init => IntervalInv
  BY DEF Intervals!Init, IntervalInv, Separate, Covered
<1>2. IntervalInv /\ [Intervals!Next]_(Intervals!vars) => IntervalInv'
  <2> SUFFICES ASSUME IntervalInv, [Intervals!Next]_(Intervals!vars)
               PROVE  IntervalInv'
    OBVIOUS
  <2>1. CASE UNCHANGED Intervals!vars
    BY <2>1 DEF Intervals!vars, IntervalInv, Separate, Covered
  <2>2. CASE Intervals!Clear
    BY <2>2 DEF Intervals!Clear, IntervalInv, Separate, Covered
  <2>3. CASE \E left, right \in Intervals!Value : Intervals!Insert(left, right)
    BY <2>3, InsertKeeps
  <2> QED
    BY <2>1, <2>2, <2>3 DEF Intervals!Next
<1>3. IntervalInv => Intervals!IntervalsAreMerged
  BY TestIs DEF IntervalInv, Separate, Covered, Intervals!IntervalsAreMerged, Intervals!Compare
<1> QED
  BY <1>1, <1>2, <1>3, PTL DEF Intervals!Spec

------------------------------------------------------------------------------
(* Random numbers *)

CONSTANTS Prefetch, BufferSize, MaxFetches
VARIABLES words, words_idx, bytes, bytes_idx, fetched, failed, given

Randoms == INSTANCE RandomGenerator

\* What random() and uuid() hand out, and the numbers of the data that RAND_bytes() has
\* produced in n calls.
Given == [kind : {"word", "uuid"}, at : Nat, what : Nat]
Produced(n) == n * (Prefetch + BufferSize)

\* Of a pool of size elements the ones behind idx are in ascending order, above all
\* that was handed out of this kind, none of it twice, and not above bound.
Pool(buffer, size, idx, kind, bound, list) ==
  /\ \A i, k \in (idx + 1)..size : i < k => buffer[i] < buffer[k]
  /\ \A i \in 1..size : buffer[i] <= bound
  /\ \A j \in DOMAIN list : list[j].kind = kind =>
       list[j].what <= bound /\ \A i \in (idx + 1)..size : list[j].what < buffer[i]
  /\ \A i, j \in DOMAIN list :
       i # j /\ list[i].kind = kind /\ list[j].kind = kind => list[i].what # list[j].what

\* A list with one more element.
LEMMA ListGrows ==
  ASSUME NEW list \in Seq(Given), NEW r \in Given
  PROVE  /\ Append(list, r) \in Seq(Given)
         /\ \A j \in DOMAIN list : list[j] \in Given /\ list[j].what \in Nat
         /\ \A j \in DOMAIN Append(list, r) :
              \/ j \in DOMAIN list /\ Append(list, r)[j] = list[j]
              \/ j = Len(list) + 1 /\ Append(list, r)[j] = r
<1>1. \A j \in DOMAIN list : list[j] \in Given
  OBVIOUS
<1>2. \A g \in Given : g.what \in Nat
  BY DEF Given
<1> QED
  BY <1>1, <1>2

\* The next element, at p, is handed out.
LEMMA PoolTakes ==
  ASSUME NEW size \in Nat, NEW buffer \in [1..size -> Nat], NEW idx \in Nat, NEW p \in Nat,
         NEW to \in Nat, NEW kind, NEW bound \in Nat, NEW list \in Seq(Given), NEW r \in Given,
         Pool(buffer, size, idx, kind, bound, list),
         idx < p, p <= size, p <= to, r.kind = kind, r.what = buffer[p]
  PROVE  Pool(buffer, size, to, kind, bound, Append(list, r))
<1> DEFINE new == Append(list, r)
<1>1. /\ \A j \in DOMAIN list : list[j] \in Given /\ list[j].what \in Nat
      /\ \A j \in DOMAIN new : \/ j \in DOMAIN list /\ new[j] = list[j]
                               \/ j = Len(list) + 1 /\ new[j] = r
  BY ListGrows
<1> HIDE DEF new
<1>2. p \in (idx + 1)..size /\ r.what \in Nat /\ r.what <= bound
  BY DEF Pool
<1>3. \A i \in (to + 1)..size : i \in (idx + 1)..size /\ r.what < buffer[i]
  BY <1>2 DEF Pool
<1>4. \A j \in DOMAIN list : list[j].kind = kind =>
        /\ list[j].what <= bound /\ list[j].what # r.what
        /\ \A i \in (to + 1)..size : list[j].what < buffer[i]
  BY <1>1, <1>2, <1>3 DEF Pool
<1>5. /\ \A i, k \in (to + 1)..size : i < k => buffer[i] < buffer[k]
      /\ \A i \in 1..size : buffer[i] <= bound
  BY <1>3 DEF Pool
<1>6. \A j \in DOMAIN new : new[j].kind = kind =>
        new[j].what <= bound /\ \A i \in (to + 1)..size : new[j].what < buffer[i]
  BY <1>1, <1>2, <1>3, <1>4
<1>7. ASSUME NEW i \in DOMAIN new, NEW j \in DOMAIN new, i # j, new[i].kind = kind, new[j].kind = kind
      PROVE  new[i].what # new[j].what
  <2>1. \A x, y \in DOMAIN list :
          x # y /\ list[x].kind = kind /\ list[y].kind = kind => list[x].what # list[y].what
    BY DEF Pool
  <2>2. CASE i \in DOMAIN list /\ new[i] = list[i]
    BY <1>1, <1>4, <1>7, <2>1, <2>2
  <2>3. CASE i = Len(list) + 1 /\ new[i] = r
    BY <1>1, <1>4, <1>7, <2>3
  <2> QED
    BY <1>1, <2>2, <2>3
<1> QED
  BY <1>5, <1>6, <1>7 DEF Pool, new

\* RAND_bytes() fills the pool with what comes behind all it produced before.
LEMMA PoolFills ==
  ASSUME NEW size \in Nat, NEW buffer, NEW idx, NEW kind, NEW bound \in Nat, NEW list \in Seq(Given),
         NEW more \in Nat, Pool(buffer, size, idx, kind, bound, list), bound + size <= more,
         NEW new, \A i \in 1..size : new[i] = bound + i
  PROVE  Pool(new, size, 0, kind, more, list)
<1>1. \A j \in DOMAIN list : list[j].what \in Nat
  <2>1. \A j \in DOMAIN list : list[j] \in Given
    OBVIOUS
  <2> QED
    BY <2>1 DEF Given
<1>2. \A j \in DOMAIN list : list[j].kind = kind => list[j].what <= bound
  BY DEF Pool
<1>3. /\ \A i, k \in (0 + 1)..size : i < k => new[i] < new[k]
      /\ \A i \in 1..size : new[i] <= more
  OBVIOUS
<1>4. \A j \in DOMAIN list : list[j].kind = kind =>
        list[j].what <= more /\ \A i \in (0 + 1)..size : list[j].what < new[i]
  BY <1>1, <1>2
<1> QED
  BY <1>3, <1>4 DEF Pool

\* Something else is handed out, and perhaps produced.
LEMMA PoolStays ==
  ASSUME NEW size \in Nat, NEW buffer \in [1..size -> Nat], NEW idx \in Nat, NEW kind, NEW bound \in Nat,
         NEW list \in Seq(Given), NEW r \in Given, NEW more \in Nat,
         Pool(buffer, size, idx, kind, bound, list), bound <= more, r.kind # kind
  PROVE  Pool(buffer, size, idx, kind, more, Append(list, r))
<1> DEFINE new == Append(list, r)
<1>1. /\ \A j \in DOMAIN list : list[j] \in Given /\ list[j].what \in Nat
      /\ \A j \in DOMAIN new : \/ j \in DOMAIN list /\ new[j] = list[j]
                               \/ j = Len(list) + 1 /\ new[j] = r
  BY ListGrows
<1> HIDE DEF new
<1>2. \A j \in DOMAIN new : new[j].kind = kind => j \in DOMAIN list /\ new[j] = list[j]
  BY <1>1
<1>3. \A i \in 1..size : buffer[i] <= more
  BY DEF Pool
<1>4. \A j \in DOMAIN new : new[j].kind = kind =>
        new[j].what <= more /\ \A i \in (idx + 1)..size : new[j].what < buffer[i]
  BY <1>1, <1>2 DEF Pool
<1>5. \A i, j \in DOMAIN new :
        i # j /\ new[i].kind = kind /\ new[j].kind = kind => new[i].what # new[j].what
  BY <1>2 DEF Pool
<1> QED
  BY <1>3, <1>4, <1>5 DEF Pool, new

RandomInv ==
  /\ words \in [1..Prefetch -> Nat] /\ words_idx \in 1..Prefetch
  /\ bytes \in [1..BufferSize -> Nat] /\ bytes_idx \in 0..BufferSize
  /\ fetched \in Nat /\ failed \in BOOLEAN /\ given \in Seq(Given)
  /\ \A i \in DOMAIN given : given[i].at \in 1..(IF given[i].kind = "word" THEN Prefetch ELSE BufferSize)
  /\ ~failed =>
       /\ Pool(words, Prefetch, words_idx, "word", Produced(fetched), given)
       /\ Pool(bytes, BufferSize, bytes_idx, "uuid", Produced(fetched), given)

\* Each call of RAND_bytes() produces enough for either pool.
LEMMA ProducedIs ==
  ASSUME Randoms!PoolSizes, NEW n \in Nat
  PROVE  /\ Produced(n) \in Nat /\ Produced(n + 1) \in Nat
         /\ Produced(n) + Prefetch <= Produced(n + 1) /\ Produced(n) + BufferSize <= Produced(n + 1)
<1>1. Prefetch \in Nat /\ BufferSize \in Nat
  BY DEF Randoms!PoolSizes
<1>2. \A k \in Nat : n * k \in Nat /\ (n + 1) * k = n * k + k
  OBVIOUS
<1> DEFINE k == Prefetch + BufferSize
<1>3. k \in Nat /\ Prefetch <= k /\ BufferSize <= k
  BY <1>1
<1> HIDE DEF k
<1>4. n * k \in Nat /\ (n + 1) * k = n * k + k
  BY <1>2, <1>3
<1>5. Produced(n) = n * k /\ Produced(n + 1) = (n + 1) * k
  BY DEF Produced, k
<1> HIDE DEF Produced
<1> DEFINE p == n * k
<1> HIDE DEF p
<1>6. Produced(n) = p /\ Produced(n + 1) = p + k /\ p \in Nat
  BY <1>4, <1>5 DEF p
<1> QED
  BY <1>1, <1>3, <1>6

\* What is handed out is noted with a place inside the buffer.
LEMMA GivenGrows ==
  ASSUME RandomInv, NEW r \in Given, given' = Append(given, r),
         r.at \in 1..(IF r.kind = "word" THEN Prefetch ELSE BufferSize)
  PROVE  /\ given' \in Seq(Given)
         /\ \A i \in DOMAIN given' :
              given'[i].at \in 1..(IF given'[i].kind = "word" THEN Prefetch ELSE BufferSize)
<1>1. given \in Seq(Given)
  BY DEF RandomInv
<1>2. /\ given' \in Seq(Given)
      /\ \A j \in DOMAIN given' : (j \in DOMAIN given /\ given'[j] = given[j]) \/ given'[j] = r
  BY <1>1, ListGrows
<1>3. \A i \in DOMAIN given : given[i].at \in 1..(IF given[i].kind = "word" THEN Prefetch ELSE BufferSize)
  BY DEF RandomInv
<1> QED
  BY <1>2, <1>3

\* random() hands out the next word.
LEMMA RandomKeeps ==
  ASSUME Randoms!PoolSizes, RandomInv, Randoms!Random
  PROVE  RandomInv'
<1> DEFINE r == [kind |-> "word", at |-> words_idx', what |-> words'[words_idx']]
           used == words_idx >= Prefetch
<1>1. PICK ok \in BOOLEAN :
        /\ words' = IF used THEN Randoms!RandBytes(words, ok) ELSE words
        /\ words_idx' = IF used THEN 1 ELSE words_idx + 1
        /\ fetched' = fetched + (IF used THEN 1 ELSE 0)
        /\ failed' = (failed \/ (used /\ ~ok))
        /\ given' = Append(given, [kind |-> "word", at |-> words_idx',
                     what |-> IF words_idx' \in DOMAIN words' THEN words'[words_idx'] ELSE 0])
        /\ bytes' = bytes /\ bytes_idx' = bytes_idx
  BY DEF Randoms!Random, Randoms!WordsUsedUp
<1>2. /\ Prefetch \in Nat \ {0} /\ BufferSize \in Nat /\ words \in [1..Prefetch -> Nat] /\ words_idx \in 1..Prefetch
      /\ bytes \in [1..BufferSize -> Nat] /\ bytes_idx \in 0..BufferSize
      /\ fetched \in Nat /\ failed \in BOOLEAN /\ given \in Seq(Given)
  BY DEF RandomInv, Randoms!PoolSizes
<1>3. /\ Produced(fetched) \in Nat /\ Produced(fetched + 1) \in Nat
      /\ Produced(fetched) + Prefetch <= Produced(fetched + 1)
      /\ Produced(fetched) + BufferSize <= Produced(fetched + 1)
  BY <1>2, ProducedIs
<1>4. ok => Randoms!RandBytes(words, ok) = [i \in 1..Prefetch |-> Produced(fetched) + i]
  BY <1>2 DEF Randoms!RandBytes, Produced
<1>5. ~ok => Randoms!RandBytes(words, ok) = words
  BY DEF Randoms!RandBytes
<1> HIDE DEF used
<1>6. words' \in [1..Prefetch -> Nat] /\ words_idx' \in 1..Prefetch
  <2>1. words_idx' \in 1..Prefetch
    BY <1>1, <1>2 DEF used
  <2>2. CASE used /\ ok
    <3>1. words' = [i \in 1..Prefetch |-> Produced(fetched) + i]
      BY <1>1, <1>4, <2>2, Zenon
    <3>2. \A i \in 1..Prefetch : Produced(fetched) + i \in Nat
      BY <1>2, <1>3
    <3> HIDE DEF Produced
    <3> QED
      BY <2>1, <3>1, <3>2
  <2>3. CASE ~used \/ ~ok
    BY <1>1, <1>2, <1>5, <2>1, <2>3
  <2> QED
    BY <2>2, <2>3
<1>7. given' = Append(given, r)
  BY <1>1, <1>6
<1>8. r \in Given /\ r.kind = "word" /\ r.what = words'[words_idx'] /\ r.at = words_idx'
  BY <1>2, <1>6 DEF Given
<1> HIDE DEF r
<1>9. /\ given' \in Seq(Given)
      /\ \A i \in DOMAIN given' :
           given'[i].at \in 1..(IF given'[i].kind = "word" THEN Prefetch ELSE BufferSize)
  BY <1>6, <1>7, <1>8, GivenGrows
<1>10. /\ fetched' \in Nat /\ failed' \in BOOLEAN /\ (fetched' = fetched \/ fetched' = fetched + 1)
       /\ Produced(fetched') \in Nat /\ Produced(fetched) <= Produced(fetched')
  BY <1>1, <1>2, <1>3
<1>11. ASSUME ~failed'
       PROVE  /\ Pool(words', Prefetch, words_idx', "word", Produced(fetched'), given')
              /\ Pool(bytes', BufferSize, bytes_idx', "uuid", Produced(fetched'), given')
  <2>1. ~failed /\ (used => ok)
    BY <1>1, <1>11
  <2>2. /\ Pool(words, Prefetch, words_idx, "word", Produced(fetched), given)
        /\ Pool(bytes, BufferSize, bytes_idx, "uuid", Produced(fetched), given)
    BY <2>1 DEF RandomInv
  <2>3. Pool(bytes, BufferSize, bytes_idx, "uuid", Produced(fetched'), Append(given, r))
    <3>1. bytes_idx \in Nat /\ r.kind # "uuid"
      BY <1>2, <1>8
    <3> QED
      BY <1>2, <1>3, <1>8, <1>10, <2>2, <3>1, PoolStays, Zenon
  <2>4. CASE used
    <3> DEFINE new == [i \in 1..Prefetch |-> Produced(fetched) + i]
    <3>1. words' = new /\ words_idx' = 1 /\ fetched' = fetched + 1
      BY <1>1, <1>4, <2>1, <2>4
    <3>2. Pool(new, Prefetch, 0, "word", Produced(fetched'), given)
      <4>1. /\ Prefetch \in Nat /\ given \in Seq(Given) /\ Produced(fetched) \in Nat
            /\ Produced(fetched') \in Nat /\ Produced(fetched) + Prefetch <= Produced(fetched')
        BY <1>2, <1>3, <3>1
      <4>2. \A i \in 1..Prefetch : new[i] = Produced(fetched) + i
        OBVIOUS
      <4> HIDE DEF new
      <4> QED
        BY <2>2, <4>1, <4>2, PoolFills, Zenon
    <3> HIDE DEF new
    <3>3. 0 \in Nat /\ 1 \in Nat /\ 0 < 1 /\ 1 <= Prefetch /\ 1 <= 1 /\ Prefetch \in Nat /\ r.what = words'[1]
      BY <1>2, <1>8, <3>1
    <3>4. Pool(words', Prefetch, 0, "word", Produced(fetched'), given)
      BY <3>1, <3>2, Zenon
    <3>5. Pool(words', Prefetch, 1, "word", Produced(fetched'), Append(given, r))
      BY <1>2, <1>6, <1>8, <1>10, <3>3, <3>4, PoolTakes, Zenon
    <3> QED
      BY <1>1, <1>7, <2>3, <3>1, <3>5
  <2>5. CASE ~used
    <3>1. words' = words /\ words_idx' = words_idx + 1 /\ fetched' = fetched
      <4>1. fetched + 0 = fetched
        BY <1>2
      <4> QED
        BY <1>1, <2>5, <4>1, Zenon
    <3>2. words_idx \in Nat /\ words_idx + 1 \in Nat /\ words_idx < words_idx + 1 /\ words_idx + 1 <= Prefetch
      BY <1>2, <1>6, <3>1
    <3>3. Pool(words, Prefetch, words_idx + 1, "word", Produced(fetched), Append(given, r))
      <4>1. r.what = words[words_idx + 1] /\ words_idx + 1 <= words_idx + 1 /\ Prefetch \in Nat
        BY <1>2, <1>8, <3>1
      <4> QED
        BY <1>2, <1>3, <1>8, <2>2, <3>2, <4>1, PoolTakes, Zenon
    <3> QED
      BY <1>1, <1>7, <2>3, <3>1, <3>3
  <2> QED
    BY <2>4, <2>5
<1> QED
  BY <1>1, <1>2, <1>6, <1>9, <1>10, <1>11 DEF RandomInv

\* uuid() hands out the next 16 bytes.
LEMMA UuidKeeps ==
  ASSUME Randoms!PoolSizes, RandomInv, Randoms!Uuid
  PROVE  RandomInv'
<1> DEFINE p == (bytes_idx' - 16) + 1
           r == [kind |-> "uuid", at |-> bytes_idx', what |-> bytes'[p]]
           used == bytes_idx + 16 > BufferSize
<1>1. PICK ok \in BOOLEAN :
        /\ bytes' = IF used THEN Randoms!RandBytes(bytes, ok) ELSE bytes
        /\ bytes_idx' = (IF used THEN 0 ELSE bytes_idx) + 16
        /\ fetched' = fetched + (IF used THEN 1 ELSE 0)
        /\ failed' = (failed \/ (used /\ ~ok))
        /\ given' = Append(given, r)
        /\ words' = words /\ words_idx' = words_idx
  BY DEF Randoms!Uuid, Randoms!BytesUsedUp, Randoms!UuidBytes
<1>2. /\ Prefetch \in Nat /\ BufferSize \in Nat /\ BufferSize >= 16
      /\ words \in [1..Prefetch -> Nat] /\ words_idx \in 1..Prefetch
      /\ bytes \in [1..BufferSize -> Nat] /\ bytes_idx \in 0..BufferSize
      /\ fetched \in Nat /\ failed \in BOOLEAN /\ given \in Seq(Given)
  BY DEF RandomInv, Randoms!PoolSizes
<1>3. /\ Produced(fetched) \in Nat /\ Produced(fetched + 1) \in Nat
      /\ Produced(fetched) + Prefetch <= Produced(fetched + 1)
      /\ Produced(fetched) + BufferSize <= Produced(fetched + 1)
  BY <1>2, ProducedIs
<1>4. ok => Randoms!RandBytes(bytes, ok) = [i \in 1..BufferSize |-> Produced(fetched) + i]
  BY <1>2 DEF Randoms!RandBytes, Produced
<1>5. ~ok => Randoms!RandBytes(bytes, ok) = bytes
  BY DEF Randoms!RandBytes
<1>6. /\ bytes_idx' \in 1..BufferSize /\ p \in 1..BufferSize /\ p <= bytes_idx'
      /\ p = (IF used THEN 0 ELSE bytes_idx) + 1
  BY <1>1, <1>2
<1> HIDE DEF used
<1>7. bytes' \in [1..BufferSize -> Nat]
  <2>2. CASE used /\ ok
    <3>1. bytes' = [i \in 1..BufferSize |-> Produced(fetched) + i]
      BY <1>1, <1>4, <2>2, Zenon
    <3>2. \A i \in 1..BufferSize : Produced(fetched) + i \in Nat
      BY <1>2, <1>3
    <3> HIDE DEF Produced
    <3> QED
      BY <3>1, <3>2
  <2>3. CASE ~used \/ ~ok
    BY <1>1, <1>2, <1>5, <2>3
  <2> QED
    BY <2>2, <2>3
<1> HIDE DEF p
<1>8. r \in Given /\ r.kind = "uuid" /\ r.what = bytes'[p] /\ r.at = bytes_idx'
  <2>1. bytes'[p] \in Nat /\ bytes_idx' \in Nat
    BY <1>2, <1>6, <1>7
  <2> QED
    BY <2>1 DEF Given
<1> HIDE DEF r
<1>9. /\ given' \in Seq(Given)
      /\ \A i \in DOMAIN given' :
           given'[i].at \in 1..(IF given'[i].kind = "word" THEN Prefetch ELSE BufferSize)
  BY <1>1, <1>6, <1>8, GivenGrows
<1>10. /\ fetched' \in Nat /\ failed' \in BOOLEAN /\ (fetched' = fetched \/ fetched' = fetched + 1)
       /\ Produced(fetched') \in Nat /\ Produced(fetched) <= Produced(fetched')
  BY <1>1, <1>2, <1>3
<1>11. ASSUME ~failed'
       PROVE  /\ Pool(words', Prefetch, words_idx', "word", Produced(fetched'), given')
              /\ Pool(bytes', BufferSize, bytes_idx', "uuid", Produced(fetched'), given')
  <2>1. ~failed /\ (used => ok)
    BY <1>1, <1>11
  <2>2. /\ Pool(words, Prefetch, words_idx, "word", Produced(fetched), given)
        /\ Pool(bytes, BufferSize, bytes_idx, "uuid", Produced(fetched), given)
    BY <2>1 DEF RandomInv
  <2>3. Pool(words, Prefetch, words_idx, "word", Produced(fetched'), Append(given, r))
    <3>1. words_idx \in Nat /\ r.kind # "word"
      BY <1>2, <1>8
    <3> QED
      BY <1>2, <1>3, <1>8, <1>10, <2>2, <3>1, PoolStays, Zenon
  <2>4. CASE used
    <3> DEFINE new == [i \in 1..BufferSize |-> Produced(fetched) + i]
    <3>1. bytes' = new /\ p = 1 /\ fetched' = fetched + 1
      <4>1. 0 + 1 = 1
        OBVIOUS
      <4> QED
        BY <1>1, <1>4, <1>6, <2>1, <2>4, <4>1, Zenon
    <3>2. Pool(new, BufferSize, 0, "uuid", Produced(fetched'), given)
      <4>1. /\ BufferSize \in Nat /\ given \in Seq(Given) /\ Produced(fetched) \in Nat
            /\ Produced(fetched') \in Nat /\ Produced(fetched) + BufferSize <= Produced(fetched')
        BY <1>2, <1>3, <3>1
      <4>2. \A i \in 1..BufferSize : new[i] = Produced(fetched) + i
        OBVIOUS
      <4> HIDE DEF new
      <4> QED
        BY <2>2, <4>1, <4>2, PoolFills, Zenon
    <3> HIDE DEF new
    <3>3. bytes_idx' \in Nat /\ p \in Nat /\ 0 < p /\ p <= BufferSize /\ p <= bytes_idx'
      BY <1>2, <1>6, <3>1
    <3>4. Pool(bytes', BufferSize, bytes_idx', "uuid", Produced(fetched'), Append(given, r))
      <4>1. Pool(bytes', BufferSize, 0, "uuid", Produced(fetched'), given) /\ 0 \in Nat
        BY <3>1, <3>2
      <4> QED
        BY <1>2, <1>7, <1>8, <1>10, <3>3, <4>1, PoolTakes, Zenon
    <3> QED
      BY <1>1, <2>3, <3>4
  <2>5. CASE ~used
    <3>1. bytes' = bytes /\ p = bytes_idx + 1 /\ fetched' = fetched
      <4>1. fetched + 0 = fetched
        BY <1>2
      <4> QED
        BY <1>1, <1>6, <2>5, <4>1, Zenon
    <3>2. /\ bytes_idx \in Nat /\ p \in Nat /\ bytes_idx < p /\ p <= BufferSize /\ p <= bytes_idx'
          /\ bytes_idx' \in Nat
      BY <1>2, <1>6, <3>1
    <3>3. Pool(bytes, BufferSize, bytes_idx', "uuid", Produced(fetched), Append(given, r))
      <4>1. r.what = bytes[p]
        BY <1>8, <3>1
      <4> QED
        BY <1>2, <1>3, <1>8, <2>2, <3>2, <4>1, PoolTakes, Zenon
    <3> QED
      BY <1>1, <2>3, <3>1, <3>3
  <2> QED
    BY <2>4, <2>5
<1>12. bytes_idx' \in 0..BufferSize
  BY <1>2, <1>6
<1> QED
  BY <1>1, <1>2, <1>7, <1>9, <1>10, <1>11, <1>12 DEF RandomInv

\* random() and uuid() read inside their buffers, and as long as no call of RAND_bytes()
\* failed nothing it produced is handed out twice, for pools of any size, any number of
\* refills and any order of the calls.
THEOREM RandomDataIsFresh ==
  ASSUME Randoms!PoolSizes
  PROVE  Randoms!Spec => []Randoms!DataIsFresh
<1>1. Randoms!Init => RandomInv
  <2> SUFFICES ASSUME Randoms!Init
               PROVE  RandomInv
    OBVIOUS
  <2>1. /\ words = [i \in 1..Prefetch |-> 0] /\ words_idx = Prefetch
        /\ bytes = [i \in 1..BufferSize |-> 0] /\ bytes_idx = BufferSize
        /\ fetched = 0 /\ failed = FALSE /\ given = <<>>
        /\ Prefetch \in Nat \ {0} /\ BufferSize \in Nat
    BY DEF Randoms!Init, Randoms!PoolSizes
  <2>2. Produced(0) \in Nat
    BY ProducedIs
  <2>3. /\ Pool(words, Prefetch, words_idx, "word", Produced(fetched), given)
        /\ Pool(bytes, BufferSize, bytes_idx, "uuid", Produced(fetched), given)
    BY <2>1, <2>2 DEF Pool
  <2>4. given \in Seq(Given) /\ DOMAIN given = {}
    BY <2>1
  <2>5. /\ words \in [1..Prefetch -> Nat] /\ words_idx \in 1..Prefetch
        /\ bytes \in [1..BufferSize -> Nat] /\ bytes_idx \in 0..BufferSize
        /\ fetched \in Nat
    BY <2>1
  <2>6. failed \in BOOLEAN
    BY <2>1, Zenon
  <2> QED
    BY <2>3, <2>4, <2>5, <2>6, Zenon DEF RandomInv
<1>2. RandomInv /\ [Randoms!Next]_(Randoms!vars) => RandomInv'
  <2> SUFFICES ASSUME RandomInv, [Randoms!Next]_(Randoms!vars)
               PROVE  RandomInv'
    OBVIOUS
  <2>1. CASE UNCHANGED Randoms!vars
    BY <2>1 DEF Randoms!vars, RandomInv, Pool
  <2> QED
    BY <2>1, RandomKeeps, UuidKeeps DEF Randoms!Next
<1>3. RandomInv => Randoms!DataIsFresh
  <2> SUFFICES ASSUME RandomInv
               PROVE  Randoms!DataIsFresh
    OBVIOUS
  <2>1. \A i \in DOMAIN given : given[i].kind \in {"word", "uuid"}
    <3>1. \A i \in DOMAIN given : given[i] \in Given
      BY DEF RandomInv
    <3> QED
      BY <3>1 DEF Given
  <2> QED
    BY <2>1 DEF RandomInv, Pool, Randoms!DataIsFresh
<1> QED
  BY <1>1, <1>2, <1>3, PTL DEF Randoms!Spec

------------------------------------------------------------------------------
(* The trie *)

CONSTANTS Byte, MaxKey, TrieValue, NoValue
VARIABLES entries, table

Trie == INSTANCE TrieLookupTable

\* Every node is below its parents, and has a value if something was stored there.
TrieInv ==
  /\ DOMAIN entries \subseteq Seq(Byte) /\ <<>> \in DOMAIN entries
  /\ \A k \in DOMAIN entries : \A n \in 0..Len(k) : SubSeq(k, 1, n) \in DOMAIN entries
  /\ DOMAIN table \subseteq DOMAIN entries
  /\ \A k \in DOMAIN table : table[k] \in TrieValue
  /\ \A k \in DOMAIN entries : entries[k] = IF k \in DOMAIN table THEN table[k] ELSE NoValue

\* Keys are sequences of bytes.
LEMMA KeyIs == ASSUME Trie!ValuesAreNotNull PROVE Trie!Key \subseteq Seq(Byte)
<1> SUFFICES ASSUME NEW n \in 0..MaxKey, NEW k \in [1..n -> Byte]
             PROVE  k \in Seq(Byte)
  BY DEF Trie!Key
<1>1. n \in Nat
  BY DEF Trie!ValuesAreNotNull
<1> QED
  BY <1>1

\* The prefixes of a key.
LEMMA PrefixIs ==
  ASSUME NEW k \in Seq(Byte)
  PROVE  /\ SubSeq(k, 1, Len(k)) = k /\ SubSeq(k, 1, 0) = <<>> /\ Len(k) \in Nat
         /\ \A n \in 0..Len(k) : SubSeq(k, 1, n) \in Seq(Byte) /\ Len(SubSeq(k, 1, n)) = n
         /\ \A n \in 0..Len(k), m \in 0..Len(k) :
              m <= n => SubSeq(SubSeq(k, 1, n), 1, m) = SubSeq(k, 1, m)
<1>1. SubSeq(k, 1, Len(k)) = k /\ SubSeq(k, 1, 0) = <<>> /\ Len(k) \in Nat
  OBVIOUS
<1>2. ASSUME NEW n \in 0..Len(k)
      PROVE  SubSeq(k, 1, n) \in Seq(Byte) /\ Len(SubSeq(k, 1, n)) = n
  OBVIOUS
<1>3. ASSUME NEW n \in 0..Len(k), NEW m \in 0..Len(k), m <= n
      PROVE  SubSeq(SubSeq(k, 1, n), 1, m) = SubSeq(k, 1, m)
  BY <1>2, <1>3
<1> QED
  BY <1>1, <1>2, <1>3

\* add() makes the nodes on the way and stores the value at the last.
LEMMA AddKeeps ==
  ASSUME Trie!ValuesAreNotNull, TrieInv, NEW key \in Trie!Key, NEW value \in TrieValue,
         NEW overwrite \in BOOLEAN, Trie!Add(key, value, overwrite)
  PROVE  TrieInv'
<1> DEFINE D == DOMAIN entries
           T == DOMAIN table
           nodes == D \cup {SubSeq(key, 1, n) : n \in 1..Len(key)}
           current == IF key \in D THEN entries[key] ELSE NoValue
           kept == current # NoValue /\ ~overwrite
<1>1. key \in Seq(Byte) /\ NoValue \notin TrieValue
  BY KeyIs DEF Trie!ValuesAreNotNull
<1>2. /\ SubSeq(key, 1, Len(key)) = key /\ SubSeq(key, 1, 0) = <<>> /\ Len(key) \in Nat
      /\ \A n \in 0..Len(key) : SubSeq(key, 1, n) \in Seq(Byte) /\ Len(SubSeq(key, 1, n)) = n
      /\ \A n \in 0..Len(key), m \in 0..Len(key) :
           m <= n => SubSeq(SubSeq(key, 1, n), 1, m) = SubSeq(key, 1, m)
  BY <1>1, PrefixIs
<1>3. /\ D \subseteq Seq(Byte) /\ <<>> \in D
      /\ \A k \in D : \A n \in 0..Len(k) : SubSeq(k, 1, n) \in D
      /\ T \subseteq D /\ \A k \in T : table[k] \in TrieValue
      /\ \A k \in D : entries[k] = IF k \in T THEN table[k] ELSE NoValue
  BY Zenon DEF TrieInv
<1>4. /\ entries' = [k \in nodes |-> IF k = key /\ ~kept THEN value
                                    ELSE IF k \in D THEN entries[k] ELSE NoValue]
      /\ table' = IF key \in T /\ ~overwrite THEN table
                  ELSE [k \in T \cup {key} |-> IF k = key THEN value ELSE table[k]]
  BY Zenon DEF Trie!Add, Trie!Prefix
<1>5. kept <=> key \in T /\ ~overwrite
  BY <1>1, <1>3
<1> HIDE DEF kept
<1>6. DOMAIN entries' = nodes /\ nodes \subseteq Seq(Byte) /\ D \subseteq nodes
  <2>1. DOMAIN entries' = nodes
    BY <1>4, Zenon
  <2>2. \A n \in 1..Len(key) : SubSeq(key, 1, n) \in Seq(Byte)
    <3>1. \A n \in 1..Len(key) : n \in 0..Len(key)
      BY <1>2
    <3> QED
      BY <1>2, <3>1, Zenon
  <2> QED
    BY <1>3, <2>1, <2>2, Zenon
<1>7. <<>> \in nodes /\ key \in nodes
  <2>1. CASE Len(key) = 0
    BY <1>2, <1>3, <2>1
  <2>2. CASE Len(key) # 0
    <3>1. Len(key) \in 1..Len(key)
      BY <1>2, <2>2
    <3> QED
      BY <1>2, <1>3, <3>1, Zenon
  <2> QED
    BY <2>1, <2>2
<1>8. ASSUME NEW k \in nodes, NEW m \in 0..Len(k)
      PROVE  SubSeq(k, 1, m) \in nodes
  <2>1. CASE k \in D
    BY <1>3, <2>1
  <2>2. CASE k \notin D
    <3>1. PICK n \in 1..Len(key) : k = SubSeq(key, 1, n)
      BY <2>2
    <3>2. Len(k) = n /\ m \in 0..Len(key) /\ n \in 0..Len(key) /\ m <= n
      BY <1>2, <3>1
    <3>3. SubSeq(k, 1, m) = SubSeq(key, 1, m)
      BY <1>2, <3>1, <3>2
    <3>4. CASE m = 0
      BY <1>2, <1>7, <3>3, <3>4
    <3>5. CASE m # 0
      BY <1>2, <3>2, <3>3, <3>5
    <3> QED
      BY <3>4, <3>5
  <2> QED
    BY <2>1, <2>2
<1> HIDE DEF nodes
<1>9. /\ DOMAIN table' \subseteq nodes
      /\ \A k \in DOMAIN table' : table'[k] \in TrieValue
      /\ \A k \in nodes : entries'[k] = IF k \in DOMAIN table' THEN table'[k] ELSE NoValue
  <2>1. CASE kept
    <3>1. table' = table /\ key \in T
      BY <1>4, <1>5, <2>1
    <3>2. \A k \in nodes : entries'[k] = IF k \in D THEN entries[k] ELSE NoValue
      BY <1>4, <2>1
    <3> QED
      BY <1>3, <1>6, <3>1, <3>2
  <2>2. CASE ~kept
    <3>1. table' = [k \in T \cup {key} |-> IF k = key THEN value ELSE table[k]]
      BY <1>4, <1>5, <2>2
    <3>2. \A k \in nodes : entries'[k] = IF k = key THEN value ELSE IF k \in D THEN entries[k] ELSE NoValue
      BY <1>4, <2>2
    <3> QED
      BY <1>3, <1>6, <1>7, <3>1, <3>2
  <2> QED
    BY <2>1, <2>2
<1> QED
  BY <1>6, <1>7, <1>8, <1>9 DEF TrieInv

\* findLongestPrefix() of a key that leaves the trie, or is stored.
LEMMA LongestIs ==
  ASSUME Trie!ValuesAreNotNull, TrieInv, NEW key \in Trie!Key,
         key \notin DOMAIN entries \/ key \in DOMAIN table
  PROVE  Trie!FindLongestPrefix(key) = Trie!LongestStored(key)
<1> DEFINE D == DOMAIN entries
           T == DOMAIN table
           missing == {n \in 1..Len(key) : SubSeq(key, 1, n) \notin D}
           stop == CHOOSE n \in missing : \A m \in missing : n <= m
           stored == {n \in 0..Len(key) : SubSeq(key, 1, n) \in T}
           best == CHOOSE n \in stored : \A m \in stored : m <= n
<1>1. key \in Seq(Byte) /\ NoValue \notin TrieValue
  BY KeyIs DEF Trie!ValuesAreNotNull
<1>2. /\ SubSeq(key, 1, Len(key)) = key /\ SubSeq(key, 1, 0) = <<>> /\ Len(key) \in Nat
      /\ \A n \in 0..Len(key) : SubSeq(key, 1, n) \in Seq(Byte) /\ Len(SubSeq(key, 1, n)) = n
      /\ \A n \in 0..Len(key), m \in 0..Len(key) :
           m <= n => SubSeq(SubSeq(key, 1, n), 1, m) = SubSeq(key, 1, m)
  BY <1>1, PrefixIs
<1>3. /\ D \subseteq Seq(Byte) /\ <<>> \in D
      /\ \A k \in D : \A n \in 0..Len(k) : SubSeq(k, 1, n) \in D
      /\ T \subseteq D /\ \A k \in T : table[k] \in TrieValue
      /\ \A k \in D : entries[k] = IF k \in T THEN table[k] ELSE NoValue
  BY Zenon DEF TrieInv
<1>4. Trie!LongestStored(key) = IF stored = {} THEN NoValue ELSE table[SubSeq(key, 1, best)]
  BY DEF Trie!LongestStored, Trie!StoredPrefixes, Trie!Prefix
<1>5. CASE key \in T
  <2>1. key \in D
    BY <1>3, <1>5
  <2>2. missing = {}
    BY <1>2, <1>3, <2>1
  <2>3. Trie!FindLongestPrefix(key) = entries[key]
    BY <2>2 DEF Trie!FindLongestPrefix, Trie!Prefix
  <2>4. Len(key) \in stored /\ \A m \in stored : m <= Len(key)
    <3>1. Len(key) \in 0..Len(key) /\ \A m \in 0..Len(key) : m <= Len(key)
      BY <1>2
    <3> QED
      BY <1>2, <1>5, <3>1, Zenon
  <2>5. best = Len(key)
    <3>1. best \in stored /\ \A m \in stored : m <= best
      BY <2>4
    <3>2. best \in Nat /\ Len(key) \in Nat
      BY <1>2, <3>1
    <3> HIDE DEF best
    <3> QED
      BY <2>4, <3>1, <3>2
  <2>6. Trie!LongestStored(key) = table[SubSeq(key, 1, Len(key))]
    <3> HIDE DEF best, stored
    <3> QED
      BY <1>4, <2>4, <2>5
  <2> QED
    BY <1>2, <1>3, <1>5, <2>1, <2>3, <2>6
<1>6. CASE key \notin D
  <2> DEFINE passed == {m \in 0..(stop - 1) : entries[SubSeq(key, 1, m)] # NoValue}
  <2>1. missing # {} /\ missing \subseteq Nat
    <3>1. Len(key) # 0
      BY <1>2, <1>3, <1>6
    <3>2. Len(key) \in missing
      <4>1. Len(key) \in 1..Len(key)
        BY <1>2, <3>1
      <4> QED
        BY <1>2, <1>6, <4>1, Zenon
    <3>3. missing \subseteq Nat
      OBVIOUS
    <3> HIDE DEF missing
    <3> QED
      BY <3>2, <3>3
  <2>2. stop \in missing /\ \A m \in missing : stop <= m
    <3>1. \E n \in missing : \A m \in missing : n <= m
      <4> HIDE DEF missing
      <4> QED
        BY <2>1, Smallest
    <3> HIDE DEF missing
    <3> QED
      BY <3>1
  <2>3. Trie!FindLongestPrefix(key) =
          IF passed = {} THEN NoValue
          ELSE entries[SubSeq(key, 1, CHOOSE m \in passed : \A o \in passed : o <= m)]
    BY <2>1 DEF Trie!FindLongestPrefix, Trie!Passed, Trie!Prefix
  <2>4. /\ stop \in 1..Len(key) /\ SubSeq(key, 1, stop) \notin D
        /\ \A n \in 1..Len(key) : n < stop => SubSeq(key, 1, n) \in D
    <3> HIDE DEF stop
    <3>1. stop \in 1..Len(key) /\ SubSeq(key, 1, stop) \notin D
      BY <2>2
    <3>2. ASSUME NEW n \in 1..Len(key), n < stop
          PROVE  SubSeq(key, 1, n) \in D
      BY <2>2, <3>1, <3>2
    <3> QED
      BY <3>1, <3>2
  <2> HIDE DEF stop, missing
  <2>5. ASSUME NEW m \in 0..Len(key), SubSeq(key, 1, m) \in D
        PROVE  m < stop
    <3>1. CASE stop <= m
      <4>1. SubSeq(SubSeq(key, 1, m), 1, stop) = SubSeq(key, 1, stop)
        BY <1>2, <2>4, <3>1
      <4>2. stop \in 0..Len(SubSeq(key, 1, m))
        BY <1>2, <2>4, <3>1
      <4> QED
        BY <1>3, <2>4, <2>5, <4>1, <4>2
    <3> QED
      BY <2>4, <3>1
  <2>6. \A m \in 0..(stop - 1) : m \in 0..Len(key) /\ SubSeq(key, 1, m) \in D
    <3>1. \A m \in 0..(stop - 1) : m \in 0..Len(key) /\ (m = 0 \/ (m \in 1..Len(key) /\ m < stop))
      BY <1>2, <2>4
    <3> QED
      BY <1>2, <1>3, <2>4, <3>1, Zenon
  <2>7. \A m \in 0..(stop - 1) : entries[SubSeq(key, 1, m)] # NoValue <=> SubSeq(key, 1, m) \in T
    BY <1>1, <1>3, <2>6
  <2>8. passed = stored
    <3>1. ASSUME NEW m \in stored
          PROVE  m \in passed
      <4>1. SubSeq(key, 1, m) \in D /\ m \in 0..Len(key)
        BY <1>3
      <4>2. m < stop
        BY <2>5, <4>1
      <4> QED
        BY <1>2, <2>4, <2>7, <4>1, <4>2
    <3>2. ASSUME NEW m \in passed
          PROVE  m \in stored
      BY <2>6, <2>7
    <3> HIDE DEF passed, stored
    <3> QED
      BY <3>1, <3>2
  <2>9. Trie!FindLongestPrefix(key) = IF stored = {} THEN NoValue ELSE entries[SubSeq(key, 1, best)]
    <3> HIDE DEF passed, stored
    <3> QED
      BY <2>3, <2>8
  <2>10. CASE stored = {}
    BY <1>4, <2>9, <2>10
  <2>11. CASE stored # {}
    <3>1. \E n \in stored : \A m \in stored : m <= n
      <4>1. stored \subseteq 0..Len(key)
        OBVIOUS
      <4> HIDE DEF stored
      <4> QED
        BY <1>2, <2>11, <4>1, Largest
    <3>2. best \in stored
      <4> HIDE DEF stored
      <4> QED
        BY <3>1
    <3> HIDE DEF best
    <3>3. SubSeq(key, 1, best) \in T /\ entries[SubSeq(key, 1, best)] = table[SubSeq(key, 1, best)]
      BY <1>3, <3>2
    <3> HIDE DEF stored
    <3> QED
      BY <1>4, <2>9, <2>11, <3>3
  <2> QED
    BY <2>10, <2>11
<1> QED
  BY <1>5, <1>6

\* find() and findLongestPrefix() of a TrieLookupTable return what add() stored, for
\* keys of any length and any bytes, in whatever order and however often keys that are
\* prefixes of each other are added.
THEOREM LookupsReturnWhatWasStored ==
  ASSUME Trie!ValuesAreNotNull
  PROVE  Trie!Spec => []Trie!LookupsAgree
<1>1. Trie!Init => TrieInv
  <2> SUFFICES ASSUME Trie!Init
               PROVE  TrieInv
    OBVIOUS
  <2>1. DOMAIN entries = {<<>>} /\ entries[<<>>] = NoValue /\ DOMAIN table = {}
    BY DEF Trie!Init
  <2>2. <<>> \in Seq(Byte) /\ \A n \in 0..Len(<<>>) : SubSeq(<<>>, 1, n) = <<>>
    OBVIOUS
  <2> QED
    BY <2>1, <2>2 DEF TrieInv
<1>2. TrieInv /\ [Trie!Next]_(Trie!vars) => TrieInv'
  <2> SUFFICES ASSUME TrieInv, [Trie!Next]_(Trie!vars)
               PROVE  TrieInv'
    OBVIOUS
  <2>1. CASE UNCHANGED Trie!vars
    BY <2>1 DEF Trie!vars, TrieInv
  <2>2. CASE Trie!Next
    BY <2>2, AddKeeps DEF Trie!Next
  <2> QED
    BY <2>1, <2>2
<1>3. TrieInv => Trie!LookupsAgree
  <2> SUFFICES ASSUME TrieInv, NEW key \in Trie!Key
               PROVE  /\ Trie!Find(key) = (IF key \in DOMAIN table THEN table[key] ELSE NoValue)
                      /\ key \notin DOMAIN entries \/ key \in DOMAIN table =>
                           Trie!FindLongestPrefix(key) = Trie!LongestStored(key)
    BY DEF Trie!LookupsAgree
  <2>1. Trie!Find(key) = (IF key \in DOMAIN table THEN table[key] ELSE NoValue)
    BY DEF TrieInv, Trie!Find
  <2> QED
    BY <2>1, LongestIs
<1> QED
  BY <1>1, <1>2, <1>3, PTL DEF Trie!Spec
===============================================================================
