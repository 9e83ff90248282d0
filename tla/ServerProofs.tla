----------------------------- MODULE ServerProofs -----------------------------
(***************************************************************************)
(* Proofs about module Server, for every number of workers and listeners:  *)
(* the count of listeners_pending_init is exact, the Startup notification  *)
(* comes after every worker added every listener, and what the worker      *)
(* threads still refer to (the counter of startWorkers(), the handler) is  *)
(* destroyed after its last use.  At the end, proofs about module          *)
(* ListenerManager, for any names, any number of workers and any number of *)
(* updates: no update destroys a listener that a worker knows of.          *)
(***************************************************************************)
EXTENDS Server, SequenceTheorems, FiniteSetTheorems, FunctionTheorems, TLAPS

(***************************************************************************)
(* The inductive invariant.                                                *)
(***************************************************************************)

Before == {"new", "starting", "waiting"}   \* startWorkers() has not returned
Has(item, s) == \E i \in 1..Len(s) : s[i] = item

\* "started" is the last callback of a list, if the list has one.
EndsWithStarted(s) == \A i \in 1..Len(s) : s[i] = "started" <=> i = Len(s)

\* No completion stands behind the Startup notification.
StartupBehind(s) ==
  \A i, j \in 1..Len(s) : i < j /\ s[i] = "startup" => s[j] # "completion"

\* Worker w has still to call DecrementCount().
NotStarted(w) == wpc[w] \in {"none", "posting"} \/ wq[w] # <<>> \/ wbatch[w] # <<>>

\* Where the main thread is says what it has done.
MainPhases ==
  /\ main \in {"starting", "stopping"} => next \in Worker
  /\ lm_started <=> main # "new"
  /\ main = "new" => pending = 0 /\ mainq = <<>> /\ init_calls = 0
  /\ mainbatch # <<>> => main = "batch"

\* Where a worker's thread is says what its dispatcher can hold.
WorkerPhase(w) ==
  /\ wpc[w] = "none" <=> main = "new" \/ (main = "starting" /\ w >= next)
  /\ wbatch[w] # <<>> => wpc[w] = "batch"
  /\ wq[w] # <<>> => main # "new" /\ wpc[w] \in {"none", "posting", "take"}
  /\ wpc[w] \in {"none", "posting"} => ~Has("started", wq[w])
  /\ wpc[w] \notin {"none", "posting"} =>
       EndsWithStarted(wq[w]) /\ EndsWithStarted(wbatch[w])
  /\ ~alive[w] => wpc[w] \in {"exited", "joined"}

WorkerPhases == \A w \in Worker : WorkerPhase(w)

\* Every listener is added, or still to be added, exactly once on each worker.
AddsAreExact ==
  \A w \in Worker : added[w] + ToAdd(w) = (IF lm_started THEN NumListeners ELSE 0)

\* workers_waiting_to_run counts the workers that have not run "started".
CounterIsExact ==
  /\ counter = (IF lm_started THEN Cardinality({w \in Worker : NotStarted(w)}) ELSE 0)
  /\ main \notin Before => counter = 0

\* Nothing posts a completion behind the Startup notification.
StartupIsLast ==
  /\ Has("startup", mainq) \/ Has("startup", mainbatch) \/ notified =>
       main \notin Before
  /\ StartupBehind(mainq) /\ StartupBehind(mainbatch)
  /\ Has("startup", mainbatch) \/ notified => ~Has("completion", mainq)
  /\ notified => ~Has("completion", mainbatch)

IndInv ==
  /\ TypeOK
  /\ MainPhases
  /\ WorkerPhases
  /\ AddsAreExact
  /\ CounterIsExact
  /\ StartupIsLast
  /\ PendingIsExact

------------------------------------------------------------------------------
(* Counting the elements of a sequence *)

Places(item, s) == {i \in DOMAIN s : s[i] = item}

\* The places of an item in a sequence are finitely many.
LEMMA CountType ==
  ASSUME NEW S, NEW s \in Seq(S), NEW item
  PROVE  /\ IsFiniteSet(Places(item, s))
         /\ Count(item, s) = Cardinality(Places(item, s))
         /\ Count(item, s) \in Nat
<1>1. /\ Len(s) \in Nat
      /\ DOMAIN s = 1..Len(s)
  BY LenProperties
<1>2. IsFiniteSet(1..Len(s))
  BY <1>1, FS_Interval
<1>3. Places(item, s) \in SUBSET (1..Len(s))
  BY <1>1 DEF Places
<1>4. IsFiniteSet(Places(item, s))
  BY <1>2, <1>3, FS_Subset
<1> QED
  BY <1>4, FS_CardinalityType DEF Count, Places

\* The empty list holds nothing.
LEMMA CountEmpty ==
  ASSUME NEW item
  PROVE  Count(item, <<>>) = 0
<1>1. {i \in DOMAIN <<>> : <<>>[i] = item} = {}
  OBVIOUS
<1> QED
  BY <1>1, FS_EmptySet DEF Count

\* An item is not in a list exactly when its count is zero.
LEMMA CountZero ==
  ASSUME NEW S, NEW s \in Seq(S), NEW item
  PROVE  Count(item, s) = 0 <=> ~Has(item, s)
<1>1. DOMAIN s = 1..Len(s)
  BY LenProperties
<1>2. Count(item, s) = 0 <=> Places(item, s) = {}
  BY CountType, FS_EmptySet
<1> QED
  BY <1>1, <1>2 DEF Places, Has

\* A list that grows by one element at its end.
LEMMA CountConcat ==
  ASSUME NEW S, NEW s \in Seq(S), NEW e \in S, NEW item
  PROVE  Count(item, s \o <<e>>) = Count(item, s) + (IF e = item THEN 1 ELSE 0)
<1> DEFINE t == s \o <<e>>
           n == Len(s)
<1>1. /\ n \in Nat
      /\ DOMAIN s = 1..n
  BY LenProperties
<1>2. /\ t \in Seq(S)
      /\ Len(t) = n + 1
      /\ \A i \in 1..(n + 1) : t[i] = IF i <= n THEN s[i] ELSE e
  <2>1. <<e>> \in Seq(S) /\ Len(<<e>>) = 1 /\ <<e>>[1] = e
    OBVIOUS
  <2>2. /\ t \in Seq(S)
        /\ Len(t) = n + 1
        /\ \A i \in 1..(n + 1) : t[i] = IF i <= n THEN s[i] ELSE <<e>>[i - n]
    BY <2>1, ConcatProperties
  <2>3. ASSUME NEW i \in 1..(n + 1), ~(i <= n)
        PROVE  <<e>>[i - n] = e
    BY <1>1, <2>1, <2>3
  <2> QED
    BY <2>2, <2>3
<1>3. DOMAIN t = 1..(n + 1)
  BY <1>2, LenProperties
<1>4. CASE e = item
  <2>1. Places(item, t) = Places(item, s) \cup {n + 1}
    BY <1>1, <1>2, <1>3, <1>4 DEF Places
  <2>2. (n + 1) \notin Places(item, s)
    BY <1>1 DEF Places
  <2>3. Cardinality(Places(item, t)) = Cardinality(Places(item, s)) + 1
    BY <2>1, <2>2, CountType, FS_AddElement
  <2> QED
    BY <1>2, <1>4, <2>3, CountType
<1>5. CASE e # item
  <2>1. Places(item, t) = Places(item, s)
    BY <1>1, <1>2, <1>3, <1>5 DEF Places
  <2>2. /\ Count(item, t) = Cardinality(Places(item, t))
        /\ Count(item, s) = Cardinality(Places(item, s))
        /\ Count(item, s) \in Nat
    BY <1>2, CountType
  <2> QED
    BY <1>5, <2>1, <2>2
<1> QED
  BY <1>4, <1>5

\* A list that loses its first element.
LEMMA CountTail ==
  ASSUME NEW S, NEW s \in Seq(S), s # <<>>, NEW item
  PROVE  Count(item, Tail(s)) = Count(item, s) - (IF Head(s) = item THEN 1 ELSE 0)
<1> DEFINE t == Tail(s)
           n == Len(s)
           P == Places(item, s) \ {1}
           F == [i \in Places(item, t) |-> i + 1]
<1>1. /\ n \in Nat \ {0}
      /\ DOMAIN s = 1..n
      /\ Head(s) = s[1]
  BY LenProperties, EmptySeq
<1>2. /\ t \in Seq(S)
      /\ Len(t) = n - 1
      /\ \A i \in 1..(n - 1) : t[i] = s[i + 1]
  BY HeadTailProperties
<1>3. DOMAIN t = 1..(n - 1)
  BY <1>2, LenProperties
<1>4. F \in [Places(item, t) -> P]
  <2> SUFFICES ASSUME NEW i \in Places(item, t)
               PROVE  i + 1 \in P
    OBVIOUS
  <2>1. i \in 1..(n - 1) /\ t[i] = item
    BY <1>3 DEF Places
  <2>2. i + 1 \in 1..n /\ s[i + 1] = item /\ i + 1 # 1
    BY <1>1, <1>2, <2>1
  <2> QED
    BY <1>1, <2>2 DEF Places
<1>5. \A a, b \in Places(item, t) : F[a] = F[b] => a = b
  BY <1>1, <1>3 DEF Places
<1>6. \A y \in P : \E x \in Places(item, t) : F[x] = y
  <2> TAKE y \in P
  <2>1. y \in 2..n /\ s[y] = item
    BY <1>1 DEF Places
  <2>2. y - 1 \in 1..(n - 1) /\ t[y - 1] = item /\ (y - 1) + 1 = y
    BY <1>1, <1>2, <2>1
  <2>3. y - 1 \in Places(item, t)
    BY <1>3, <2>2 DEF Places
  <2> WITNESS y - 1 \in Places(item, t)
  <2> QED
    BY <2>2, <2>3
<1>7. ExistsBijection(Places(item, t), P)
  <2>1. F \in Bijection(Places(item, t), P)
    <3> HIDE DEF F, P
    <3> QED
      BY <1>4, <1>5, <1>6, Fun_IsBij
  <2> QED
    BY <2>1 DEF ExistsBijection
<1>8. Cardinality(Places(item, t)) = Cardinality(P)
  <2> HIDE DEF P
  <2> QED
    BY <1>2, <1>7, CountType, FS_Bijection
<1>9. Cardinality(P) = IF 1 \in Places(item, s)
                       THEN Cardinality(Places(item, s)) - 1
                       ELSE Cardinality(Places(item, s))
  BY CountType, FS_RemoveElement
<1>10. 1 \in Places(item, s) <=> Head(s) = item
  BY <1>1 DEF Places
<1>11. /\ Count(item, t) = Cardinality(Places(item, t))
       /\ Count(item, s) = Cardinality(Places(item, s))
       /\ Count(item, s) \in Nat
  BY <1>2, CountType
<1> QED
  BY <1>8, <1>9, <1>10, <1>11

\* A list that repeats one item.
LEMMA CountConstant ==
  ASSUME NEW n \in Nat, NEW item
  PROVE  Count(item, [i \in 1..n |-> item]) = n
<1>1. {i \in DOMAIN [j \in 1..n |-> item] : [j \in 1..n |-> item][i] = item} = 1..n
  OBVIOUS
<1>2. Cardinality(1..n) = n
  BY FS_Interval
<1> QED
  BY <1>1, <1>2, Zenon DEF Count

------------------------------------------------------------------------------
(* Counting over the workers *)

\* A set of as many pairs <<w, i>> as f counts for worker w, for every w.
Pairs(f) == UNION {{w} \X (1..f[w]) : w \in Worker}
Counts == [Worker -> 0..NumListeners]

\* The pairs of f by the numbers of f.
LEMMA PairsAre ==
  ASSUME NEW f \in Counts
  PROVE  /\ Pairs(f) = {p \in Worker \X (1..NumListeners) : p[2] <= f[p[1]]}
         /\ IsFiniteSet(Pairs(f))
         /\ Cardinality(Pairs(f)) \in Nat
<1> DEFINE Q == {p \in Worker \X (1..NumListeners) : p[2] <= f[p[1]]}
<1>1. Pairs(f) \subseteq Q
  BY SizesAssumption DEF Pairs, Counts
<1>2. Q \subseteq Pairs(f)
  <2> SUFFICES ASSUME NEW p \in Q
               PROVE  p \in {p[1]} \X (1..f[p[1]]) /\ p[1] \in Worker
    BY DEF Pairs
  <2> QED
    BY SizesAssumption DEF Counts
<1>3. IsFiniteSet(Worker) /\ IsFiniteSet(1..NumListeners)
  BY SizesAssumption, FS_Interval DEF Worker
<1>4. IsFiniteSet(Worker \X (1..NumListeners))
  BY <1>3, FS_Product
<1>5. IsFiniteSet(Q)
  <2>1. Q \in SUBSET (Worker \X (1..NumListeners))
    OBVIOUS
  <2> QED
    BY <1>4, <2>1, FS_Subset
<1>6. Cardinality(Q) \in Nat
  <2> HIDE DEF Q
  <2> QED
    BY <1>5, FS_CardinalityType
<1> QED
  BY <1>1, <1>2, <1>5, <1>6

\* Every worker has every listener to add.
LEMMA PairsAll ==
  ASSUME NEW f \in Counts, \A w \in Worker : f[w] = NumListeners
  PROVE  Cardinality(Pairs(f)) = NumWorkers * NumListeners
<1>1. Pairs(f) = Worker \X (1..NumListeners)
  BY PairsAre, SizesAssumption DEF Counts
<1>2. /\ IsFiniteSet(Worker) /\ Cardinality(Worker) = NumWorkers
      /\ IsFiniteSet(1..NumListeners) /\ Cardinality(1..NumListeners) = NumListeners
  BY SizesAssumption, FS_Interval DEF Worker
<1>3. Cardinality(Worker \X (1..NumListeners)) =
        Cardinality(Worker) * Cardinality(1..NumListeners)
  BY <1>2, FS_Product
<1> QED
  BY <1>1, <1>2, <1>3

\* No worker has anything to add.
LEMMA PairsNone ==
  ASSUME NEW f \in Counts, \A w \in Worker : f[w] = 0
  PROVE  Cardinality(Pairs(f)) = 0
<1>1. Pairs(f) = {}
  BY PairsAre, SizesAssumption DEF Counts
<1> QED
  BY <1>1, FS_EmptySet

\* One worker adds one listener.
LEMMA PairsTakeOne ==
  ASSUME NEW f \in Counts, NEW g \in Counts, NEW v \in Worker,
         f[v] # 0, g[v] = f[v] - 1, \A w \in Worker \ {v} : g[w] = f[w]
  PROVE  Cardinality(Pairs(g)) = Cardinality(Pairs(f)) - 1
<1> DEFINE p == <<v, f[v]>>
<1>1. f[v] \in 1..NumListeners
  BY SizesAssumption DEF Counts
<1>2. p \in Pairs(f)
  BY <1>1, PairsAre DEF Counts
<1>3. Pairs(g) = Pairs(f) \ {p}
  <2>1. ASSUME NEW q \in Worker \X (1..NumListeners)
        PROVE  q[2] <= g[q[1]] <=> q[2] <= f[q[1]] /\ q # p
    <3>1. CASE q[1] = v
      <4>1. q = <<q[1], q[2]>> /\ q[2] \in 1..NumListeners
        BY <2>1
      <4>2. q[2] <= f[v] - 1 <=> q[2] <= f[v] /\ q[2] # f[v]
        BY <1>1, <4>1
      <4> QED
        BY <3>1, <4>1, <4>2
    <3>2. CASE q[1] # v
      BY <3>2, <2>1
    <3> QED
      BY <3>1, <3>2
  <2>2. /\ Pairs(f) = {q \in Worker \X (1..NumListeners) : q[2] <= f[q[1]]}
        /\ Pairs(g) = {q \in Worker \X (1..NumListeners) : q[2] <= g[q[1]]}
    BY PairsAre
  <2> HIDE DEF p
  <2> QED
    BY <2>1, <2>2
<1> HIDE DEF p
<1> QED
  BY <1>2, <1>3, PairsAre, FS_RemoveElement

\* What every worker has to add, as a function, and the number of completions.
LEMMA OnTheWayIs ==
  OnTheWay = Cardinality(Pairs([w \in Worker |-> ToAdd(w)]))
               + Count("completion", mainq) + Count("completion", mainbatch)
<1>1. Pairs([w \in Worker |-> ToAdd(w)]) = UNION {{w} \X (1..ToAdd(w)) : w \in Worker}
  BY DEF Pairs
<1> QED
  BY <1>1 DEF OnTheWay

------------------------------------------------------------------------------
(* What the lists keep *)

\* A list that is empty.
LEMMA EmptyList ==
  /\ \A item : ~Has(item, <<>>)
  /\ EndsWithStarted(<<>>)
  /\ StartupBehind(<<>>)
BY DEF Has, EndsWithStarted, StartupBehind

\* post(): a list that grows by one element at its end.
LEMMA PostedList ==
  ASSUME NEW S, NEW s \in Seq(S), NEW e \in S
  PROVE  /\ s \o <<e>> \in Seq(S)
         /\ s \o <<e>> # <<>>
         /\ \A item : Has(item, s \o <<e>>) <=> Has(item, s) \/ e = item
         /\ ~Has("started", s) /\ e = "started" => EndsWithStarted(s \o <<e>>)
         /\ StartupBehind(s) /\ (e = "completion" => ~Has("startup", s)) =>
              StartupBehind(s \o <<e>>)
<1> DEFINE t == s \o <<e>>
           n == Len(s)
<1>1. n \in Nat
  BY LenProperties
<1>2. /\ t \in Seq(S)
      /\ Len(t) = n + 1
      /\ \A i \in 1..(n + 1) : t[i] = IF i <= n THEN s[i] ELSE e
  <2>1. <<e>> \in Seq(S) /\ Len(<<e>>) = 1 /\ <<e>>[1] = e
    OBVIOUS
  <2>2. /\ t \in Seq(S)
        /\ Len(t) = n + 1
        /\ \A i \in 1..(n + 1) : t[i] = IF i <= n THEN s[i] ELSE <<e>>[i - n]
    BY <2>1, ConcatProperties
  <2>3. ASSUME NEW i \in 1..(n + 1), ~(i <= n)
        PROVE  <<e>>[i - n] = e
    BY <1>1, <2>1, <2>3
  <2> QED
    BY <2>2, <2>3
<1> HIDE DEF t
<1>3. t # <<>>
  BY <1>1, <1>2
<1>4. \A item : Has(item, t) <=> Has(item, s) \/ e = item
  BY <1>1, <1>2 DEF Has
<1>5. ~Has("started", s) /\ e = "started" => EndsWithStarted(t)
  BY <1>1, <1>2 DEF Has, EndsWithStarted
<1>6. StartupBehind(s) /\ (e = "completion" => ~Has("startup", s)) => StartupBehind(t)
  BY <1>1, <1>2 DEF Has, StartupBehind
<1> QED
  BY <1>2, <1>3, <1>4, <1>5, <1>6 DEF t

\* A list that loses its first element.
LEMMA ShorterList ==
  ASSUME NEW S, NEW s \in Seq(S), s # <<>>
  PROVE  /\ Tail(s) \in Seq(S)
         /\ Has(Head(s), s)
         /\ \A item : Has(item, Tail(s)) => Has(item, s)
         /\ EndsWithStarted(s) =>
              /\ EndsWithStarted(Tail(s))
              /\ Head(s) = "started" <=> Tail(s) = <<>>
         /\ StartupBehind(s) =>
              /\ StartupBehind(Tail(s))
              /\ Head(s) = "startup" => ~Has("completion", Tail(s))
<1> DEFINE t == Tail(s)
           n == Len(s)
<1>1. n \in Nat \ {0} /\ Head(s) = s[1]
  BY EmptySeq
<1>2. /\ t \in Seq(S)
      /\ Len(t) = n - 1
      /\ \A i \in 1..(n - 1) : t[i] = s[i + 1]
  BY HeadTailProperties
<1>3. t = <<>> <=> n = 1
  BY <1>1, <1>2, EmptySeq
<1> HIDE DEF t
<1>4. Has(Head(s), s)
  BY <1>1 DEF Has
<1>5. \A item : Has(item, t) => Has(item, s)
  BY <1>1, <1>2 DEF Has
<1>6. ASSUME EndsWithStarted(s)
      PROVE  EndsWithStarted(t) /\ (Head(s) = "started" <=> t = <<>>)
  BY <1>1, <1>2, <1>3, <1>6 DEF EndsWithStarted
<1>7. ASSUME StartupBehind(s)
      PROVE  StartupBehind(t) /\ (Head(s) = "startup" => ~Has("completion", t))
  BY <1>1, <1>2, <1>7 DEF Has, StartupBehind
<1> QED
  BY <1>2, <1>4, <1>5, <1>6, <1>7 DEF t

------------------------------------------------------------------------------
(* What the invariant says of a state *)

\* The workers whose "started" callback has not run.
Missing == {w \in Worker : NotStarted(w)}

\* The numbers that the invariant speaks of are natural numbers.
LEMMA NumbersType ==
  ASSUME TypeOK, AddsAreExact
  PROVE  /\ \A w \in Worker : ToAdd(w) \in Nat
         /\ [w \in Worker |-> ToAdd(w)] \in Counts
         /\ Count("completion", mainq) \in Nat
         /\ Count("completion", mainbatch) \in Nat
         /\ IsFiniteSet(Missing)
<1>1. \A w \in Worker : ToAdd(w) \in Nat
  BY CountType DEF TypeOK, ToAdd
<1>2. ASSUME NEW w \in Worker
      PROVE  ToAdd(w) \in 0..NumListeners
  <2>1. added[w] \in Nat /\ ToAdd(w) \in Nat
    BY <1>1 DEF TypeOK
  <2>2. added[w] + ToAdd(w) = NumListeners \/ added[w] + ToAdd(w) = 0
    BY DEF AddsAreExact
  <2> QED
    BY <2>1, <2>2, SizesAssumption
<1>3. Count("completion", mainq) \in Nat /\ Count("completion", mainbatch) \in Nat
  BY CountType DEF TypeOK
<1>4. IsFiniteSet(Missing)
  <2>1. IsFiniteSet(Worker)
    BY SizesAssumption, FS_Interval DEF Worker
  <2>2. Missing \in SUBSET Worker
    BY DEF Missing
  <2> QED
    BY <2>1, <2>2, FS_Subset
<1> QED
  BY <1>1, <1>2, <1>3, <1>4 DEF Counts

\* While a worker runs its callbacks, startWorkers() still waits for it.
LEMMA CounterPositive ==
  ASSUME IndInv, NEW w \in Worker, wbatch[w] # <<>>
  PROVE  lm_started /\ main \in Before /\ counter \in 1..NumWorkers
<1>1. wpc[w] = "batch"
  BY DEF IndInv, WorkerPhases, WorkerPhase
<1>2. lm_started
  BY <1>1 DEF IndInv, WorkerPhases, WorkerPhase, MainPhases
<1>3. w \in Missing
  BY DEF Missing, NotStarted
<1>4. IsFiniteSet(Missing)
  BY NumbersType DEF IndInv
<1>5. counter = Cardinality(Missing)
  BY <1>2 DEF IndInv, CounterIsExact, Missing
<1>6. counter # 0
  BY <1>3, <1>4, <1>5, FS_EmptySet
<1> QED
  BY <1>2, <1>6, SizesAssumption DEF IndInv, CounterIsExact, TypeOK

\* Once startWorkers() returned, the worker dispatchers hold no callback.
LEMMA WorkersAreQuiet ==
  ASSUME IndInv, main \notin Before
  PROVE  \A w \in Worker :
           wq[w] = <<>> /\ wbatch[w] = <<>> /\ wpc[w] \notin {"none", "posting"}
<1>1. lm_started /\ counter = 0
  BY DEF IndInv, MainPhases, CounterIsExact, Before
<1>2. Cardinality(Missing) = 0
  BY <1>1 DEF IndInv, CounterIsExact, Missing
<1>3. IsFiniteSet(Missing)
  BY NumbersType DEF IndInv
<1>4. Missing = {}
  BY <1>2, <1>3, FS_EmptySet
<1> QED
  BY <1>4 DEF Missing, NotStarted

\* While a completion waits in the batch, listeners_pending_init is not zero.
LEMMA PendingPositive ==
  ASSUME IndInv, mainbatch # <<>>, Head(mainbatch) = "completion"
  PROVE  pending \in Nat \ {0}
<1>1. mainbatch \in Seq(MainItem)
  BY DEF IndInv, TypeOK
<1>2. Has("completion", mainbatch)
  BY <1>1, ShorterList
<1>3. Count("completion", mainbatch) # 0
  BY <1>1, <1>2, CountZero
<1>4. pending = Cardinality(Pairs([w \in Worker |-> ToAdd(w)]))
                  + Count("completion", mainq) + Count("completion", mainbatch)
  BY OnTheWayIs DEF IndInv, PendingIsExact
<1>5. [w \in Worker |-> ToAdd(w)] \in Counts
  BY NumbersType DEF IndInv
<1>6. Cardinality(Pairs([w \in Worker |-> ToAdd(w)])) \in Nat
  BY <1>5, PairsAre
<1>7. Count("completion", mainq) \in Nat /\ Count("completion", mainbatch) \in Nat
  BY NumbersType DEF IndInv
<1> QED
  BY <1>3, <1>4, <1>6, <1>7

------------------------------------------------------------------------------
(* The initial states *)

\* The state before initialize().
LEMMA InitIndInv == Init => IndInv
<1> SUFFICES ASSUME Init
             PROVE  IndInv
  OBVIOUS
<1>1. TypeOK
  <2>1. <<>> \in Seq(MainItem) /\ <<>> \in Seq(WorkerItem)
    BY EmptySeq
  <2>2. wq \in [Worker -> Seq(WorkerItem)] /\ wbatch \in [Worker -> Seq(WorkerItem)]
    BY <2>1 DEF Init
  <2>3. mainq \in Seq(MainItem) /\ mainbatch \in Seq(MainItem)
    BY <2>1 DEF Init
  <2>4. next \in 1..(NumWorkers + 1) /\ counter \in 0..NumWorkers
    BY SizesAssumption DEF Init
  <2>5. wpc \in [Worker -> WorkerPC] /\ added \in [Worker -> Nat]
    BY DEF Init, WorkerPC
  <2>6. armed \in [Worker -> BOOLEAN] /\ alive \in [Worker -> BOOLEAN]
    BY DEF Init
  <2> QED
    BY <2>2, <2>3, <2>4, <2>5, <2>6 DEF Init, TypeOK, MainPC
<1>2. MainPhases
  BY DEF Init, MainPhases
<1>3. WorkerPhases
  <2> SUFFICES ASSUME NEW w \in Worker
               PROVE  WorkerPhase(w)
    BY DEF WorkerPhases, WorkerPhase
  <2>1. /\ main = "new" /\ wpc[w] = "none" /\ alive[w]
        /\ wq[w] = <<>> /\ wbatch[w] = <<>>
    BY DEF Init
  <2> QED
    BY <2>1, EmptyList DEF WorkerPhase
<1>4. \A w \in Worker : ToAdd(w) = 0
  BY CountEmpty DEF Init, ToAdd
<1>5. AddsAreExact
  BY <1>4 DEF Init, AddsAreExact
<1>6. CounterIsExact
  BY DEF Init, CounterIsExact, Before
<1>7. StartupIsLast
  BY EmptyList DEF Init, StartupIsLast
<1>8. PendingIsExact
  <2>1. [w \in Worker |-> ToAdd(w)] \in Counts
    BY <1>1, <1>5, NumbersType
  <2>2. Cardinality(Pairs([w \in Worker |-> ToAdd(w)])) = 0
    BY <1>4, <2>1, PairsNone
  <2>3. OnTheWay = 0
    BY <2>2, OnTheWayIs, CountEmpty DEF Init
  <2>4. init_calls # 1
    BY DEF Init
  <2>5. started = (init_calls = 1)
    BY <2>4, Zenon DEF Init
  <2> QED
    BY <2>3, <2>5 DEF Init, PendingIsExact
<1> QED
  BY <1>1, <1>2, <1>3, <1>5, <1>6, <1>7, <1>8 DEF IndInv

------------------------------------------------------------------------------
(* The steps *)

\* The steps that touch nothing of the workers.
MainOnly ==
  \/ WaitReturns \/ RunPostsStartup \/ RunStartsLoop \/ MainTake \/ MainRuns
  \/ MainBatchDone \/ MainFires \/ TimerFires \/ SayHello \/ StopWorkers
  \/ (\E w \in Worker : NumConnections(w)) \/ NumConnectionsReturns

\* They leave startWorkers() only when its counter is zero.
LEMMA MainOnlyKeeps ==
  ASSUME IndInv, MainOnly
  PROVE  /\ UNCHANGED <<workerVars, lm_started, counter>>
         /\ main' = "new" <=> main = "new"
         /\ main # "starting" /\ main' # "starting"
         /\ main' \notin Before => counter = 0
         /\ main \notin Before => main' \notin Before
<1> USE DEF workerVars, Before, IndInv, MainPhases, CounterIsExact
<1>1. CASE WaitReturns
  BY <1>1 DEF WaitReturns
<1>2. CASE RunPostsStartup
  BY <1>2 DEF RunPostsStartup
<1>3. CASE RunStartsLoop
  BY <1>3 DEF RunStartsLoop
<1>4. CASE MainTake
  BY <1>4 DEF MainTake
<1>5. CASE MainRuns
  BY <1>5 DEF MainRuns
<1>6. CASE MainBatchDone
  BY <1>6 DEF MainBatchDone
<1>7. CASE MainFires
  BY <1>7 DEF MainFires
<1>8. CASE TimerFires
  BY <1>8 DEF TimerFires
<1>9. CASE SayHello
  BY <1>9 DEF SayHello
<1>10. CASE StopWorkers
  BY <1>10 DEF StopWorkers
<1>11. CASE \E w \in Worker : NumConnections(w)
  BY <1>11 DEF NumConnections
<1>12. CASE NumConnectionsReturns
  BY <1>12 DEF NumConnectionsReturns
<1> QED
  BY <1>1, <1>2, <1>3, <1>4, <1>5, <1>6, <1>7, <1>8, <1>9, <1>10, <1>11, <1>12
     DEF MainOnly

\* Every step is one of these.
LEMMA StepCases ==
  ASSUME [Next]_vars
  PROVE  \/ MainOnly \/ Initialize \/ StartWorker \/ JoinReturns
         \/ \E w \in Worker : WorkerStep(w)
         \/ UNCHANGED vars
BY DEF Next, MainStep, UserOps, MainOnly

\* The types of the main thread's variables.
MainTypes ==
  /\ main \in MainPC /\ next \in 1..(NumWorkers + 1)
  /\ started \in BOOLEAN /\ lm_started \in BOOLEAN /\ timer \in BOOLEAN
  /\ counter \in 0..NumWorkers /\ pending \in Nat
  /\ main_armed \in BOOLEAN /\ init_calls \in Nat /\ notified \in BOOLEAN

\* They keep their types.
LEMMA MainTypeStep ==
  ASSUME IndInv, [Next]_vars
  PROVE  MainTypes'
<1>1. MainTypes
  BY DEF IndInv, TypeOK, MainTypes
<1> USE <1>1, SizesAssumption DEF MainTypes, MainPC, PostMain, mainPost, mainVars, history
<1>2. CASE MainOnly
  <2>1. CASE MainRuns
    <3>1. CASE mainbatch # <<>> /\ Head(mainbatch) = "completion" /\ RunCompletion
      <4>1. pending \in Nat \ {0}
        BY <3>1, PendingPositive
      <4> QED
        BY <2>1, <3>1, <4>1 DEF MainRuns, RunCompletion
    <3>2. CASE Head(mainbatch) = "startup" /\ RunStartup
      BY <2>1, <3>2 DEF MainRuns, RunStartup
    <3>3. CASE UNCHANGED <<pending, started, mainq, main_armed, history>>
      BY <2>1, <3>3 DEF MainRuns
    <3> QED
      BY <2>1, <3>1, <3>2, <3>3 DEF MainRuns
  <2>2. CASE WaitReturns \/ RunPostsStartup \/ RunStartsLoop \/ MainTake
    BY <2>2 DEF WaitReturns, RunPostsStartup, RunStartsLoop, MainTake
  <2>3. CASE MainBatchDone \/ MainFires \/ TimerFires \/ SayHello
    BY <2>3 DEF MainBatchDone, MainFires, TimerFires, SayHello
  <2>4. CASE StopWorkers \/ NumConnectionsReturns
    BY <2>4 DEF StopWorkers, NumConnectionsReturns
  <2>5. CASE \E w \in Worker : NumConnections(w)
    BY <2>5 DEF NumConnections, Worker
  <2> QED
    BY <1>2, <2>1, <2>2, <2>3, <2>4, <2>5 DEF MainOnly
<1>3. CASE Initialize
  BY <1>3 DEF Initialize
<1>4. CASE StartWorker
  <2>1. next \in 1..NumWorkers
    BY <1>4 DEF StartWorker, IndInv, MainPhases, Worker
  <2> QED
    BY <1>4, <2>1 DEF StartWorker
<1>5. CASE JoinReturns
  <2>1. next \in 1..NumWorkers
    BY <1>5 DEF JoinReturns, IndInv, MainPhases, Worker
  <2> QED
    BY <1>5, <2>1 DEF JoinReturns
<1>6. ASSUME NEW w \in Worker, WorkerStep(w)
      PROVE  MainTypes'
  <2>1. CASE WorkerStarted(w)
    <3>1. counter \in 1..NumWorkers
      BY <2>1, CounterPositive DEF WorkerStarted
    <3> QED
      BY <2>1, <3>1 DEF WorkerStarted
  <2>2. CASE WorkerPosts(w) \/ WorkerTake(w) \/ WorkerAddsListener(w) \/ WorkerBatchDone(w)
    BY <2>2 DEF WorkerPosts, WorkerTake, WorkerAddsListener, WorkerBatchDone
  <2>3. CASE WorkerFires(w) \/ WorkerLoopReturns(w) \/ WorkerExits(w)
    BY <2>3 DEF WorkerFires, WorkerLoopReturns, WorkerExits
  <2> QED
    BY <1>6, <2>1, <2>2, <2>3 DEF WorkerStep
<1>7. CASE UNCHANGED vars
  BY <1>7 DEF vars
<1> QED
  BY <1>2, <1>3, <1>4, <1>5, <1>6, <1>7, StepCases

\* What the dispatchers hold, and the variables of the workers.
ListTypes ==
  /\ mainq \in Seq(MainItem) /\ mainbatch \in Seq(MainItem)
  /\ wq \in [Worker -> Seq(WorkerItem)] /\ wbatch \in [Worker -> Seq(WorkerItem)]
  /\ wpc \in [Worker -> WorkerPC] /\ added \in [Worker -> Nat]
  /\ armed \in [Worker -> BOOLEAN] /\ alive \in [Worker -> BOOLEAN]

\* They keep their types.
LEMMA ListTypeStep ==
  ASSUME IndInv, [Next]_vars
  PROVE  ListTypes'
<1>1. ListTypes
  BY DEF IndInv, TypeOK, ListTypes
<1>2. /\ \A e \in MainItem : mainq \o <<e>> \in Seq(MainItem)
      /\ mainbatch # <<>> => Tail(mainbatch) \in Seq(MainItem)
      /\ <<>> \in Seq(MainItem) /\ <<>> \in Seq(WorkerItem)
  BY <1>1, PostedList, ShorterList, EmptySeq DEF ListTypes
<1> USE <1>1 DEF ListTypes, mainPost, mainVars, workerVars, history, WorkerPC
<1>3. CASE MainOnly
  <2>1. UNCHANGED workerVars
    BY <1>3, MainOnlyKeeps
  <2>2. mainq' \in Seq(MainItem) /\ mainbatch' \in Seq(MainItem)
    <3>1. CASE WaitReturns \/ RunPostsStartup \/ RunStartsLoop \/ MainTake
      BY <1>2, <3>1 DEF WaitReturns, RunPostsStartup, RunStartsLoop, MainTake, PostMain,
                        MainItem
    <3>2. CASE MainRuns
      BY <1>2, <3>2 DEF MainRuns, RunCompletion, RunStartup, PostMain, MainItem
    <3>3. CASE MainBatchDone \/ MainFires \/ TimerFires \/ SayHello \/ StopWorkers
      BY <3>3 DEF MainBatchDone, MainFires, TimerFires, SayHello, StopWorkers
    <3>4. CASE (\E w \in Worker : NumConnections(w)) \/ NumConnectionsReturns
      BY <3>4 DEF NumConnections, NumConnectionsReturns
    <3> QED
      BY <1>3, <3>1, <3>2, <3>3, <3>4 DEF MainOnly
  <2> QED
    BY <2>1, <2>2
<1>4. CASE Initialize
  <2>1. [i \in 1..NumListeners |-> "add"] \in Seq(WorkerItem)
    BY SizesAssumption DEF WorkerItem
  <2> QED
    BY <1>4, <2>1 DEF Initialize
<1>5. CASE StartWorker \/ JoinReturns
  BY <1>5 DEF StartWorker, JoinReturns
<1>6. ASSUME NEW w \in Worker, WorkerStep(w)
      PROVE  ListTypes'
  <2>1. CASE WorkerPosts(w)
    <3>1. Append(wq[w], "started") \in Seq(WorkerItem)
      BY DEF WorkerItem
    <3> QED
      BY <2>1, <3>1 DEF WorkerPosts
  <2>2. CASE WorkerTake(w)
    BY <1>2, <2>2 DEF WorkerTake
  <2>3. CASE WorkerAddsListener(w)
    <3>1. Tail(wbatch[w]) \in Seq(WorkerItem) /\ added[w] + 1 \in Nat
      BY <2>3, ShorterList DEF WorkerAddsListener
    <3> QED
      BY <1>2, <2>3, <3>1 DEF WorkerAddsListener, PostMain, MainItem
  <2>4. CASE WorkerStarted(w)
    <3>1. Tail(wbatch[w]) \in Seq(WorkerItem)
      BY <2>4, ShorterList DEF WorkerStarted
    <3> QED
      BY <2>4, <3>1 DEF WorkerStarted
  <2>5. CASE WorkerBatchDone(w) \/ WorkerFires(w) \/ WorkerLoopReturns(w) \/ WorkerExits(w)
    BY <2>5 DEF WorkerBatchDone, WorkerFires, WorkerLoopReturns, WorkerExits
  <2> QED
    BY <1>6, <2>1, <2>2, <2>3, <2>4, <2>5 DEF WorkerStep
<1>7. CASE UNCHANGED vars
  BY <1>7 DEF vars
<1> QED
  BY <1>3, <1>4, <1>5, <1>6, <1>7, StepCases

\* A step keeps what the phase of the main thread says.
LEMMA MainPhasesStep ==
  ASSUME IndInv, [Next]_vars
  PROVE  MainPhases'
<1>1. MainPhases /\ TypeOK
  BY DEF IndInv
<1> USE <1>1, SizesAssumption
    DEF MainPhases, mainPost, mainVars, workerVars, history, Worker
<1>2. CASE MainOnly
  <2>1. CASE WaitReturns \/ RunPostsStartup \/ RunStartsLoop \/ MainTake
    BY <2>1 DEF WaitReturns, RunPostsStartup, RunStartsLoop, MainTake, PostMain
  <2>2. CASE MainRuns
    BY <2>2 DEF MainRuns
  <2>3. CASE MainBatchDone \/ MainFires \/ TimerFires \/ SayHello
    BY <2>3 DEF MainBatchDone, MainFires, TimerFires, SayHello
  <2>4. CASE StopWorkers \/ (\E w \in Worker : NumConnections(w)) \/ NumConnectionsReturns
    BY <2>4 DEF StopWorkers, NumConnections, NumConnectionsReturns
  <2> QED
    BY <1>2, <2>1, <2>2, <2>3, <2>4 DEF MainOnly
<1>3. CASE Initialize
  BY <1>3 DEF Initialize
<1>4. CASE StartWorker \/ JoinReturns
  <2>1. next \in 1..NumWorkers /\ main # "new"
    BY <1>4 DEF StartWorker, JoinReturns
  <2>2. next # NumWorkers => next + 1 \in 1..NumWorkers
    BY <2>1
  <2>3. CASE StartWorker
    BY <2>1, <2>2, <2>3 DEF StartWorker
  <2>4. CASE JoinReturns
    BY <2>1, <2>2, <2>4 DEF JoinReturns
  <2> QED
    BY <1>4, <2>3, <2>4
<1>5. ASSUME NEW w \in Worker, WorkerStep(w)
      PROVE  MainPhases'
  <2>1. CASE WorkerAddsListener(w)
    <3>1. main # "new"
      BY <2>1 DEF WorkerAddsListener, IndInv, WorkerPhases, WorkerPhase
    <3> QED
      BY <2>1, <3>1 DEF WorkerAddsListener, PostMain
  <2>2. CASE WorkerPosts(w) \/ WorkerTake(w) \/ WorkerStarted(w) \/ WorkerBatchDone(w)
    BY <2>2 DEF WorkerPosts, WorkerTake, WorkerStarted, WorkerBatchDone
  <2>3. CASE WorkerFires(w) \/ WorkerLoopReturns(w) \/ WorkerExits(w)
    BY <2>3 DEF WorkerFires, WorkerLoopReturns, WorkerExits
  <2> QED
    BY <1>5, <2>1, <2>2, <2>3 DEF WorkerStep
<1>6. CASE UNCHANGED vars
  BY <1>6 DEF vars
<1> QED
  BY <1>2, <1>3, <1>4, <1>5, <1>6, StepCases

\* A step keeps what the phase of each worker says.
LEMMA WorkerPhasesStep ==
  ASSUME IndInv, [Next]_vars
  PROVE  WorkerPhases'
<1>1. TypeOK /\ MainPhases /\ WorkerPhases
  BY DEF IndInv
<1> SUFFICES ASSUME NEW v \in Worker
             PROVE  WorkerPhase(v)'
  BY DEF WorkerPhases
<1> USE DEF mainPost, mainVars, workerVars, history
<1>2. CASE MainOnly
  BY <1>1, <1>2, MainOnlyKeeps DEF WorkerPhases, WorkerPhase
<1>3. CASE Initialize
  <2>1. /\ main = "new" /\ main' = "starting" /\ next' = 1
        /\ wq'[v] = [i \in 1..NumListeners |-> "add"]
        /\ wpc' = wpc /\ wbatch' = wbatch /\ alive' = alive
    BY <1>3 DEF Initialize
  <2>2. ~Has("started", wq'[v])
    <3>1. wq'[v] \in Seq(WorkerItem) /\ DOMAIN wq'[v] = 1..NumListeners
      BY <2>1, SizesAssumption DEF WorkerItem
    <3>2. 1..Len(wq'[v]) = 1..NumListeners
      BY <3>1, LenProperties
    <3> QED
      BY <2>1, <3>2 DEF Has
  <2>3. v >= 1
    BY SizesAssumption DEF Worker
  <2> QED
    BY <1>1, <2>1, <2>2, <2>3 DEF WorkerPhases, WorkerPhase
<1>4. CASE StartWorker
  <2>1. next \in Worker /\ v \in Nat /\ next \in Nat
    BY <1>1, <1>4, SizesAssumption DEF StartWorker, MainPhases, Worker
  <2>2. CASE v = next
    <3>1. /\ wpc[v] = "none" /\ wpc'[v] = "posting" /\ main' # "new"
          /\ main' = "starting" => ~(v >= next')
      BY <1>1, <1>4, <2>1, <2>2 DEF StartWorker, WorkerPhases, WorkerPhase, TypeOK
    <3> QED
      BY <1>1, <1>4, <3>1, EmptyList DEF StartWorker, WorkerPhases, WorkerPhase
  <2>3. CASE v # next
    <3>1. /\ wpc'[v] = wpc[v] /\ main = "starting" /\ main' # "new"
          /\ v >= next <=> main' = "starting" /\ v >= next'
      BY <1>1, <1>4, <2>1, <2>3, SizesAssumption DEF StartWorker, TypeOK, Worker
    <3> QED
      BY <1>1, <1>4, <3>1 DEF StartWorker, WorkerPhases, WorkerPhase
  <2> QED
    BY <2>2, <2>3
<1>5. CASE JoinReturns
  <2>1. /\ main \notin {"new", "starting"} /\ main' \notin {"new", "starting"}
        /\ wpc'[v] # wpc[v] => wpc[v] = "exited" /\ wpc'[v] = "joined"
    BY <1>1, <1>5 DEF JoinReturns, TypeOK
  <2> QED
    BY <1>1, <1>5, <2>1 DEF JoinReturns, WorkerPhases, WorkerPhase
<1>6. ASSUME NEW w \in Worker, WorkerStep(w)
      PROVE  WorkerPhase(v)'
  <2>1. /\ main' = main /\ next' = next
        /\ v # w => /\ wpc'[v] = wpc[v] /\ wq'[v] = wq[v] /\ wbatch'[v] = wbatch[v]
                    /\ alive'[v] = alive[v]
    BY <1>1, <1>6 DEF WorkerStep, WorkerPosts, WorkerTake, WorkerAddsListener,
                      WorkerStarted, WorkerBatchDone, WorkerFires, WorkerLoopReturns,
                      WorkerExits, TypeOK
  <2>2. CASE v # w
    BY <1>1, <2>1, <2>2 DEF WorkerPhases, WorkerPhase
  <2>3. ASSUME v = w, WorkerPosts(w)
        PROVE  WorkerPhase(v)'
    <3>1. wq[w] \in Seq(WorkerItem) /\ "started" \in WorkerItem
      BY <1>1 DEF TypeOK, WorkerItem
    <3>2. /\ Append(wq[w], "started") = wq[w] \o <<"started">>
          /\ wq'[w] = Append(wq[w], "started")
          /\ wpc'[w] = "take" /\ wbatch' = wbatch
      <4>1. Append(wq[w], "started") = wq[w] \o <<"started">>
        BY <3>1, AppendIsConcat
      <4> QED
        BY <1>1, <2>3, <4>1 DEF WorkerPosts, TypeOK
    <3>3. EndsWithStarted(wq'[w])
      <4>1. ~Has("started", wq[w])
        BY <1>1, <2>3 DEF WorkerPosts, WorkerPhases, WorkerPhase
      <4>2. EndsWithStarted(wq[w] \o <<"started">>)
        BY <3>1, <4>1, PostedList
      <4> QED
        BY <3>2, <4>2
    <3>4. wbatch[w] = <<>> /\ main # "new"
      BY <1>1, <2>3 DEF WorkerPosts, WorkerPhases, WorkerPhase
    <3> QED
      BY <1>1, <2>1, <2>3, <3>2, <3>3, <3>4, EmptyList DEF WorkerPosts, WorkerPhases, WorkerPhase
  <2>4. ASSUME v = w, WorkerTake(w)
        PROVE  WorkerPhase(v)'
    BY <1>1, <2>1, <2>4, EmptyList DEF WorkerTake, WorkerPhases, WorkerPhase, TypeOK
  <2>5. ASSUME v = w, WorkerAddsListener(w) \/ WorkerStarted(w)
        PROVE  WorkerPhase(v)'
    <3>1. wbatch[w] \in Seq(WorkerItem) /\ wbatch[w] # <<>> /\ wpc[w] = "batch"
      BY <1>1, <2>5 DEF TypeOK, WorkerAddsListener, WorkerStarted
    <3>2. /\ wbatch'[w] = Tail(wbatch[w])
          /\ wpc' = wpc /\ wq' = wq /\ alive' = alive
      BY <1>1, <2>5 DEF TypeOK, WorkerAddsListener, WorkerStarted
    <3>3. EndsWithStarted(wbatch'[w])
      BY <1>1, <3>1, <3>2, ShorterList DEF WorkerPhases, WorkerPhase
    <3> QED
      BY <1>1, <2>1, <2>5, <3>1, <3>2, <3>3 DEF WorkerPhases, WorkerPhase
  <2>6. ASSUME v = w, WorkerBatchDone(w) \/ WorkerFires(w) \/ WorkerLoopReturns(w)
        PROVE  WorkerPhase(v)'
    BY <1>1, <2>1, <2>6 DEF WorkerBatchDone, WorkerFires, WorkerLoopReturns, WorkerPhases, WorkerPhase,
                            TypeOK
  <2>7. ASSUME v = w, WorkerExits(w)
        PROVE  WorkerPhase(v)'
    BY <1>1, <2>1, <2>7 DEF WorkerExits, WorkerPhases, WorkerPhase, TypeOK
  <2> QED
    BY <1>6, <2>2, <2>3, <2>4, <2>5, <2>6, <2>7 DEF WorkerStep
<1>7. CASE UNCHANGED vars
  BY <1>1, <1>7 DEF vars, WorkerPhases, WorkerPhase
<1> QED
  BY <1>2, <1>3, <1>4, <1>5, <1>6, <1>7, StepCases

------------------------------------------------------------------------------
(* The numbers *)

\* Steps that add no listener leave every worker with as much to add.
LEMMA ToAddKept ==
  ASSUME IndInv,
         \/ MainOnly \/ StartWorker \/ JoinReturns \/ UNCHANGED vars
         \/ \E w \in Worker : WorkerStep(w) /\ ~WorkerAddsListener(w)
  PROVE  /\ \A v \in Worker : ToAdd(v)' = ToAdd(v)
         /\ added' = added /\ lm_started' = lm_started
<1>1. TypeOK /\ WorkerPhases
  BY DEF IndInv
<1> USE DEF mainVars, mainPost, workerVars, history
<1>2. CASE MainOnly
  BY <1>2, MainOnlyKeeps DEF ToAdd
<1>3. CASE StartWorker \/ JoinReturns
  BY <1>3 DEF StartWorker, JoinReturns, ToAdd
<1>4. CASE UNCHANGED vars
  BY <1>4 DEF vars, ToAdd
<1>5. ASSUME NEW w \in Worker, WorkerStep(w), ~WorkerAddsListener(w)
      PROVE  /\ \A v \in Worker : ToAdd(v)' = ToAdd(v)
             /\ added' = added /\ lm_started' = lm_started
  <2>1. /\ added' = added /\ lm_started' = lm_started
        /\ \A v \in Worker \ {w} : wq'[v] = wq[v] /\ wbatch'[v] = wbatch[v]
    BY <1>1, <1>5 DEF WorkerStep, WorkerPosts, WorkerTake, WorkerStarted, WorkerBatchDone,
                      WorkerFires, WorkerLoopReturns, WorkerExits, TypeOK
  <2>2. \A v \in Worker \ {w} : ToAdd(v)' = ToAdd(v)
    BY <2>1 DEF ToAdd
  <2>3. wq[w] \in Seq(WorkerItem) /\ wbatch[w] \in Seq(WorkerItem)
    BY <1>1 DEF TypeOK
  <2>4. Count("add", wq[w]) \in Nat /\ Count("add", wbatch[w]) \in Nat
    BY <2>3, CountType
  <2>5. CASE WorkerPosts(w)
    <3>1. wq'[w] = Append(wq[w], "started") /\ wbatch' = wbatch
      BY <1>1, <2>5 DEF WorkerPosts, TypeOK
    <3>2. "started" \in WorkerItem /\ "started" # "add"
      BY DEF WorkerItem
    <3>3. Append(wq[w], "started") = wq[w] \o <<"started">>
      BY <2>3, <3>2, AppendIsConcat
    <3>4. Count("add", wq[w] \o <<"started">>) = Count("add", wq[w])
      BY <2>3, <2>4, <3>2, CountConcat
    <3>5. ToAdd(w)' = ToAdd(w)
      BY <3>1, <3>3, <3>4 DEF ToAdd
    <3> QED
      BY <2>1, <2>2, <3>5
  <2>6. CASE WorkerTake(w)
    <3>1. wq'[w] = <<>> /\ wbatch'[w] = wq[w] /\ wbatch[w] = <<>>
      BY <1>1, <2>6 DEF WorkerTake, WorkerPhases, WorkerPhase, TypeOK
    <3>2. ToAdd(w)' = ToAdd(w)
      BY <2>4, <3>1, CountEmpty DEF ToAdd
    <3> QED
      BY <2>1, <2>2, <3>2
  <2>7. CASE WorkerStarted(w)
    <3>1. /\ wbatch[w] # <<>> /\ Head(wbatch[w]) = "started"
          /\ wbatch'[w] = Tail(wbatch[w]) /\ wq' = wq
      BY <1>1, <2>7 DEF WorkerStarted, TypeOK
    <3>2. Count("add", Tail(wbatch[w])) = Count("add", wbatch[w])
      BY <2>3, <2>4, <3>1, CountTail
    <3>3. ToAdd(w)' = ToAdd(w)
      BY <3>1, <3>2 DEF ToAdd
    <3> QED
      BY <2>1, <2>2, <3>3
  <2>8. CASE wq' = wq /\ wbatch' = wbatch
    BY <2>1, <2>8 DEF ToAdd
  <2>9. WorkerPosts(w) \/ WorkerTake(w) \/ WorkerStarted(w) \/ (wq' = wq /\ wbatch' = wbatch)
    BY <1>5 DEF WorkerStep, WorkerBatchDone, WorkerFires, WorkerLoopReturns, WorkerExits
  <2> QED
    BY <2>5, <2>6, <2>7, <2>8, <2>9
<1> QED
  BY <1>2, <1>3, <1>4, <1>5

\* A worker adds a listener: it has one less to add.
LEMMA ToAddTaken ==
  ASSUME IndInv, NEW w \in Worker, WorkerAddsListener(w)
  PROVE  /\ ToAdd(w) # 0 /\ ToAdd(w)' = ToAdd(w) - 1 /\ added'[w] = added[w] + 1
         /\ \A v \in Worker \ {w} : ToAdd(v)' = ToAdd(v) /\ added'[v] = added[v]
         /\ lm_started' = lm_started
<1>1. TypeOK
  BY DEF IndInv
<1> USE DEF mainVars
<1>2. /\ added'[w] = added[w] + 1 /\ lm_started' = lm_started /\ wq' = wq
      /\ \A v \in Worker \ {w} : added'[v] = added[v] /\ wbatch'[v] = wbatch[v]
      /\ wbatch[w] # <<>> /\ Head(wbatch[w]) = "add" /\ wbatch'[w] = Tail(wbatch[w])
  BY <1>1 DEF WorkerAddsListener, TypeOK
<1>3. wq[w] \in Seq(WorkerItem) /\ wbatch[w] \in Seq(WorkerItem)
  BY <1>1 DEF TypeOK
<1>4. Count("add", wq[w]) \in Nat /\ Count("add", wbatch[w]) \in Nat
  BY <1>3, CountType
<1>5. Count("add", Tail(wbatch[w])) = Count("add", wbatch[w]) - 1
  BY <1>2, <1>3, CountTail
<1>6. Count("add", wbatch[w]) # 0
  BY <1>2, <1>3, ShorterList, CountZero
<1>7. ToAdd(w) # 0 /\ ToAdd(w)' = ToAdd(w) - 1
  BY <1>2, <1>4, <1>5, <1>6 DEF ToAdd
<1>8. \A v \in Worker \ {w} : ToAdd(v)' = ToAdd(v)
  BY <1>2 DEF ToAdd
<1> QED
  BY <1>2, <1>7, <1>8

\* startWorkers() posts every listener to every worker.
LEMMA ToAddPosted ==
  ASSUME IndInv, Initialize
  PROVE  /\ \A v \in Worker : ToAdd(v)' = NumListeners /\ added'[v] = 0
         /\ lm_started'
<1>1. TypeOK /\ MainPhases /\ WorkerPhases /\ AddsAreExact
  BY DEF IndInv
<1> SUFFICES ASSUME NEW v \in Worker
             PROVE  ToAdd(v)' = NumListeners /\ added'[v] = 0
  BY DEF Initialize
<1>2. ~lm_started /\ wbatch[v] = <<>> /\ added' = added /\ wbatch' = wbatch
  BY <1>1 DEF Initialize, MainPhases, WorkerPhases, WorkerPhase
<1>3. added[v] = 0
  <2>1. added[v] \in Nat /\ ToAdd(v) \in Nat
    BY <1>1, NumbersType DEF TypeOK
  <2>2. added[v] + ToAdd(v) = 0
    BY <1>1, <1>2 DEF AddsAreExact
  <2> QED
    BY <2>1, <2>2
<1>4. Count("add", wq'[v]) = NumListeners
  <2>1. wq'[v] = [i \in 1..NumListeners |-> "add"]
    BY DEF Initialize
  <2> QED
    BY <2>1, CountConstant, SizesAssumption
<1>5. Count("add", wbatch'[v]) = 0
  BY <1>2, CountEmpty
<1> QED
  BY <1>2, <1>3, <1>4, <1>5, SizesAssumption DEF ToAdd

\* A step keeps the number of listeners of every worker.
LEMMA AddsStep ==
  ASSUME IndInv, [Next]_vars
  PROVE  AddsAreExact'
<1>1. AddsAreExact /\ TypeOK
  BY DEF IndInv
<1>2. CASE Initialize
  BY <1>2, ToAddPosted, SizesAssumption DEF AddsAreExact
<1>3. ASSUME NEW w \in Worker, WorkerAddsListener(w)
      PROVE  AddsAreExact'
  <2>1. added[w] \in Nat /\ ToAdd(w) \in Nat
    BY <1>1, NumbersType DEF TypeOK
  <2>2. (added[w] + 1) + (ToAdd(w) - 1) = added[w] + ToAdd(w)
    BY <2>1
  <2> QED
    BY <1>1, <1>3, <2>2, ToAddTaken DEF AddsAreExact
<1>4. CASE \/ MainOnly \/ StartWorker \/ JoinReturns \/ UNCHANGED vars
           \/ \E w \in Worker : WorkerStep(w) /\ ~WorkerAddsListener(w)
  BY <1>1, <1>4, ToAddKept DEF AddsAreExact
<1> QED
  BY <1>2, <1>3, <1>4, StepCases

\* A worker step other than DecrementCount() lets no worker start or unstart.
LEMMA NotStartedKept ==
  ASSUME IndInv, NEW w \in Worker, WorkerStep(w), ~WorkerStarted(w)
  PROVE  /\ \A v \in Worker : NotStarted(v)' <=> NotStarted(v)
         /\ UNCHANGED <<main, lm_started, counter>>
<1>1. TypeOK /\ WorkerPhases
  BY DEF IndInv
<1> USE DEF mainVars
<1>2. CASE WorkerPosts(w)
  <2>1. wq'[w] # <<>>
    <3>1. wq[w] \in Seq(WorkerItem) /\ "started" \in WorkerItem
      BY <1>1 DEF TypeOK, WorkerItem
    <3>2. Append(wq[w], "started") # <<>>
      BY <3>1, AppendProperties
    <3> QED
      BY <1>1, <1>2, <3>2 DEF WorkerPosts, TypeOK
  <2> QED
    BY <1>1, <1>2, <2>1 DEF WorkerPosts, NotStarted, TypeOK
<1>3. CASE WorkerTake(w)
  BY <1>1, <1>3 DEF WorkerTake, NotStarted, WorkerPhases, WorkerPhase, TypeOK
<1>4. CASE WorkerAddsListener(w)
  <2>1. /\ wbatch[w] \in Seq(WorkerItem) /\ wbatch[w] # <<>>
        /\ EndsWithStarted(wbatch[w]) /\ Head(wbatch[w]) # "started"
    BY <1>1, <1>4 DEF WorkerAddsListener, WorkerPhases, WorkerPhase, TypeOK
  <2>2. Tail(wbatch[w]) # <<>>
    BY <2>1, ShorterList
  <2> QED
    BY <1>1, <1>4, <2>1, <2>2 DEF WorkerAddsListener, NotStarted, TypeOK
<1>5. CASE WorkerBatchDone(w) \/ WorkerFires(w) \/ WorkerLoopReturns(w) \/ WorkerExits(w)
  BY <1>1, <1>5 DEF WorkerBatchDone, WorkerFires, WorkerLoopReturns, WorkerExits,
                    NotStarted, TypeOK
<1> QED
  BY <1>2, <1>3, <1>4, <1>5 DEF WorkerStep

\* The counter of startWorkers() keeps counting the workers it waits for.
LEMMA CounterStep ==
  ASSUME IndInv, [Next]_vars
  PROVE  CounterIsExact'
<1>1. TypeOK /\ MainPhases /\ WorkerPhases /\ CounterIsExact
  BY DEF IndInv
<1>2. ASSUME \A v \in Worker : NotStarted(v)' <=> NotStarted(v),
             UNCHANGED <<lm_started, counter>>, main' \notin Before => counter = 0
      PROVE  CounterIsExact'
  <2>1. {v \in Worker : NotStarted(v)}' = {v \in Worker : NotStarted(v)}
    BY <1>2
  <2> QED
    BY <1>1, <1>2, <2>1 DEF CounterIsExact, Before
<1>3. CASE MainOnly
  <2>1. UNCHANGED <<workerVars, lm_started, counter>> /\ (main' \notin Before => counter = 0)
    BY <1>3, MainOnlyKeeps
  <2>2. \A v \in Worker : NotStarted(v)' <=> NotStarted(v)
    BY <2>1 DEF workerVars, NotStarted
  <2> QED
    BY <1>2, <2>1, <2>2
<1>4. CASE Initialize
  <2>1. \A v \in Worker : wpc'[v] = "none"
    BY <1>1, <1>4 DEF Initialize, WorkerPhases, WorkerPhase
  <2>2. {v \in Worker : NotStarted(v)}' = Worker
    BY <2>1 DEF NotStarted
  <2>3. Cardinality(Worker) = NumWorkers
    BY SizesAssumption, FS_Interval DEF Worker
  <2> QED
    BY <1>4, <2>2, <2>3 DEF Initialize, CounterIsExact, Before
<1>5. CASE StartWorker
  <2>1. /\ next \in Worker /\ main' \in Before
        /\ UNCHANGED <<lm_started, counter, wq, wbatch>>
        /\ wpc' = [wpc EXCEPT ![next] = "posting"]
    BY <1>1, <1>5 DEF StartWorker, MainPhases, Before
  <2>2. wpc[next] = "none"
    BY <1>1, <1>5, <2>1, SizesAssumption DEF StartWorker, WorkerPhases, WorkerPhase, Worker
  <2>3. \A v \in Worker : NotStarted(v)' <=> NotStarted(v)
    BY <1>1, <2>1, <2>2 DEF NotStarted, TypeOK
  <2> QED
    BY <1>2, <2>1, <2>3
<1>6. CASE JoinReturns
  <2>1. /\ main \notin Before /\ UNCHANGED <<lm_started, counter, wq, wbatch>>
        /\ wpc[next] = "exited" /\ wpc' = [wpc EXCEPT ![next] = "joined"]
    BY <1>6 DEF JoinReturns, Before
  <2>2. \A v \in Worker : NotStarted(v)' <=> NotStarted(v)
    BY <1>1, <2>1 DEF NotStarted, TypeOK
  <2> QED
    BY <1>1, <1>2, <2>1, <2>2 DEF CounterIsExact
<1>7. ASSUME NEW w \in Worker, WorkerStarted(w)
      PROVE  CounterIsExact'
  <2>1. /\ wpc[w] = "batch" /\ wbatch[w] # <<>> /\ Head(wbatch[w]) = "started"
        /\ wbatch' = [wbatch EXCEPT ![w] = Tail(@)]
        /\ counter' = counter - 1 /\ UNCHANGED <<main, lm_started, wpc, wq>>
    BY <1>7 DEF WorkerStarted
  <2>2. lm_started /\ main \in Before
    BY <2>1, CounterPositive
  <2>3. wbatch[w] \in Seq(WorkerItem) /\ EndsWithStarted(wbatch[w]) /\ wq[w] = <<>>
    BY <1>1, <2>1 DEF TypeOK, WorkerPhases, WorkerPhase
  <2>4. Tail(wbatch[w]) = <<>>
    BY <2>1, <2>3, ShorterList
  <2>5. ~NotStarted(w)' /\ \A v \in Worker \ {w} : NotStarted(v)' <=> NotStarted(v)
    BY <1>1, <2>1, <2>3, <2>4 DEF NotStarted, TypeOK
  <2>6. {v \in Worker : NotStarted(v)}' = Missing \ {w}
    BY <2>5 DEF Missing
  <2>7. w \in Missing /\ IsFiniteSet(Missing)
    BY <2>1, NumbersType DEF Missing, NotStarted, IndInv
  <2>8. Cardinality(Missing \ {w}) = Cardinality(Missing) - 1
    BY <2>7, FS_RemoveElement
  <2>9. counter = Cardinality(Missing)
    BY <1>1, <2>2 DEF CounterIsExact, Missing
  <2> QED
    BY <2>1, <2>2, <2>6, <2>8, <2>9 DEF CounterIsExact
<1>8. ASSUME NEW w \in Worker, WorkerStep(w), ~WorkerStarted(w)
      PROVE  CounterIsExact'
  BY <1>1, <1>2, <1>8, NotStartedKept DEF CounterIsExact
<1>9. CASE UNCHANGED vars
  <2>1. \A v \in Worker : NotStarted(v)' <=> NotStarted(v)
    BY <1>9 DEF vars, NotStarted
  <2> QED
    BY <1>1, <1>2, <1>9, <2>1 DEF vars, CounterIsExact
<1> QED
  BY <1>3, <1>4, <1>5, <1>6, <1>7, <1>8, <1>9, StepCases

\* A step keeps the order of the main dispatcher's lists.
LEMMA StartupStep ==
  ASSUME IndInv, [Next]_vars
  PROVE  StartupIsLast'
<1>1. TypeOK /\ MainPhases /\ StartupIsLast
  BY DEF IndInv
<1>2. /\ mainq \in Seq(MainItem) /\ mainbatch \in Seq(MainItem)
      /\ \A e \in {"completion", "startup", "hello", "completion_cb"} : e \in MainItem
  BY <1>1 DEF TypeOK, MainItem
<1> USE DEF mainPost, mainVars, history
<1>3. ASSUME UNCHANGED <<mainq, mainbatch, notified>>,
             main \notin Before => main' \notin Before
      PROVE  StartupIsLast'
  BY <1>1, <1>3 DEF StartupIsLast
<1>4. CASE MainOnly
  <2>1. main \notin Before => main' \notin Before
    BY <1>4, MainOnlyKeeps
  <2>2. CASE RunPostsStartup
    <3>1. mainq' = mainq \o <<"startup">> /\ UNCHANGED <<mainbatch, notified>>
      BY <2>2 DEF RunPostsStartup, PostMain
    <3>2. main = "initialized" /\ main' \notin Before /\ mainbatch = <<>>
      BY <1>1, <2>2 DEF RunPostsStartup, Before, MainPhases
    <3>3. /\ StartupBehind(mainq')
          /\ Has("completion", mainq') <=> Has("completion", mainq)
      BY <1>1, <1>2, <3>1, PostedList DEF StartupIsLast
    <3> QED
      BY <1>1, <3>1, <3>2, <3>3 DEF StartupIsLast
  <2>3. CASE RunStartsLoop
    <3>1. mainq' = mainq \o <<"hello">> /\ UNCHANGED <<mainbatch, notified>>
      BY <2>3 DEF RunStartsLoop, PostMain
    <3>2. main' \notin Before
      BY <2>3 DEF RunStartsLoop, Before
    <3>3. /\ StartupBehind(mainq')
          /\ Has("completion", mainq') <=> Has("completion", mainq)
      BY <1>1, <1>2, <3>1, PostedList DEF StartupIsLast
    <3> QED
      BY <1>1, <3>1, <3>2, <3>3 DEF StartupIsLast
  <2>4. CASE MainTake
    <3>1. mainq' = <<>> /\ mainbatch' = mainq /\ main' \notin Before /\ notified' = notified
      BY <2>4 DEF MainTake, Before
    <3> QED
      BY <1>1, <3>1, EmptyList DEF StartupIsLast
  <2>5. CASE MainRuns
    <3>1. mainbatch # <<>> /\ mainbatch' = Tail(mainbatch) /\ main' \notin Before
      BY <2>5 DEF MainRuns, Before
    <3>2. /\ StartupBehind(mainbatch') /\ Has(Head(mainbatch), mainbatch)
          /\ Has("startup", mainbatch') => Has("startup", mainbatch)
          /\ Has("completion", mainbatch') => Has("completion", mainbatch)
          /\ Head(mainbatch) = "startup" => ~Has("completion", mainbatch')
      BY <1>1, <1>2, <3>1, ShorterList DEF StartupIsLast
    <3>3. CASE UNCHANGED <<mainq, notified>>
      BY <1>1, <3>1, <3>2, <3>3 DEF StartupIsLast
    <3>4. CASE Head(mainbatch) = "startup" /\ RunStartup
      <4>1. mainq' = mainq \o <<"completion_cb">> /\ notified'
        BY <3>4 DEF RunStartup, PostMain
      <4>2. ~Has("completion", mainq)
        BY <1>1, <3>2, <3>4 DEF StartupIsLast
      <4>3. StartupBehind(mainq') /\ ~Has("completion", mainq')
        BY <1>1, <1>2, <4>1, <4>2, PostedList DEF StartupIsLast
      <4> QED
        BY <3>1, <3>2, <3>4, <4>1, <4>3 DEF StartupIsLast
    <3> QED
      BY <2>5, <3>3, <3>4 DEF MainRuns, RunCompletion
  <2>6. CASE UNCHANGED <<mainq, mainbatch, notified>>
    BY <1>3, <2>1, <2>6
  <2> QED
    BY <1>4, <2>2, <2>3, <2>4, <2>5, <2>6
       DEF MainOnly, WaitReturns, MainBatchDone, MainFires, TimerFires, SayHello,
           StopWorkers, NumConnections, NumConnectionsReturns
<1>5. CASE Initialize \/ StartWorker \/ JoinReturns
  BY <1>3, <1>5 DEF Initialize, StartWorker, JoinReturns, Before
<1>6. ASSUME NEW w \in Worker, WorkerAddsListener(w)
      PROVE  StartupIsLast'
  <2>1. mainq' = mainq \o <<"completion">> /\ UNCHANGED <<main, mainbatch, notified>>
    BY <1>6 DEF WorkerAddsListener, PostMain
  <2>2. main \in Before
    BY <1>6, CounterPositive DEF WorkerAddsListener
  <2>3. ~Has("startup", mainq) /\ ~Has("startup", mainbatch) /\ ~notified
    BY <1>1, <2>2 DEF StartupIsLast
  <2>4. StartupBehind(mainq') /\ ~Has("startup", mainq')
    BY <1>1, <1>2, <2>1, <2>3, PostedList DEF StartupIsLast
  <2> QED
    BY <1>1, <2>1, <2>3, <2>4 DEF StartupIsLast
<1>7. ASSUME NEW w \in Worker, WorkerStep(w), ~WorkerAddsListener(w)
      PROVE  StartupIsLast'
  BY <1>3, <1>7 DEF WorkerStep, WorkerPosts, WorkerTake, WorkerStarted, WorkerBatchDone,
                    WorkerFires, WorkerLoopReturns, WorkerExits
<1>8. CASE UNCHANGED vars
  BY <1>3, <1>8 DEF vars
<1> QED
  BY <1>4, <1>5, <1>6, <1>7, <1>8, StepCases

\* The completions on their way after a step.
LEMMA OnTheWayNext ==
  OnTheWay' = Cardinality(Pairs([w \in Worker |-> ToAdd(w)']))
                + Count("completion", mainq') + Count("completion", mainbatch')
<1>1. Pairs([w \in Worker |-> ToAdd(w)']) = UNION {{w} \X (1..ToAdd(w)') : w \in Worker}
  BY DEF Pairs
<1> QED
  BY <1>1 DEF OnTheWay

\* Every worker keeps what it has to add, so the sum changes with the main lists.
LEMMA OnTheWayKept ==
  ASSUME IndInv, \A w \in Worker : ToAdd(w)' = ToAdd(w)
  PROVE  LET n == Cardinality(Pairs([w \in Worker |-> ToAdd(w)]))
         IN  /\ n \in Nat
             /\ Count("completion", mainq) \in Nat
             /\ Count("completion", mainbatch) \in Nat
             /\ pending = n + Count("completion", mainq) + Count("completion", mainbatch)
             /\ OnTheWay' = n + Count("completion", mainq') + Count("completion", mainbatch')
<1>1. [w \in Worker |-> ToAdd(w)] \in Counts
  BY NumbersType DEF IndInv
<1>2. Cardinality(Pairs([w \in Worker |-> ToAdd(w)])) \in Nat
  BY <1>1, PairsAre
<1>3. [w \in Worker |-> ToAdd(w)'] = [w \in Worker |-> ToAdd(w)]
  OBVIOUS
<1>4. Count("completion", mainq) \in Nat /\ Count("completion", mainbatch) \in Nat
  BY NumbersType DEF IndInv
<1>5. pending = OnTheWay
  BY DEF IndInv, PendingIsExact
<1> QED
  BY <1>2, <1>3, <1>4, <1>5, OnTheWayIs, OnTheWayNext

\* listeners_pending_init keeps counting the completions on their way.
LEMMA PendingStep ==
  ASSUME IndInv, [Next]_vars
  PROVE  PendingIsExact'
<1>1. TypeOK /\ MainPhases /\ PendingIsExact /\ AddsAreExact
  BY DEF IndInv
<1>2. /\ mainq \in Seq(MainItem) /\ mainbatch \in Seq(MainItem)
      /\ \A e \in {"completion", "startup", "hello", "completion_cb"} : e \in MainItem
  BY <1>1 DEF TypeOK, MainItem
<1> USE DEF mainPost, mainVars, history
<1>3. ASSUME OnTheWay' = pending, UNCHANGED <<pending, init_calls, started, lm_started>>
      PROVE  PendingIsExact'
  BY <1>1, <1>3 DEF PendingIsExact
<1>4. ASSUME \A w \in Worker : ToAdd(w)' = ToAdd(w),
             UNCHANGED <<pending, init_calls, started, lm_started>>,
             Count("completion", mainq') + Count("completion", mainbatch') =
               Count("completion", mainq) + Count("completion", mainbatch),
             Count("completion", mainq') \in Nat, Count("completion", mainbatch') \in Nat
      PROVE  PendingIsExact'
  BY <1>3, <1>4, OnTheWayKept
<1>5. CASE MainOnly
  <2>1. (\A w \in Worker : ToAdd(w)' = ToAdd(w)) /\ lm_started' = lm_started
    BY <1>5, ToAddKept
  <2>2. /\ Count("completion", mainq) \in Nat /\ Count("completion", mainbatch) \in Nat
    BY <1>1, NumbersType
  <2>3. ASSUME NEW e \in {"startup", "hello", "completion_cb"}
        PROVE  Count("completion", mainq \o <<e>>) = Count("completion", mainq)
    BY <1>2, <2>2, CountConcat
  <2>4. CASE RunPostsStartup
    BY <1>4, <2>1, <2>2, <2>3, <2>4 DEF RunPostsStartup, PostMain
  <2>5. CASE RunStartsLoop
    BY <1>4, <2>1, <2>2, <2>3, <2>5 DEF RunStartsLoop, PostMain
  <2>6. CASE MainTake
    <3>1. /\ mainbatch = <<>> /\ mainbatch' = mainq /\ mainq' = <<>>
          /\ UNCHANGED <<pending, init_calls, started>>
      BY <1>1, <2>6 DEF MainTake, MainPhases
    <3>2. Count("completion", <<>>) = 0
      BY CountEmpty
    <3> QED
      BY <1>4, <2>1, <2>2, <3>1, <3>2
  <2>7. CASE MainRuns
    <3>1. mainbatch # <<>> /\ mainbatch' = Tail(mainbatch) /\ main # "new"
      BY <2>7 DEF MainRuns
    <3>2. Count("completion", mainbatch') =
            Count("completion", mainbatch) - (IF Head(mainbatch) = "completion" THEN 1 ELSE 0)
      BY <1>2, <3>1, CountTail
    <3>3. CASE Head(mainbatch) = "completion" /\ RunCompletion
      <4>1. /\ pending' = pending - 1
            /\ started' = (started \/ pending = 1)
            /\ init_calls' = init_calls + (IF pending = 1 THEN 1 ELSE 0)
            /\ mainq' = mainq
        BY <3>3 DEF RunCompletion
      <4>2. pending \in Nat \ {0} /\ lm_started
        BY <1>1, <3>1, <3>3, PendingPositive DEF MainPhases
      <4>3. pending' = OnTheWay'
        BY <2>1, <2>2, <3>2, <3>3, <4>1, OnTheWayKept
      <4>4. init_calls = 0
        BY <1>1, <4>2 DEF PendingIsExact
      <4>5. ~started
        <5>1. init_calls # 1
          BY <4>4
        <5>2. started = (init_calls = 1)
          BY <1>1, Zenon DEF PendingIsExact
        <5> QED
          BY <5>1, <5>2, Zenon
      <4>6. init_calls' = (IF lm_started' /\ pending' = 0 THEN 1 ELSE 0)
        BY <2>1, <4>1, <4>2, <4>4
      <4>7. started' = (pending = 1)
        BY <4>1, <4>5, Zenon
      <4>8. (init_calls' = 1) = (pending = 1)
        BY <4>1, <4>4
      <4> QED
        BY <4>3, <4>6, <4>7, <4>8, Zenon DEF PendingIsExact
    <3>4. CASE Head(mainbatch) = "startup" /\ RunStartup
      <4>1. mainq' = mainq \o <<"completion_cb">> /\ UNCHANGED <<pending, started, init_calls>>
        BY <3>4 DEF RunStartup, PostMain
      <4> QED
        BY <1>4, <2>1, <2>2, <2>3, <3>2, <3>4, <4>1
    <3>5. CASE Head(mainbatch) # "completion" /\ UNCHANGED <<pending, started, mainq, init_calls>>
      BY <1>4, <2>1, <2>2, <3>2, <3>5
    <3> QED
      BY <2>7, <3>3, <3>4, <3>5 DEF MainRuns
  <2>8. CASE UNCHANGED <<pending, started, mainq, mainbatch, init_calls>>
    BY <1>4, <2>1, <2>2, <2>8
  <2> QED
    BY <1>5, <2>4, <2>5, <2>6, <2>7, <2>8
       DEF MainOnly, WaitReturns, MainBatchDone, MainFires, TimerFires, SayHello,
           StopWorkers, NumConnections, NumConnectionsReturns
<1>6. CASE Initialize
  <2>1. (\A w \in Worker : ToAdd(w)' = NumListeners) /\ lm_started'
    BY <1>6, ToAddPosted
  <2>2. [w \in Worker |-> ToAdd(w)'] \in Counts
    BY <2>1, SizesAssumption DEF Counts
  <2>3. Cardinality(Pairs([w \in Worker |-> ToAdd(w)'])) = NumWorkers * NumListeners
    BY <2>1, <2>2, PairsAll
  <2>4. /\ mainq' = <<>> /\ mainbatch' = <<>> /\ init_calls' = 0 /\ started' = started
        /\ init_calls = 0 /\ pending' = NumWorkers * NumListeners
    BY <1>1, <1>6 DEF Initialize, MainPhases
  <2>5. NumWorkers * NumListeners \in Nat /\ NumWorkers * NumListeners # 0
    BY SizesAssumption
  <2>6. pending' = OnTheWay'
    BY <2>3, <2>4, <2>5, OnTheWayNext, CountEmpty
  <2>7. init_calls' = init_calls
    BY <2>4
  <2> QED
    BY <1>1, <2>1, <2>4, <2>5, <2>6, <2>7 DEF PendingIsExact
<1>7. ASSUME NEW w \in Worker, WorkerAddsListener(w)
      PROVE  PendingIsExact'
  <2> DEFINE f == [v \in Worker |-> ToAdd(v)]
             g == [v \in Worker |-> ToAdd(v)']
  <2>1. /\ ToAdd(w) # 0 /\ ToAdd(w)' = ToAdd(w) - 1 /\ lm_started' = lm_started
        /\ \A v \in Worker \ {w} : ToAdd(v)' = ToAdd(v)
    BY <1>7, ToAddTaken
  <2>2. f \in Counts
    BY <1>1, NumbersType
  <2>3. g \in Counts
    BY <2>1, <2>2, SizesAssumption DEF Counts
  <2>4. f[w] # 0 /\ g[w] = f[w] - 1 /\ \A v \in Worker \ {w} : g[v] = f[v]
    BY <2>1
  <2>5. Cardinality(Pairs(f)) \in Nat
    BY <2>2, PairsAre
  <2>6. Cardinality(Pairs(g)) = Cardinality(Pairs(f)) - 1
    <3> HIDE DEF f, g
    <3> QED
      BY <2>2, <2>3, <2>4, PairsTakeOne
  <2>7. mainq' = mainq \o <<"completion">> /\ UNCHANGED <<pending, mainbatch, init_calls, started>>
    BY <1>7 DEF WorkerAddsListener, PostMain
  <2>8. Count("completion", mainq') = Count("completion", mainq) + 1
    BY <1>2, <2>7, CountConcat
  <2>9. Count("completion", mainq) \in Nat /\ Count("completion", mainbatch) \in Nat
    BY <1>1, NumbersType
  <2>10. pending = Cardinality(Pairs(f)) + Count("completion", mainq)
                     + Count("completion", mainbatch)
    BY <1>1, OnTheWayIs DEF PendingIsExact
  <2>11. OnTheWay' = Cardinality(Pairs(g)) + Count("completion", mainq')
                      + Count("completion", mainbatch)
    BY <2>7, OnTheWayNext
  <2>12. OnTheWay' = pending
    BY <2>5, <2>6, <2>8, <2>9, <2>10, <2>11
  <2> QED
    BY <1>3, <2>1, <2>7, <2>12
<1>8. CASE \/ StartWorker \/ JoinReturns \/ UNCHANGED vars
           \/ \E w \in Worker : WorkerStep(w) /\ ~WorkerAddsListener(w)
  <2>1. (\A w \in Worker : ToAdd(w)' = ToAdd(w)) /\ lm_started' = lm_started
    BY <1>8, ToAddKept
  <2>2. UNCHANGED <<pending, started, mainq, mainbatch, init_calls>>
    BY <1>8 DEF StartWorker, JoinReturns, vars, WorkerStep, WorkerPosts, WorkerTake,
                WorkerStarted, WorkerBatchDone, WorkerFires, WorkerLoopReturns, WorkerExits
  <2>3. Count("completion", mainq) \in Nat /\ Count("completion", mainbatch) \in Nat
    BY <1>1, NumbersType
  <2> QED
    BY <1>4, <2>1, <2>2, <2>3
<1> QED
  BY <1>5, <1>6, <1>7, <1>8, StepCases

\* Every step keeps the invariant.
LEMMA Invariance == IndInv /\ [Next]_vars => IndInv'
<1> SUFFICES ASSUME IndInv, [Next]_vars
             PROVE  IndInv'
  OBVIOUS
<1>1. TypeOK'
  BY MainTypeStep, ListTypeStep DEF MainTypes, ListTypes, TypeOK
<1>2. MainPhases' /\ WorkerPhases'
  BY MainPhasesStep, WorkerPhasesStep
<1>3. AddsAreExact' /\ CounterIsExact'
  BY AddsStep, CounterStep
<1>4. StartupIsLast' /\ PendingIsExact'
  BY StartupStep, PendingStep
<1> QED
  BY <1>1, <1>2, <1>3, <1>4 DEF IndInv

------------------------------------------------------------------------------
(* Theorems *)

\* The invariant holds throughout.
LEMMA IndInvHolds == Spec => []IndInv
BY InitIndInv, Invariance, PTL DEF Spec

\* Every variable of Server, ListenerManagerImpl and the workers keeps its type:
\* neither workers_waiting_to_run nor listeners_pending_init is ever decremented
\* below zero.
THEOREM TypeCorrect == Spec => []TypeOK
<1>1. IndInv => TypeOK
  BY DEF IndInv
<1> QED
  BY <1>1, IndInvHolds, PTL

\* listeners_pending_init is exactly the number of completions on their way
\* between the threads, and the callback of startWorkers() runs once, when the
\* last one arrives, with any number of workers and listeners.
THEOREM PendingIsCounted == Spec => []PendingIsExact
<1>1. IndInv => PendingIsExact
  BY DEF IndInv
<1> QED
  BY <1>1, IndInvHolds, PTL

\* No worker can call DecrementCount() on the local counter of startWorkers()
\* after that function returned.
THEOREM CounterIsNotDangling == Spec => []CounterOutlivesCallers
<1>1. IndInv => CounterOutlivesCallers
  BY WorkersAreQuiet, CountEmpty DEF CounterOutlivesCallers, Before
<1> QED
  BY <1>1, IndInvHolds, PTL

\* The Startup stage is notified only after every worker has added every listener
\* and Server::workers_started_ is set.
THEOREM StartupComesLast == Spec => []StartupSeesWorkers
<1>1. IndInv => StartupSeesWorkers
  <2> SUFFICES ASSUME IndInv, notified
               PROVE  started /\ \A w \in Worker : added[w] = NumListeners
    BY DEF StartupSeesWorkers
  <2>1. main \notin Before /\ lm_started
    BY DEF IndInv, StartupIsLast, MainPhases, Before
  <2>2. \A w \in Worker : ToAdd(w) = 0
    BY <2>1, WorkersAreQuiet, CountEmpty DEF ToAdd
  <2>3. \A w \in Worker : added[w] = NumListeners
    BY <2>1, <2>2 DEF IndInv, AddsAreExact, TypeOK
  <2>4. mainq \in Seq(MainItem) /\ mainbatch \in Seq(MainItem)
    BY DEF IndInv, TypeOK
  <2>5. Count("completion", mainq) = 0 /\ Count("completion", mainbatch) = 0
    BY <2>4, CountZero DEF IndInv, StartupIsLast
  <2>6. Cardinality(Pairs([w \in Worker |-> ToAdd(w)])) = 0
    <3>1. [w \in Worker |-> ToAdd(w)] \in Counts
      BY NumbersType DEF IndInv
    <3> QED
      BY <2>2, <3>1, PairsNone
  <2>7. pending = 0
    BY <2>5, <2>6, OnTheWayIs DEF IndInv, PendingIsExact
  <2>8. init_calls = 1
    BY <2>1, <2>7 DEF IndInv, PendingIsExact
  <2>9. started
    BY <2>8 DEF IndInv, PendingIsExact
  <2> QED
    BY <2>3, <2>9
<1> QED
  BY <1>1, IndInvHolds, PTL

\* WorkerImpl resets its handler after the last callback posted to its dispatcher.
THEOREM HandlerIsNotDangling == Spec => []HandlerOutlivesPosts
<1>1. IndInv => HandlerOutlivesPosts
  BY DEF IndInv, WorkerPhases, WorkerPhase, HandlerOutlivesPosts
<1> QED
  BY <1>1, IndInvHolds, PTL

------------------------------------------------------------------------------
(* Listeners.  Module ListenerManager has variables of its own: it models  *)
(* the lists of the manager that Server models the threads of.             *)

CONSTANTS Names, Workers, MaxUpdates, AddressLists

VARIABLES active_listeners, warming_listeners, workers_started, posts, handled, destroyed, made,
          stop_listeners_type

Lists == INSTANCE ListenerManager

\* The listeners that the manager makes: addresses_ is never filled, so that there are
\* no socket factories either.
Listeners ==
  [id : Nat, name : Names, socket_type : {"Stream"}, addresses : {<<>>},
   bind_to_port : {TRUE}, reuse_port : {TRUE}, socket_factories : {<<>>}]

Ids(list) == {list[i].id : i \in DOMAIN list}

Distinct(list) == \A i, j \in DOMAIN list :
  list[i].name = list[j].name \/ list[i].id = list[j].id => i = j

(***************************************************************************)
(* The inductive invariant.  ListenersOutlivePosts alone is not inductive: *)
(* an update destroys a listener of one of the lists, and only where the   *)
(* listeners that workers know are kept tells that it is not theirs.       *)
(***************************************************************************)
ListTypesHold ==
  /\ active_listeners \in Seq(Listeners) /\ warming_listeners \in Seq(Listeners)
  /\ workers_started \in BOOLEAN
  /\ posts \in [Workers -> Seq(Nat)] /\ handled \in [Workers -> SUBSET Nat]
  /\ made \in Nat

ListsAreDistinct ==
  /\ Distinct(active_listeners) /\ Distinct(warming_listeners)
  /\ Ids(active_listeners) \cap Ids(warming_listeners) = {}

ListedIsAlive ==
  /\ Ids(active_listeners) \cup Ids(warming_listeners) \subseteq (1..made) \ destroyed
  /\ destroyed \subseteq 1..made

KnownIsActive ==
  /\ workers_started =>
       \A w \in Workers : Lists!ToSet(posts[w]) \cup handled[w] \subseteq Ids(active_listeners)
  /\ ~workers_started => \A w \in Workers : Lists!ToSet(posts[w]) \cup handled[w] = {}

ListInv == ListTypesHold /\ ListsAreDistinct /\ ListedIsAlive /\ KnownIsActive

------------------------------------------------------------------------------
(* Lists *)

\* The positions of a list.
LEMMA Positions ==
  ASSUME NEW S, NEW list \in Seq(S)
  PROVE  /\ Len(list) \in Nat /\ DOMAIN list = 1..Len(list)
         /\ \A i \in 1..Len(list) : list[i] \in S
BY LenProperties, ElementOfSeq

\* The empty list holds nothing.
LEMMA NothingListed == Lists!ToSet(<<>>) = {} /\ Ids(<<>>) = {} /\ Distinct(<<>>)
<1>1. <<>> \in Seq({}) /\ Len(<<>>) = 0 /\ 1..0 = {}
  BY EmptySeq
<1>2. DOMAIN <<>> = {}
  BY <1>1, LenProperties
<1>3. Lists!ToSet(<<>>) = {}
  BY <1>2 DEF Lists!ToSet
<1> QED
  BY <1>2, <1>3 DEF Ids, Distinct

\* getListenerByName(): a listener with the name, if there is one.
LEMMA FoundByName ==
  ASSUME NEW list \in Seq(Listeners), Distinct(list), NEW name
  PROVE  LET k == Lists!GetListenerByName(list, name) IN
         \/ k = 0 /\ \A i \in 1..Len(list) : list[i].name # name
         \/ k \in 1..Len(list) /\ list[k].name = name
<1> DEFINE found == {i \in DOMAIN list : list[i].name = name}
<1>1. Len(list) \in Nat /\ DOMAIN list = 1..Len(list)
  BY Positions
<1>2. CASE found = {}
  <2>1. {0} \cup found = {0}
    BY <1>2
  <2>2. Lists!Max({0}) = 0
    BY DEF Lists!Max
  <2> QED
    BY <1>1, <1>2, <2>1, <2>2 DEF Lists!GetListenerByName
<1>3. CASE found # {}
  <2>1. PICK k \in found : TRUE
    BY <1>3
  <2>2. k \in 1..Len(list) /\ list[k].name = name
    BY <1>1, <2>1
  <2>3. found = {k}
    BY <2>1, <2>2 DEF Distinct
  <2>4. {0} \cup found = {0, k}
    BY <2>3
  <2>5. Lists!Max({0, k}) = k
    BY <2>2 DEF Lists!Max
  <2> QED
    BY <2>2, <2>4, <2>5 DEF Lists!GetListenerByName
<1> QED
  BY <1>2, <1>3

\* A listener takes the place of the one with its name.
LEMMA ReplacedInList ==
  ASSUME NEW list \in Seq(Listeners), Distinct(list), NEW k \in 1..Len(list),
         NEW new \in Listeners, new.name = list[k].name, new.id \notin Ids(list)
  PROVE  LET r == [list EXCEPT ![k] = new] IN
         /\ r \in Seq(Listeners) /\ Distinct(r)
         /\ Ids(r) = (Ids(list) \ {list[k].id}) \cup {new.id}
         /\ list[k].id \in Ids(list)
<1> DEFINE r == [list EXCEPT ![k] = new]
<1>1. Len(list) \in Nat /\ DOMAIN list = 1..Len(list)
  BY Positions
<1>2. r \in Seq(Listeners)
  BY ExceptSeq
<1>3. DOMAIN r = 1..Len(list) /\ r[k] = new /\ \A i \in 1..Len(list) : i # k => r[i] = list[i]
  BY <1>1
<1> HIDE DEF r
<1>4. Distinct(r)
  <2> SUFFICES ASSUME NEW i \in 1..Len(list), NEW j \in 1..Len(list),
                      r[i].name = r[j].name \/ r[i].id = r[j].id
               PROVE  i = j
    BY <1>3 DEF Distinct
  <2>1. CASE i # k /\ j # k
    BY <1>1, <1>3, <2>1 DEF Distinct
  <2>2. CASE i = k /\ j # k
    BY <1>1, <1>3, <2>2 DEF Distinct, Ids
  <2>3. CASE i # k /\ j = k
    BY <1>1, <1>3, <2>3 DEF Distinct, Ids
  <2> QED
    BY <2>1, <2>2, <2>3
<1>5. Ids(r) = (Ids(list) \ {list[k].id}) \cup {new.id}
  BY <1>1, <1>3 DEF Distinct, Ids
<1>6. list[k].id \in Ids(list)
  BY <1>1 DEF Ids
<1> QED
  BY <1>2, <1>4, <1>5, <1>6 DEF r

\* A listener with a new name is appended.
LEMMA AppendedToList ==
  ASSUME NEW list \in Seq(Listeners), Distinct(list), NEW new \in Listeners,
         \A i \in 1..Len(list) : list[i].name # new.name, new.id \notin Ids(list)
  PROVE  LET r == Append(list, new) IN
         /\ r \in Seq(Listeners) /\ Distinct(r) /\ Ids(r) = Ids(list) \cup {new.id}
<1> DEFINE r == Append(list, new)
           n == Len(list)
<1>1. n \in Nat /\ DOMAIN list = 1..n
  BY Positions
<1>2. /\ r \in Seq(Listeners) /\ Len(r) = n + 1 /\ r[n + 1] = new
      /\ \A i \in 1..n : r[i] = list[i]
  BY AppendProperties
<1>3. DOMAIN r = 1..(n + 1)
  BY <1>2, LenProperties
<1>4. \A i \in 1..(n + 1) : i = n + 1 \/ i \in 1..n
  BY <1>1
<1> HIDE DEF r, n
<1>5. n + 1 \in 1..(n + 1) /\ \A i \in 1..n : i \in 1..(n + 1)
  BY <1>1
<1>6. Distinct(r)
  <2> SUFFICES ASSUME NEW i \in 1..(n + 1), NEW j \in 1..(n + 1),
                      r[i].name = r[j].name \/ r[i].id = r[j].id
               PROVE  i = j
    BY <1>3 DEF Distinct
  <2>1. CASE i \in 1..n /\ j \in 1..n
    BY <1>1, <1>2, <2>1 DEF Distinct
  <2>2. CASE i \in 1..n /\ j = n + 1
    BY <1>1, <1>2, <2>2 DEF Ids, n
  <2>3. CASE i = n + 1 /\ j \in 1..n
    BY <1>1, <1>2, <2>3 DEF Ids, n
  <2> QED
    BY <1>4, <2>1, <2>2, <2>3
<1>7. Ids(r) = Ids(list) \cup {new.id}
  BY <1>1, <1>2, <1>3, <1>4, <1>5 DEF Ids
<1> QED
  BY <1>2, <1>6, <1>7 DEF r

------------------------------------------------------------------------------
\* The listener that an update makes has the next id, whichever way its sockets are
\* set up.
LEMMA NewListenerIsListed ==
  ASSUME NEW name \in Names, made \in Nat,
         NEW existing, existing.socket_factories = <<>>, NEW update \in BOOLEAN
  PROVE  \A new \in {Lists!SetupSocketFactoryForListener(Lists!NewListener(name), existing, update),
                     Lists!SetNewOrDrainingSocketFactory(Lists!NewListener(name))} :
           new \in Listeners /\ new.id = made + 1 /\ new.name = name
<1> DEFINE l == Lists!NewListener(name)
           n == [l EXCEPT !.socket_factories = <<>>]
<1>1. l \in Listeners /\ l.id = made + 1 /\ l.name = name
  BY DEF Lists!NewListener, Listeners
<1>2. l.addresses = <<>> /\ l.socket_factories = <<>>
  BY DEF Lists!NewListener
<1>3. <<>> \o <<>> = <<>>
  BY EmptySeq, ConcatEmptySeq
<1> HIDE DEF l
<1>4. Lists!AddSocketFactories(l, <<>>) = n
  BY <1>2, <1>3 DEF Lists!AddSocketFactories
<1>5. n \in Listeners /\ n.id = made + 1 /\ n.name = name
  BY <1>1 DEF Listeners
<1> HIDE DEF n
<1>6. Lists!SetNewOrDrainingSocketFactory(l) = n /\ Lists!CloneSocketFactoryFrom(l, existing) = n
  BY <1>2, <1>4 DEF Lists!SetNewOrDrainingSocketFactory, Lists!CreateListenSocketFactory,
                    Lists!CloneSocketFactoryFrom
<1>7. Lists!SetupSocketFactoryForListener(l, existing, update) = n
  BY <1>6 DEF Lists!SetupSocketFactoryForListener
<1> QED
  BY <1>5, <1>6, <1>7 DEF l

\* Nothing is listed to begin with.
LEMMA InitListInv ==
  ASSUME Lists!Init
  PROVE  ListInv
<1>1. ListTypesHold
  BY EmptySeq DEF Lists!Init, ListTypesHold
<1>2. ListsAreDistinct /\ ListedIsAlive
  BY NothingListed DEF Lists!Init, ListsAreDistinct, ListedIsAlive
<1>3. KnownIsActive
  BY NothingListed DEF Lists!Init, KnownIsActive
<1> QED
  BY <1>1, <1>2, <1>3 DEF ListInv

------------------------------------------------------------------------------
(* Steps *)

\* An update that replaces the listener with its name: of the warming list at any
\* time, of the active list only before the workers were started.
LEMMA UpdateStep ==
  ASSUME ListInv, NEW name \in Names, NEW update \in BOOLEAN,
         Lists!AddOrUpdateListener(name, update)
  PROVE  ListInv'
<1> USE DEF ListInv
<1> DEFINE warm == Lists!GetListenerByName(warming_listeners, name)
           act == Lists!GetListenerByName(active_listeners, name)
           existing == IF warm # 0 THEN warming_listeners[warm] ELSE active_listeners[act]
           new == IF warm # 0 \/ act # 0
                  THEN Lists!SetupSocketFactoryForListener(Lists!NewListener(name), existing, update)
                  ELSE Lists!SetNewOrDrainingSocketFactory(Lists!NewListener(name))
<1>1. \/ warm = 0 /\ \A i \in 1..Len(warming_listeners) : warming_listeners[i].name # name
      \/ warm \in 1..Len(warming_listeners) /\ warming_listeners[warm].name = name
  BY FoundByName DEF ListTypesHold, ListsAreDistinct
<1>2. \/ act = 0 /\ \A i \in 1..Len(active_listeners) : active_listeners[i].name # name
      \/ act \in 1..Len(active_listeners) /\ active_listeners[act].name = name
  BY FoundByName DEF ListTypesHold, ListsAreDistinct
<1>3. new \in Listeners /\ new.id = made + 1 /\ new.name = name
  <2>1. CASE warm # 0 \/ act # 0
    <3>1. existing \in Listeners
      BY <1>1, <1>2, <2>1, Positions DEF ListTypesHold
    <3>2. existing.socket_factories = <<>>
      BY <3>1 DEF Listeners
    <3> QED
      BY <2>1, <3>2, NewListenerIsListed DEF ListTypesHold
  <2>2. CASE ~(warm # 0 \/ act # 0)
    <3>1. [socket_factories |-> <<>>].socket_factories = <<>>
      OBVIOUS
    <3>2. /\ Lists!SetNewOrDrainingSocketFactory(Lists!NewListener(name)) \in Listeners
          /\ Lists!SetNewOrDrainingSocketFactory(Lists!NewListener(name)).id = made + 1
          /\ Lists!SetNewOrDrainingSocketFactory(Lists!NewListener(name)).name = name
      BY <3>1, NewListenerIsListed DEF ListTypesHold
    <3> QED
      BY <2>2, <3>2
  <2> QED
    BY <2>1, <2>2
<1>4. /\ made' = made + 1
      /\ CASE warm # 0 ->
                /\ warming_listeners' = [warming_listeners EXCEPT ![warm] = new]
                /\ destroyed' = destroyed \cup {existing.id}
                /\ UNCHANGED active_listeners
           [] warm = 0 /\ Lists!Warms(act) ->
                /\ warming_listeners' = Append(warming_listeners, new)
                /\ UNCHANGED <<active_listeners, destroyed>>
           [] warm = 0 /\ ~Lists!Warms(act) /\ act # 0 ->
                /\ active_listeners' = [active_listeners EXCEPT ![act] = new]
                /\ destroyed' = destroyed \cup {existing.id}
                /\ UNCHANGED warming_listeners
           [] OTHER ->
                /\ active_listeners' = Append(active_listeners, new)
                /\ UNCHANGED <<warming_listeners, destroyed>>
      /\ UNCHANGED <<workers_started, posts, handled>>
  BY DEF Lists!AddOrUpdateListener
<1> HIDE DEF new, warm, act
<1>5. /\ made \in Nat /\ destroyed \subseteq 1..made
      /\ new.id \notin Ids(active_listeners) /\ new.id \notin Ids(warming_listeners)
      /\ new.id \notin destroyed /\ new.id \in 1..made' /\ 1..made \subseteq 1..made'
  BY <1>3, <1>4 DEF ListTypesHold, ListedIsAlive
<1>6. CASE warm # 0
  <2>1. /\ warming_listeners' = [warming_listeners EXCEPT ![warm] = new]
        /\ destroyed' = destroyed \cup {existing.id} /\ active_listeners' = active_listeners
        /\ existing = warming_listeners[warm]
    BY <1>4, <1>6
  <2> HIDE DEF existing
  <2>2. /\ warming_listeners' \in Seq(Listeners) /\ Distinct(warming_listeners')
        /\ Ids(warming_listeners') = (Ids(warming_listeners) \ {existing.id}) \cup {new.id}
        /\ existing.id \in Ids(warming_listeners)
    BY <1>1, <1>3, <1>5, <1>6, <2>1, ReplacedInList DEF ListTypesHold, ListsAreDistinct
  <2>3. ListTypesHold'
    BY <1>4, <1>5, <2>1, <2>2 DEF ListTypesHold
  <2>4. ListsAreDistinct'
    BY <1>5, <2>1, <2>2 DEF ListsAreDistinct
  <2>5. ListedIsAlive'
    BY <1>5, <2>1, <2>2 DEF ListsAreDistinct, ListedIsAlive
  <2>6. KnownIsActive'
    BY <1>4, <2>1 DEF KnownIsActive
  <2> QED
    BY <2>3, <2>4, <2>5, <2>6
<1>7. CASE warm = 0 /\ Lists!Warms(act)
  <2>1. /\ warming_listeners' = Append(warming_listeners, new)
        /\ active_listeners' = active_listeners /\ destroyed' = destroyed
    BY <1>4, <1>7
  <2>2. /\ warming_listeners' \in Seq(Listeners) /\ Distinct(warming_listeners')
        /\ Ids(warming_listeners') = Ids(warming_listeners) \cup {new.id}
    <3>1. \A i \in 1..Len(warming_listeners) : warming_listeners[i].name # new.name
      BY <1>1, <1>3, <1>7
    <3> QED
      BY <1>3, <1>5, <2>1, <3>1, AppendedToList DEF ListTypesHold, ListsAreDistinct
  <2>3. ListTypesHold'
    BY <1>4, <1>5, <2>1, <2>2 DEF ListTypesHold
  <2>4. ListsAreDistinct' /\ ListedIsAlive'
    BY <1>5, <2>1, <2>2 DEF ListsAreDistinct, ListedIsAlive
  <2>5. KnownIsActive'
    BY <1>4, <2>1 DEF KnownIsActive
  <2> QED
    BY <2>3, <2>4, <2>5
<1>8. CASE warm = 0 /\ ~Lists!Warms(act) /\ act # 0
  <2>1. /\ active_listeners' = [active_listeners EXCEPT ![act] = new]
        /\ destroyed' = destroyed \cup {existing.id} /\ warming_listeners' = warming_listeners
        /\ existing = active_listeners[act]
    BY <1>4, <1>8
  <2> HIDE DEF existing
  <2>2. /\ active_listeners' \in Seq(Listeners) /\ Distinct(active_listeners')
        /\ Ids(active_listeners') = (Ids(active_listeners) \ {existing.id}) \cup {new.id}
        /\ existing.id \in Ids(active_listeners)
    BY <1>2, <1>3, <1>5, <1>8, <2>1, ReplacedInList DEF ListTypesHold, ListsAreDistinct
  <2>3. ListTypesHold'
    BY <1>4, <1>5, <2>1, <2>2 DEF ListTypesHold
  <2>4. ListsAreDistinct'
    BY <1>5, <2>1, <2>2 DEF ListsAreDistinct
  <2>5. ListedIsAlive'
    BY <1>5, <2>1, <2>2 DEF ListsAreDistinct, ListedIsAlive
  <2>6. KnownIsActive'
    BY <1>4, <1>8 DEF KnownIsActive, Lists!Warms
  <2> QED
    BY <2>3, <2>4, <2>5, <2>6
<1>9. CASE warm = 0 /\ ~Lists!Warms(act) /\ act = 0
  <2>1. /\ active_listeners' = Append(active_listeners, new)
        /\ warming_listeners' = warming_listeners /\ destroyed' = destroyed
    BY <1>4, <1>9
  <2>2. /\ active_listeners' \in Seq(Listeners) /\ Distinct(active_listeners')
        /\ Ids(active_listeners') = Ids(active_listeners) \cup {new.id}
    <3>1. \A i \in 1..Len(active_listeners) : active_listeners[i].name # new.name
      BY <1>2, <1>3, <1>9
    <3> QED
      BY <1>3, <1>5, <2>1, <3>1, AppendedToList DEF ListTypesHold, ListsAreDistinct
  <2>3. ListTypesHold'
    BY <1>4, <1>5, <2>1, <2>2 DEF ListTypesHold
  <2>4. ListsAreDistinct' /\ ListedIsAlive'
    BY <1>5, <2>1, <2>2 DEF ListsAreDistinct, ListedIsAlive
  <2>5. KnownIsActive'
    BY <1>4, <1>9 DEF KnownIsActive, Lists!Warms
  <2> QED
    BY <2>3, <2>4, <2>5
<1> QED
  BY <1>6, <1>7, <1>8, <1>9

\* startWorkers() posts the active listeners.
LEMMA StartListStep ==
  ASSUME ListInv, Lists!StartWorkers
  PROVE  ListInv'
<1> USE DEF ListInv, Lists!StartWorkers
<1> DEFINE n == Len(active_listeners)
           posted == [i \in 1..n |-> active_listeners[i].id]
<1>1. /\ n \in Nat /\ DOMAIN active_listeners = 1..n
      /\ \A i \in 1..n : active_listeners[i] \in Listeners
  BY Positions DEF ListTypesHold
<1>2. \A i \in 1..n : active_listeners[i].id \in Nat
  BY <1>1 DEF Listeners
<1>3. posted \in Seq(Nat) /\ Len(posted) = n
  BY <1>1, <1>2, IsASeq
<1>4. Lists!ToSet(posted) = Ids(active_listeners)
  BY <1>1 DEF Lists!ToSet, Ids
<1>5. posts' = [w \in Workers |-> posted]
  BY <1>1
<1> HIDE DEF posted, n
<1>6. ListTypesHold'
  BY <1>3, <1>5 DEF ListTypesHold
<1>7. ListsAreDistinct' /\ ListedIsAlive'
  BY DEF ListsAreDistinct, ListedIsAlive
<1>8. KnownIsActive'
  BY <1>4, <1>5 DEF KnownIsActive
<1> QED
  BY <1>6, <1>7, <1>8

\* A worker adds the first listener that it was posted.
LEMMA WorkerListStep ==
  ASSUME ListInv, NEW w \in Workers, Lists!WorkerAddsListener(w)
  PROVE  ListInv'
<1> USE DEF ListInv, Lists!WorkerAddsListener
<1> DEFINE p == posts[w]
<1>1. p \in Seq(Nat) /\ p # <<>>
  BY DEF ListTypesHold
<1>2. Head(p) \in Nat /\ Tail(p) \in Seq(Nat)
  BY <1>1, HeadTailProperties
<1>3. Lists!ToSet(Tail(p)) \cup {Head(p)} \subseteq Lists!ToSet(p)
  <2>1. /\ Len(p) \in Nat /\ Len(p) # 0 /\ DOMAIN p = 1..Len(p) /\ Head(p) = p[1]
    BY <1>1, EmptySeq, LenProperties
  <2>2. /\ Len(Tail(p)) = Len(p) - 1 /\ DOMAIN Tail(p) = 1..Len(Tail(p))
        /\ \A i \in 1..Len(Tail(p)) : Tail(p)[i] = p[i + 1]
    BY <1>1, <1>2, HeadTailProperties, LenProperties
  <2>3. \A i \in 1..Len(Tail(p)) : i + 1 \in 1..Len(p)
    BY <2>1, <2>2
  <2> QED
    BY <2>1, <2>2, <2>3 DEF Lists!ToSet
<1>4. ListTypesHold'
  BY <1>2 DEF ListTypesHold
<1>5. ListsAreDistinct' /\ ListedIsAlive'
  BY DEF ListsAreDistinct, ListedIsAlive
<1>6. /\ posts'[w] = Tail(p) /\ handled'[w] = handled[w] \cup {Head(p)}
      /\ \A v \in Workers : v # w => posts'[v] = posts[v] /\ handled'[v] = handled[v]
  BY DEF ListTypesHold
<1> HIDE DEF p
<1>7. workers_started
  BY <1>1, <1>3 DEF KnownIsActive, p
<1>8. KnownIsActive'
  <2> SUFFICES ASSUME NEW v \in Workers
               PROVE  Lists!ToSet(posts'[v]) \cup handled'[v] \subseteq Ids(active_listeners)
    BY <1>7 DEF KnownIsActive
  <2>1. Lists!ToSet(posts[v]) \cup handled[v] \subseteq Ids(active_listeners)
    BY <1>7 DEF KnownIsActive
  <2> QED
    BY <1>3, <1>6, <2>1 DEF p
<1> QED
  BY <1>4, <1>5, <1>8

\* Every step keeps the invariant.
LEMMA ListInvariance ==
  ASSUME ListInv, [Lists!Next]_(Lists!vars)
  PROVE  ListInv'
<1>1. ASSUME NEW type, Lists!StopListeners(type)
      PROVE  ListInv'
  BY <1>1 DEF Lists!StopListeners, ListInv, ListTypesHold, ListsAreDistinct, ListedIsAlive, KnownIsActive
<1>2. CASE UNCHANGED Lists!vars
  BY <1>2 DEF Lists!vars, ListInv, ListTypesHold, ListsAreDistinct, ListedIsAlive, KnownIsActive
<1> QED
  BY <1>1, <1>2, UpdateStep, StartListStep, WorkerListStep DEF Lists!Next

\* ListenerManagerImpl: however updates, startWorkers() and the posts to the workers
\* interleave, a listener that a worker was posted, or has added, is not destroyed, and
\* the names in a list are distinct.
THEOREM PostedListenersStay == Lists!Spec => []Lists!ListenersOutlivePosts
<1>1. ListInv => Lists!ListenersOutlivePosts
  <2> SUFFICES ASSUME ListInv
               PROVE  Lists!ListenersOutlivePosts
    OBVIOUS
  <2>1. \A w \in Workers : (Lists!ToSet(posts[w]) \cup handled[w]) \cap destroyed = {}
    BY DEF ListInv, KnownIsActive, ListedIsAlive
  <2>2. \A list \in {active_listeners, warming_listeners} : \A i, j \in DOMAIN list :
          list[i].name = list[j].name => i = j
    BY DEF ListInv, ListsAreDistinct, Distinct
  <2> QED
    BY <2>1, <2>2 DEF Lists!ListenersOutlivePosts
<1> QED
  BY <1>1, InitListInv, ListInvariance, PTL DEF Lists!Spec
==============================================================================
