------------------------------- MODULE Threads -------------------------------
(***************************************************************************)
(* Threads and the registry of main threads.  Threads are created and      *)
(* joined; while one runs it declares itself a main thread with MainThread *)
(* objects and turns the assertions about threads off with SkipAsserts     *)
(* objects, both of which may be nested.  Every operation on the registry  *)
(* holds its mutex, and the counter of SkipAsserts is atomic, so each is   *)
(* one step.                                                               *)
(***************************************************************************)
EXTENDS Integers, FiniteSets

CONSTANTS
  Thread,      \* thread ids
  TestThread,  \* the thread whose id is the process id
  MaxNested,   \* bound on the objects of a kind that a thread keeps alive
  Uint32       \* the number of values of a uint32_t

\* What CommonProofs assumes of the constants: threads are finitely many, and fewer
\* SkipAsserts objects are alive at once than a uint32_t can count.
CountersFit ==
  /\ IsFiniteSet(Thread)
  /\ MaxNested \in Nat /\ Uint32 \in Nat
  /\ Cardinality(Thread) * MaxNested < Uint32

VARIABLES
  main_threads_to_usage_count,  \* a function whose domain is the threads in the map
  skip_asserts,                 \* skip_asserts_ (uint32_t)
  life,                         \* thread -> "new", "running", "ended" or "joined"
  mains, skips                  \* history: thread -> its live MainThread and SkipAsserts objects

vars == <<main_threads_to_usage_count, skip_asserts, life, mains, skips>>

InMainThread(t) == t \in DOMAIN main_threads_to_usage_count
IsMainThreadActive == DOMAIN main_threads_to_usage_count # {}
IsTestThread(t) == t = TestThread
SkipAsserts == skip_asserts > 0

\* The macros: does the assertion hold on thread t?
AssertIsTestThread(t) == SkipAsserts \/ IsTestThread(t)
AssertIsMainOrTestThread(t) == SkipAsserts \/ IsTestThread(t) \/ InMainThread(t)
AssertIsNotTestThread(t) == SkipAsserts \/ ~IsTestThread(t)
AssertIsNotMainOrTestThread(t) == SkipAsserts \/ (~InMainThread(t) /\ ~IsTestThread(t))

\* The constructor of MainThread: registerMainThread().
RegisterMainThread(t) ==
  LET count == main_threads_to_usage_count IN
  /\ life[t] = "running" /\ mains[t] < MaxNested
  /\ main_threads_to_usage_count' =
       [u \in DOMAIN count \cup {t} |-> (IF u \in DOMAIN count THEN count[u] ELSE 0) + (IF u = t THEN 1 ELSE 0)]
  /\ mains' = [mains EXCEPT ![t] = @ + 1]
  /\ UNCHANGED <<skip_asserts, life, skips>>

\* The entry goes when its count came down to 0.
Erases(count) == count = 0

\* The destructor of MainThread, on the thread that it was constructed on:
\* releaseMainThread().
ReleaseMainThread(t) ==
  LET count == main_threads_to_usage_count IN
  /\ life[t] = "running" /\ mains[t] > 0
  /\ main_threads_to_usage_count' =
       IF ~InMainThread(t) THEN count
       ELSE IF Erases(count[t] - 1) THEN [u \in DOMAIN count \ {t} |-> count[u]]
       ELSE [count EXCEPT ![t] = @ - 1]
  /\ mains' = [mains EXCEPT ![t] = @ - 1]
  /\ UNCHANGED <<skip_asserts, life, skips>>

IncSkipAsserts(t) ==
  /\ life[t] = "running" /\ skips[t] < MaxNested
  /\ skip_asserts' = (skip_asserts + 1) % Uint32
  /\ skips' = [skips EXCEPT ![t] = @ + 1]
  /\ UNCHANGED <<main_threads_to_usage_count, life, mains>>
DecSkipAsserts(t) ==
  /\ life[t] = "running" /\ skips[t] > 0
  /\ skip_asserts' = (skip_asserts - 1) % Uint32
  /\ skips' = [skips EXCEPT ![t] = @ - 1]
  /\ UNCHANGED <<main_threads_to_usage_count, life, mains>>

\* createThread(): the routine may run before the constructor is left.
CreateThread(t) ==
  /\ life[t] = "new"
  /\ life' = [life EXCEPT ![t] = "running"]
  /\ UNCHANGED <<main_threads_to_usage_count, skip_asserts, mains, skips>>
\* The routine returns: the objects on its stack are gone by then.
RoutineReturns(t) ==
  /\ life[t] = "running" /\ mains[t] = 0 /\ skips[t] = 0
  /\ life' = [life EXCEPT ![t] = "ended"]
  /\ UNCHANGED <<main_threads_to_usage_count, skip_asserts, mains, skips>>
\* join() blocks until the routine returned; a thread is joined once.  Afterwards the
\* system gives the id to a new thread.
Join(t) ==
  /\ life[t] = "ended"
  /\ life' = [life EXCEPT ![t] = "joined"]
  /\ UNCHANGED <<main_threads_to_usage_count, skip_asserts, mains, skips>>
ReuseId(t) ==
  /\ life[t] = "joined"
  /\ life' = [life EXCEPT ![t] = "new"]
  /\ UNCHANGED <<main_threads_to_usage_count, skip_asserts, mains, skips>>

Init ==
  /\ main_threads_to_usage_count = [t \in {} |-> 0]
  /\ skip_asserts = 0
  /\ life = [t \in Thread |-> IF t = TestThread THEN "running" ELSE "new"]
  /\ mains = [t \in Thread |-> 0] /\ skips = [t \in Thread |-> 0]

Next == \E t \in Thread :
  \/ RegisterMainThread(t) \/ ReleaseMainThread(t)
  \/ IncSkipAsserts(t) \/ DecSkipAsserts(t)
  \/ CreateThread(t) \/ RoutineReturns(t) \/ Join(t) \/ ReuseId(t)

Spec == Init /\ [][Next]_vars
------------------------------------------------------------------------------
\* A thread is a main thread exactly while one of its MainThread objects lives, however
\* they nest and whatever other threads do, so a thread that gets the id of an ended one
\* is not taken for it; and the assertions about threads fail only for the wrong thread,
\* never while any thread has a SkipAsserts object.
ThreadChecksAreExact ==
  LET skipping == \E u \in Thread : skips[u] > 0 IN
  /\ IsMainThreadActive <=> \E t \in Thread : mains[t] > 0
  /\ \A t \in Thread :
       /\ InMainThread(t) <=> mains[t] > 0
       /\ InMainThread(t) => life[t] = "running"
       /\ AssertIsTestThread(t) <=> skipping \/ t = TestThread
       /\ AssertIsNotTestThread(t) <=> skipping \/ t # TestThread
       /\ AssertIsMainOrTestThread(t) <=> skipping \/ mains[t] > 0 \/ t = TestThread
       /\ AssertIsNotMainOrTestThread(t) <=> skipping \/ ~(mains[t] > 0 \/ t = TestThread)
==============================================================================
