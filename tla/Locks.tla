-------------------------------- MODULE Locks --------------------------------
(***************************************************************************)
(* The lock guards of LockGuard.h around a MutexBasicLockable, and the     *)
(* objects that several threads make on first use: AtomicPtrArray::get()   *)
(* with its double-checked lock, and ThreadSafeSingleton::get().           *)
(***************************************************************************)
EXTENDS Integers, FiniteSets

CONSTANTS
  Thread, NoThread,
  Index,          \* the indices of an AtomicPtrArray
  MaxMade,       \* bound on the objects that make_object() returns
  DeleteOnDestruct  \* alloc_mode == AtomicPtrAllocMode::DeleteOnDestruct

\* What CommonProofs assumes of the constants: NoThread and the two other values of once
\* stand for no thread, and an array has finitely many slots, at least one.
ThreadIds == NoThread \notin Thread /\ "no" \notin Thread /\ "done" \notin Thread
Slots == IsFiniteSet(Index) /\ Index # {}

VARIABLES
  holder,   \* the thread that holds the mutex of the guards, or NoThread
  guard,    \* thread -> its guard: its kind ("none" without one) and whether it is to unlock
  forgotten, \* history: the threads whose guard no longer knows that it holds the mutex
  data,     \* data_: slot -> the object, 0 for nullptr
  mutex,    \* the holder of mutex_ of the AtomicPtrArray
  call,     \* thread -> where it is in get(), and for which slot
  got,      \* history: thread -> the slot and the result of its last get()
  made,     \* history: slot -> the objects made for it
  deleted,  \* the objects that the destructor of the array deleted
  once,     \* create_once_ of the singleton: the thread in Create(), "no" or "done"
  instance  \* instance_: has it been assigned?

vars == <<holder, guard, forgotten, data, mutex, call, got, made, deleted, once, instance>>
guardVars == <<holder, guard, forgotten>>
arrayVars == <<data, mutex, call, got, made, deleted>>
onceVars == <<once, instance>>

------------------------------------------------------------------------------
(* Guards *)

NoGuard == [kind |-> "none", unlocks |-> FALSE]

\* The constructors: lock() blocks; OptionalLockGuard accepts nullptr; TryLockGuard does
\* not lock yet.
LockGuard(t, kind) ==
  /\ guard[t] = NoGuard /\ kind \in {"lock", "optional", "releasable"} /\ holder = NoThread
  /\ holder' = t /\ guard' = [guard EXCEPT ![t] = [kind |-> kind, unlocks |-> TRUE]]
  /\ UNCHANGED <<forgotten, arrayVars, onceVars>>
GuardWithoutLock(t, kind) ==
  /\ guard[t] = NoGuard /\ kind \in {"optional", "try"}
  /\ guard' = [guard EXCEPT ![t] = [kind |-> kind, unlocks |-> FALSE]]
  /\ UNCHANGED <<holder, forgotten, arrayVars, onceVars>>

\* TryLockGuard::tryLock(), as often as the caller likes: the mutex is not recursive, so
\* a call while the guard holds it returns FALSE, which overwrites is_locked_.
TryLock(t) ==
  /\ guard[t].kind = "try"
  /\ guard' = [guard EXCEPT ![t].unlocks = (holder = NoThread)]
  /\ holder' = IF holder = NoThread THEN t ELSE holder
  /\ forgotten' = IF guard[t].unlocks THEN forgotten \cup {t} ELSE forgotten
  /\ UNCHANGED <<arrayVars, onceVars>>

\* release() sets lock_ to nullptr, for the destructor.
AfterRelease(g) == [g EXCEPT !.unlocks = FALSE]

\* ReleasableLockGuard::release(), which may be called again.
Release(t) ==
  /\ guard[t].kind = "releasable"
  /\ holder' = IF guard[t].unlocks THEN NoThread ELSE holder
  /\ guard' = [guard EXCEPT ![t] = AfterRelease(@)]
  /\ UNCHANGED <<forgotten, arrayVars, onceVars>>

\* The destructors.
DestroyGuard(t) ==
  /\ guard[t] # NoGuard
  /\ holder' = IF guard[t].unlocks THEN NoThread ELSE holder
  /\ guard' = [guard EXCEPT ![t] = NoGuard]
  /\ UNCHANGED <<forgotten, arrayVars, onceVars>>

------------------------------------------------------------------------------
(* AtomicPtrArray: in get() a thread is "out", waits for the "lock", is about to "make" *)
(* the object under the lock, or to "unlock", or about to "return".                          *)

At(t, pc) == call[t].pc = pc /\ deleted = {}
Go(t, pc) == call' = [call EXCEPT ![t].pc = pc]

\* The first load.
Get(t, i) ==
  /\ At(t, "out")
  /\ call' = [call EXCEPT ![t] = [pc |-> IF data[i] = 0 THEN "lock" ELSE "return", slot |-> i]]
  /\ UNCHANGED <<data, mutex, got, made, deleted, guardVars, onceVars>>

\* Mutant of StillMissing: what the first load saw is not checked again.
AssumedMissing(i) == TRUE

\* The load under the lock.
StillMissing(i) == data[i] = 0

LockAndLoad(t) ==
  /\ At(t, "lock") /\ mutex = NoThread
  /\ mutex' = t
  /\ Go(t, IF StillMissing(call[t].slot) THEN "make" ELSE "unlock")
  /\ UNCHANGED <<data, got, made, deleted, guardVars, onceVars>>

\* make_object(), which may return nullptr: the next get() then calls it again.
Make(t, null) ==
  LET i == call[t].slot
      count == Cardinality(UNION {made[j] : j \in Index})
  IN  /\ At(t, "make") /\ (null \/ count < MaxMade)
      /\ data' = [data EXCEPT ![i] = IF null THEN 0 ELSE count + 1]
      /\ made' = [made EXCEPT ![i] = IF null THEN @ ELSE @ \cup {count + 1}]
      /\ Go(t, "unlock")
      /\ UNCHANGED <<mutex, got, deleted, guardVars, onceVars>>

\* The end of the block with the lock.
Unlock(t) ==
  /\ At(t, "unlock")
  /\ mutex' = NoThread
  /\ Go(t, "return")
  /\ UNCHANGED <<data, got, made, deleted, guardVars, onceVars>>

\* The slot is loaded once more, without the lock.
Return(t) ==
  /\ At(t, "return")
  /\ got' = [got EXCEPT ![t] = <<call[t].slot, data[call[t].slot]>>]
  /\ Go(t, "out")
  /\ UNCHANGED <<data, mutex, made, deleted, guardVars, onceVars>>

\* The destructor, when no thread is in get().
DestroyArray ==
  /\ \A t \in Thread : At(t, "out")
  /\ DeleteOnDestruct
  /\ deleted' = {data[i] : i \in Index} \ {0}
  /\ UNCHANGED <<data, mutex, call, got, made, guardVars, onceVars>>

------------------------------------------------------------------------------
(* ThreadSafeSingleton: absl::call_once() makes the others wait for Create(). *)

CallOnce(t) ==
  /\ once = "no" /\ once' = t
  /\ UNCHANGED <<instance, guardVars, arrayVars>>
Create(t) ==
  /\ once = t /\ once' = "done" /\ instance' = instance + 1
  /\ UNCHANGED <<guardVars, arrayVars>>

Init ==
  /\ holder = NoThread /\ guard = [t \in Thread |-> NoGuard] /\ forgotten = {}
  /\ data = [i \in Index |-> 0] /\ mutex = NoThread
  /\ call = [t \in Thread |-> [pc |-> "out", slot |-> CHOOSE i \in Index : TRUE]]
  /\ got = [t \in Thread |-> <<>>] /\ made = [i \in Index |-> {}] /\ deleted = {}
  /\ once = "no" /\ instance = 0

GuardNext == \E t \in Thread :
  \/ \E kind \in {"lock", "optional", "releasable"} : LockGuard(t, kind)
  \/ \E kind \in {"optional", "try"} : GuardWithoutLock(t, kind)
  \/ TryLock(t) \/ Release(t) \/ DestroyGuard(t)
ObjectNext ==
  \/ \E t \in Thread :
       \/ \E i \in Index : Get(t, i)
       \/ LockAndLoad(t) \/ Unlock(t) \/ Return(t)
       \/ \E null \in BOOLEAN : Make(t, null)
       \/ CallOnce(t) \/ Create(t)
  \/ DestroyArray

\* The two halves share nothing: each is explored on its own.
Next == GuardNext \/ ObjectNext

Spec == Init /\ [][Next]_vars
------------------------------------------------------------------------------
\* The mutex is held exactly by the thread whose guard is still to unlock it: no guard
\* unlocks twice, which would take the lock away from a thread that got it in between,
\* and none is destroyed without unlocking.  There is one way to break this, and no
\* other: a TryLockGuard whose tryLock() is called again while it holds the mutex
\* (LockGuard.h:80-83) forgets that it is to unlock.  The mutex then stays with that
\* thread for good, whether its guard is destroyed or not, and nobody else gets it.
GuardsOwnTheirLock ==
  \A t \in Thread :
    /\ holder = t <=> guard[t].unlocks \/ t \in forgotten
    /\ ~(guard[t].unlocks /\ t \in forgotten)

\* However many threads ask for a slot at once, at most one object is made for it and
\* every one of them gets that object (or nullptr when make_object() returned that);
\* what the array deletes is what was made for it, each once.
ObjectsAreMadeOnce ==
  /\ \A i \in Index : made[i] = {data[i]} \ {0}
  /\ \A t \in Thread : got[t] # <<>> => got[t][2] \in made[got[t][1]] \cup {0}
  /\ deleted # {} => deleted = UNION {made[i] : i \in Index}
  /\ instance <= 1 /\ (once = "done" => instance = 1)
==============================================================================
