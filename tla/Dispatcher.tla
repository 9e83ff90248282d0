------------------------------ MODULE Dispatcher ------------------------------
(***************************************************************************)
(* Event::DispatcherImpl (DispatcherImpl.cpp) on top of                    *)
(* LibeventScheduler and SchedulableCallbackImpl: one thread runs the      *)
(* loop, every thread may hand work over to it.                            *)
(*                                                                         *)
(* Three kinds of work are handed over:                                    *)
(*   "post"      post(): std::function run by runPostCallbacks;            *)
(*   "delete"    deleteInDispatcherThread(): object destroyed by           *)
(*               runThreadLocalDelete;                                     *)
(*   "deferred"  deferredDelete(): object destroyed by                     *)
(*               clearDeferredDeleteList, only from the loop's own thread. *)
(* The first two are lists guarded by a lock and share one pattern; the    *)
(* third is the pair of vectors to_delete_1_ and to_delete_2_.  An item is *)
(* the number of its submission among the items of its kind.               *)
(***************************************************************************)
EXTENDS Naturals, Sequences

CONSTANTS
  Threads,      \* the threads other than the one that runs the loop
  LoopThread,   \* the thread that calls run()
  Limit,        \* [Kind -> Nat]: bound on the items of each kind handed over
  MaxExits,     \* bound on the calls of exit()
  Initialized   \* did Libevent::Global::initialize() give libevent its locks?

QKind == {"post", "delete"}
Kind == QKind \cup {"deferred"}
RunType == {"Block", "NonBlock", "RunUntilExit"}
AllThreads == Threads \cup {LoopThread}

\* The libevent events that can be active: the dispatcher's own schedulable
\* callbacks (named after their kind), the one-shot event of
\* event_base_loopexit, and "event" for any registered timer or file event.
Event == Kind \cup {"loopexit", "event"}

ASSUME ConstantsAssumption ==
  /\ LoopThread \notin Threads
  /\ Limit \in [Kind -> Nat]
  /\ MaxExits \in Nat
  /\ Initialized \in BOOLEAN

VARIABLES
  \* ---- shared between threads
  queue,        \* post_callbacks_ and deletables_in_dispatcher_thread_
  checking,     \* [QKind -> threads about to call enabled() in scheduleCallback...]
  activating,   \* [QKind -> threads that read enabled() = false]
  active,       \* libevent's work list, first activated first
  \* ---- of the loop's thread
  pc,           \* where the loop's thread is (see LoopPC)
  in_loop,      \* inside event_base_loop (base->running_loop)
  type,         \* the RunType of the last run()
  gotterm,      \* base->event_gotterm
  registered,   \* is any timer or file event registered with the base?
  batch,        \* the local list that runPostCallbacks, runThreadLocalDelete
                \* or shutdown moved a queue into
  to_delete,    \* <<to_delete_1_, to_delete_2_>>; reset elements are dropped
  current,      \* current_to_delete_, as an index of to_delete
  deferred_deleting,
  in_dtor,      \* inside the destructor of an element of to_delete
  \* ---- history
  handed,       \* items handed over, per kind
  exits,        \* calls of exit() so far
  delivered     \* the last item run or destroyed on the loop's thread

lists == <<queue, checking, activating>>
history == <<handed, exits, delivered>>
loopVars == <<pc, in_loop, type, gotterm, batch>>
deferredVars == <<to_delete, current, deferred_deleting, in_dtor>>
vars == <<queue, checking, activating, active, pc, in_loop, type, gotterm,
          registered, batch, to_delete, current, deferred_deleting, in_dtor,
          handed, exits, delivered>>

\* idle: outside run(); take_k: about to take queue k under its lock; k:
\* draining the batch; callback/destructor/event: inside user code; top, work,
\* blocked: libevent's iteration; down: after shutdown().
LoopPC == {"idle", "take_post", "post", "callback", "take_delete", "delete",
           "destructor", "top", "work", "event", "blocked", "down", "destroyed"}

TypeOK ==
  /\ queue \in [QKind -> Seq(Nat)]
  /\ checking \in [QKind -> SUBSET AllThreads]
  /\ activating \in [QKind -> SUBSET AllThreads]
  /\ active \in Seq(Event)
  /\ pc \in LoopPC
  /\ in_loop \in BOOLEAN
  /\ type \in RunType
  /\ gotterm \in BOOLEAN
  /\ registered \in BOOLEAN
  /\ batch \in Seq(Nat)
  /\ to_delete \in [1..2 -> Seq(Nat)]
  /\ current \in 1..2
  /\ deferred_deleting \in BOOLEAN
  /\ in_dtor \in BOOLEAN
  /\ handed \in [Kind -> Nat]
  /\ exits \in Nat
  /\ delivered \in [Kind -> Nat]

Init ==
  /\ queue = [k \in QKind |-> <<>>]
  /\ checking = [k \in QKind |-> {}]
  /\ activating = [k \in QKind |-> {}]
  /\ active = <<>>
  /\ pc = "idle"
  /\ in_loop = FALSE
  /\ type = "Block"
  /\ gotterm = FALSE
  /\ registered = FALSE
  /\ batch = <<>>
  /\ to_delete = [i \in 1..2 |-> <<>>]
  /\ current = 1
  /\ deferred_deleting = FALSE
  /\ in_dtor = FALSE
  /\ handed = [k \in Kind |-> 0]
  /\ exits = 0
  /\ delivered = [k \in Kind |-> 0]

------------------------------------------------------------------------------
(* Scheduling: SchedulableCallbackImpl and event_active *)

\* SchedulableCallbackImpl::enabled()
Armed(e) == \E i \in DOMAIN active : active[i] = e

\* event_active(): an event that is already active is not queued twice.
Activated(e) == IF Armed(e) THEN active ELSE Append(active, e)

\* event_del(): the event leaves the work list.
Without(e) ==
  IF ~Armed(e)
  THEN active
  ELSE LET i == CHOOSE i \in DOMAIN active : active[i] = e
       IN  [j \in 1..(Len(active) - 1) |-> IF j < i THEN active[j] ELSE active[j + 1]]

\* event_active() by thread t.  When libevent has no locks, a thread that calls
\* it while the loop runs races on the work list and its event may be lost.
EventActive(t, e) ==
  \/ active' = Activated(e)
  \/ /\ ~Initialized /\ in_loop /\ t \in Threads
     /\ active' = active

Scheduling == UNION {checking[k] \cup activating[k] : k \in QKind}

\* The loop's thread is inside a function the dispatcher called, or outside
\* run(): the places where it can call the dispatcher's operations.
UserCode ==
  IF deferred_deleting
  THEN in_dtor
  ELSE pc \in {"idle", "callback", "destructor", "event"}

MayCall(t) ==
  /\ pc # "destroyed"
  /\ t \notin Scheduling
  /\ t = LoopThread => UserCode

\* The loop's thread is free to take its next step below user code.
LoopFree == ~deferred_deleting /\ LoopThread \notin Scheduling

------------------------------------------------------------------------------
(* Operations any thread may call *)

\* Mutant of NeedSchedule: the emptiness is read after the item is added.
NeedScheduleAfterPush(k) == FALSE

\* do_post and need_schedule, read under the lock before the item is added.
NeedSchedule(k) == queue[k] = <<>>

\* post() and deleteInDispatcherThread() up to the end of the critical section;
\* the scheduling that follows happens with the lock released.
Push(t, k) ==
  /\ MayCall(t)
  /\ handed[k] < Limit[k]
  /\ handed' = [handed EXCEPT ![k] = @ + 1]
  /\ queue' = [queue EXCEPT ![k] = Append(@, handed[k] + 1)]
  /\ checking' = IF NeedSchedule(k)
                 THEN [checking EXCEPT ![k] = @ \cup {t}]
                 ELSE checking
  /\ UNCHANGED <<activating, active, registered, exits, delivered>>
  /\ UNCHANGED <<loopVars, deferredVars>>

\* scheduleCallbackCurrentIteration(), first half: the early return.
CheckEnabled(t, k) ==
  /\ t \in checking[k]
  /\ checking' = [checking EXCEPT ![k] = @ \ {t}]
  /\ activating' = IF Armed(k)
                   THEN activating
                   ELSE [activating EXCEPT ![k] = @ \cup {t}]
  /\ UNCHANGED <<queue, active, registered, history>>
  /\ UNCHANGED <<loopVars, deferredVars>>

\* scheduleCallbackCurrentIteration(), second half: event_active().
Activate(t, k) ==
  /\ t \in activating[k]
  /\ activating' = [activating EXCEPT ![k] = @ \ {t}]
  /\ EventActive(t, k)
  /\ UNCHANGED <<queue, checking, registered, history>>
  /\ UNCHANGED <<loopVars, deferredVars>>

\* exit(): event_base_loopexit(base, nullptr) activates a one-shot event.
Exit(t) ==
  /\ MayCall(t)
  /\ exits < MaxExits
  /\ exits' = exits + 1
  /\ EventActive(t, "loopexit")
  /\ UNCHANGED <<lists, registered, handed, delivered>>
  /\ UNCHANGED <<loopVars, deferredVars>>

------------------------------------------------------------------------------
(* Operations only the loop's thread may call *)

\* Mutant of DeferredDelete: a clear in progress is expected to find the element.
DeferredDeleteTrustsClear ==
  /\ MayCall(LoopThread)
  /\ handed["deferred"] < Limit["deferred"]
  /\ handed' = [handed EXCEPT !["deferred"] = @ + 1]
  /\ to_delete' = [to_delete EXCEPT ![current] = Append(@, handed["deferred"] + 1)]
  /\ active' = IF Len(to_delete[current]) = 0 /\ ~deferred_deleting
               THEN Activated("deferred") ELSE active
  /\ UNCHANGED <<lists, registered, delivered, exits>>
  /\ UNCHANGED <<loopVars, current, deferred_deleting, in_dtor>>

\* deferredDelete()
DeferredDelete ==
  /\ MayCall(LoopThread)
  /\ handed["deferred"] < Limit["deferred"]
  /\ handed' = [handed EXCEPT !["deferred"] = @ + 1]
  /\ to_delete' = [to_delete EXCEPT ![current] = Append(@, handed["deferred"] + 1)]
  /\ active' = IF Len(to_delete[current]) = 0 THEN Activated("deferred") ELSE active
  /\ UNCHANGED <<lists, registered, delivered, exits>>
  /\ UNCHANGED <<loopVars, current, deferred_deleting, in_dtor>>

\* Mutant of BeginClear: the deferred_deleting_ guard is missing.
BeginClearReentrant ==
  IF to_delete[current] = <<>>
  THEN UNCHANGED deferredVars
  ELSE /\ current' = 3 - current
       /\ deferred_deleting' = TRUE
       /\ in_dtor' = FALSE
       /\ UNCHANGED to_delete

\* clearDeferredDeleteList() up to its first reset(): the early return, or the
\* swap of the vectors.
BeginClear ==
  IF deferred_deleting \/ to_delete[current] = <<>>
  THEN UNCHANGED deferredVars
  ELSE /\ current' = 3 - current
       /\ deferred_deleting' = TRUE
       /\ in_dtor' = FALSE
       /\ UNCHANGED to_delete

\* The other vector: the one clearDeferredDeleteList() is going through.
Other == 3 - current

\* (*to_delete)[i].reset(): the destructor starts.
ResetElement ==
  /\ deferred_deleting /\ ~in_dtor
  /\ LoopThread \notin Scheduling
  /\ to_delete[Other] # <<>>
  /\ to_delete' = [to_delete EXCEPT ![Other] = Tail(@)]
  /\ delivered' = [delivered EXCEPT !["deferred"] = Head(to_delete[Other])]
  /\ in_dtor' = TRUE
  /\ UNCHANGED <<lists, active, registered, handed, exits>>
  /\ UNCHANGED <<loopVars, current, deferred_deleting>>

\* The destructor returns; after the last one deferred_deleting_ is cleared.
ElementDestroyed ==
  /\ deferred_deleting /\ in_dtor
  /\ LoopThread \notin Scheduling
  /\ in_dtor' = FALSE
  /\ deferred_deleting' = (to_delete[Other] # <<>>)
  /\ UNCHANGED <<lists, active, registered, history, to_delete, current>>
  /\ UNCHANGED loopVars

\* clearDeferredDeleteList() called by user code.
ClearDeferredDeleteList ==
  /\ MayCall(LoopThread)
  /\ BeginClear
  /\ UNCHANGED <<lists, active, registered, history>>
  /\ UNCHANGED loopVars

\* User code registers a timer or a file event, or drops the last one.
Register(b) ==
  /\ MayCall(LoopThread)
  /\ registered # b
  /\ registered' = b
  /\ active' = IF b THEN active ELSE Without("event")
  /\ UNCHANGED <<lists, history>>
  /\ UNCHANGED <<loopVars, deferredVars>>

------------------------------------------------------------------------------
(* The loop's thread *)

\* run(): flush the posts first, then enter the loop.
Run(t) ==
  /\ pc = "idle" /\ LoopFree
  /\ pc' = "take_post"
  /\ type' = t
  /\ BeginClear
  /\ UNCHANGED <<lists, active, in_loop, gotterm, registered, batch, history>>

\* Mutant of Take: the list is copied, not moved.
TakeCopies(k) ==
  /\ pc = (IF k = "post" THEN "take_post" ELSE "take_delete") /\ LoopFree
  /\ pc' = k
  /\ batch' = queue[k]
  /\ UNCHANGED <<lists, active, in_loop, type, gotterm, registered, history>>
  /\ UNCHANGED deferredVars

\* The critical section of runPostCallbacks, runThreadLocalDelete and shutdown.
Take(k) ==
  /\ pc = (IF k = "post" THEN "take_post" ELSE "take_delete") /\ LoopFree
  /\ pc' = k
  /\ batch' = queue[k]
  /\ queue' = [queue EXCEPT ![k] = <<>>]
  /\ UNCHANGED <<checking, activating, active, in_loop, type, gotterm, registered,
                 history>>
  /\ UNCHANGED deferredVars

\* callbacks.front()() or the destructor run by to_be_delete.pop_front().
Start(k) ==
  /\ pc = k /\ LoopFree
  /\ batch # <<>>
  /\ pc' = IF k = "post" THEN "callback" ELSE "destructor"
  /\ batch' = Tail(batch)
  /\ delivered' = [delivered EXCEPT ![k] = Head(batch)]
  /\ UNCHANGED <<lists, active, in_loop, type, gotterm, registered, handed,
                 exits>>
  /\ UNCHANGED deferredVars

\* The callback, destructor or event handler returns.
Return ==
  /\ LoopFree
  /\ \/ pc = "callback" /\ pc' = "post"
     \/ pc = "destructor" /\ pc' = "delete"
     \/ pc = "event" /\ pc' = "work"
  /\ UNCHANGED <<lists, active, in_loop, type, gotterm, registered, batch, history>>
  /\ UNCHANGED deferredVars

\* The batch is finished.  runPostCallbacks called from run() falls into
\* event_base_loop, which resets event_gotterm; from the loop it goes back to
\* the work list; shutdown() sets shutdown_called_.
Drained(k) ==
  /\ pc = k /\ LoopFree
  /\ batch = <<>>
  /\ \/ in_loop /\ pc' = "work"
     \/ ~in_loop /\ pc' = (IF k = "post" THEN "top" ELSE "down")
  /\ in_loop' = (in_loop \/ k = "post")
  /\ gotterm' = (gotterm /\ in_loop)
  /\ UNCHANGED <<lists, active, type, registered, batch, history>>
  /\ UNCHANGED deferredVars

\* event_base_loop returns: loopexit was handled, or nothing is left to wait
\* for and the flags do not say EVLOOP_NO_EXIT_ON_EMPTY.
LoopReturns ==
  /\ pc = "top"
  /\ gotterm \/ (type # "RunUntilExit" /\ ~registered /\ active = <<>>)
  /\ pc' = "idle"
  /\ in_loop' = FALSE
  /\ UNCHANGED <<lists, active, type, gotterm, registered, batch, history>>
  /\ UNCHANGED deferredVars

\* One poll of libevent: a registered event may be ready.  With nothing active,
\* EVLOOP_NONBLOCK returns and the other modes wait in the kernel.
Poll(ready) ==
  /\ pc = "top" /\ ~gotterm
  /\ type = "RunUntilExit" \/ registered \/ active # <<>>
  /\ ready => registered
  /\ active' = IF ready THEN Activated("event") ELSE active
  /\ \/ active' # <<>> /\ pc' = "work"
     \/ active' = <<>> /\ pc' = (IF type = "NonBlock" THEN "idle" ELSE "blocked")
  /\ in_loop' = (pc' # "idle")
  /\ UNCHANGED <<lists, type, gotterm, registered, batch, history>>
  /\ UNCHANGED deferredVars

\* The loop wakes up: a registered event is ready, or another thread activated
\* an event and could notify the loop, which needs evthread_use_pthreads().
Wake(ready) ==
  /\ pc = "blocked"
  /\ IF ready THEN registered ELSE Initialized /\ active # <<>>
  /\ active' = IF ready THEN Activated("event") ELSE active
  /\ pc' = "work"
  /\ UNCHANGED <<lists, in_loop, type, gotterm, registered, batch, history>>
  /\ UNCHANGED deferredVars

\* Mutant of Fire: the one-shot event of exit() does not set event_gotterm.
FireForgetsExit(e) ==
  /\ pc = "work" /\ LoopFree
  /\ active # <<>> /\ Head(active) = e
  /\ active' = Tail(active)
  /\ \/ e = "post" /\ pc' = "take_post"
     \/ e = "delete" /\ pc' = "take_delete"
     \/ e = "event" /\ pc' = "event"
     \/ e \in {"deferred", "loopexit"} /\ pc' = "work"
  /\ IF e \in {"post", "deferred"} THEN BeginClear ELSE UNCHANGED deferredVars
  /\ UNCHANGED <<lists, in_loop, type, gotterm, registered, batch, history>>

\* The callback of the first active event starts; libevent has taken the event
\* off the work list.
Fire(e) ==
  /\ pc = "work" /\ LoopFree
  /\ active # <<>> /\ Head(active) = e
  /\ active' = Tail(active)
  /\ \/ e = "post" /\ pc' = "take_post"
     \/ e = "delete" /\ pc' = "take_delete"
     \/ e = "event" /\ pc' = "event"
     \/ e \in {"deferred", "loopexit"} /\ pc' = "work"
  /\ gotterm' = (gotterm \/ e = "loopexit")
  /\ IF e \in {"post", "deferred"} THEN BeginClear ELSE UNCHANGED deferredVars
  /\ UNCHANGED <<lists, in_loop, type, registered, batch, history>>

\* The work list is empty: next iteration.
WorkDone ==
  /\ pc = "work" /\ LoopFree
  /\ active = <<>>
  /\ pc' = "top"
  /\ UNCHANGED <<lists, active, in_loop, type, gotterm, registered, batch, history>>
  /\ UNCHANGED deferredVars

\* shutdown() after run() returned: only the deletables are destroyed.
Shutdown ==
  /\ pc = "idle" /\ LoopFree
  /\ pc' = "take_delete"
  /\ UNCHANGED <<lists, active, in_loop, type, gotterm, registered, batch, history>>
  /\ UNCHANGED deferredVars

\* ~DispatcherImpl() by the owner, once no thread is inside the dispatcher: what
\* is left in the members is dropped on the owner's thread.
Destroy ==
  /\ pc \in {"idle", "down"} /\ LoopFree /\ Scheduling = {}
  /\ pc' = "destroyed"
  /\ UNCHANGED <<lists, active, in_loop, type, gotterm, registered, batch, history>>
  /\ UNCHANGED deferredVars

------------------------------------------------------------------------------

Caller(t) ==
  \/ \E k \in QKind : Push(t, k)
  \/ Exit(t)

Scheduler(t) == \E k \in QKind : CheckEnabled(t, k) \/ Activate(t, k)

UserOps ==
  \/ DeferredDelete
  \/ ClearDeferredDeleteList
  \/ \E b \in BOOLEAN : Register(b)

\* The steps the loop's thread takes by itself once run() or shutdown() started.
LoopStep ==
  \/ ResetElement
  \/ ElementDestroyed
  \/ \E k \in QKind : Take(k) \/ Start(k) \/ Drained(k)
  \/ Return
  \/ LoopReturns
  \/ \E ready \in BOOLEAN : Poll(ready)
  \/ Wake(FALSE)
  \/ \E e \in Event : Fire(e)
  \/ WorkDone

Owner ==
  \/ \E t \in RunType : Run(t)
  \/ Shutdown
  \/ Destroy

Next ==
  \/ \E t \in AllThreads : Caller(t) \/ Scheduler(t)
  \/ UserOps
  \/ LoopStep
  \/ Wake(TRUE)
  \/ Owner

Spec == Init /\ [][Next]_vars

\* Threads that entered the dispatcher keep running, user code returns, and the
\* kernel delivers notifications; whether a registered event ever becomes ready,
\* and what callers do, is left open.
Fairness ==
  /\ \A t \in AllThreads : WF_vars(Scheduler(t))
  /\ WF_vars(LoopStep)

FairSpec == Spec /\ Fairness
------------------------------------------------------------------------------
(* Properties *)

\* post() and deleteInDispatcherThread() decide under the lock whether to
\* schedule, and schedule after releasing it, while runPostCallbacks and
\* runThreadLocalDelete empty the list concurrently: an item is never left in
\* a list that nobody is going to look at.
NoLostWakeup ==
  Initialized =>
    \A k \in QKind :
      queue[k] # <<>> =>
        \/ Armed(k)
        \/ checking[k] \cup activating[k] # {}
        \/ pc = (IF k = "post" THEN "take_post" ELSE "take_delete")

\* deferredDelete() schedules only for the first element of the current vector,
\* and clearDeferredDeleteList() swaps the vectors, from several callers, while
\* destructors add more: whatever is in the current vector has a scheduled
\* deferred_delete_cb_ that will clear it, and outside of a clear the other
\* vector is empty.
DeferredScheduled ==
  /\ to_delete[current] # <<>> => Armed("deferred")
  /\ ~deferred_deleting => to_delete[Other] = <<>>

\* ---- The inductive invariant of the theorems in module DispatcherProofs

\* The loop's thread is working through a batch taken from queue k.
BatchOf(k) ==
  pc \in (IF k = "post" THEN {"post", "callback"} ELSE {"delete", "destructor"})

BatchLen(k) == IF BatchOf(k) THEN Len(batch) ELSE 0

\* The items of a queue that are not consumed yet are consecutive: first the
\* rest of the batch, then the list.
QueueShape(k) ==
  /\ handed[k] = delivered[k] + BatchLen(k) + Len(queue[k])
  /\ BatchOf(k) => \A i \in 1..Len(batch) : batch[i] = delivered[k] + i
  /\ \A i \in 1..Len(queue[k]) :
       queue[k][i] = delivered[k] + BatchLen(k) + i

\* So are the deferred deletions: first the rest of the vector being cleared,
\* then the current one.
DeferredShape ==
  /\ handed["deferred"] =
       delivered["deferred"] + Len(to_delete[Other]) + Len(to_delete[current])
  /\ \A i \in 1..Len(to_delete[Other]) :
       to_delete[Other][i] = delivered["deferred"] + i
  /\ \A i \in 1..Len(to_delete[current]) :
       to_delete[current][i] = delivered["deferred"] + Len(to_delete[Other]) + i

\* Everything handed over and not yet consumed is in the dispatcher exactly
\* once, in submission order, and a destroyed dispatcher is not in a clear.
NothingLostOrReordered ==
  /\ \A k \in QKind : QueueShape(k)
  /\ DeferredShape
  /\ pc = "destroyed" => ~deferred_deleting

IndInv ==
  /\ TypeOK
  /\ NoLostWakeup
  /\ DeferredScheduled
  /\ NothingLostOrReordered

\* The dispatcher implements three first-in first-out mailboxes: each callback
\* runs once and each object is destroyed once, in the order of submission,
\* whatever batches, swaps and re-entrant submissions they go through.
M == INSTANCE Mailbox WITH open <- (pc # "destroyed")
MailboxSpec == M!Spec

\* While the loop runs, everything handed over is consumed sooner or later,
\* unless the loop returns.
HandedIsDelivered ==
  \A k \in Kind : \A n \in 1..Limit[k] :
    (in_loop /\ handed[k] >= n) ~> (~in_loop \/ delivered[k] >= n)

\* exit() called by any thread while the loop runs makes run() return.
ExitReturns == (in_loop /\ Armed("loopexit")) ~> ~in_loop
==============================================================================
