-------------------------------- MODULE Server --------------------------------
(***************************************************************************)
(* The threads of the server: Server::initialize() and run() on the main   *)
(* thread, ListenerManagerImpl::startWorkers() and stopWorkers(), and      *)
(* WorkerImpl::threadRoutine() on one thread per worker.                   *)
(*                                                                         *)
(* The threads talk through the post() list of each dispatcher, which is a *)
(* first-in first-out mailbox here (module Mailbox; module Dispatcher is   *)
(* the proof that it is one), and through absl::BlockingCounter.           *)
(***************************************************************************)
EXTENDS Naturals, Sequences, FiniteSets

CONSTANTS
  NumWorkers,     \* workers_.size(), Server::concurrency()
  NumListeners    \* active_listeners_.size() when startWorkers() is called

ASSUME SizesAssumption ==
  /\ NumWorkers \in Nat \ {0}
  /\ NumListeners \in Nat \ {0}

Worker == 1..NumWorkers

VARIABLES
  \* ---- main thread
  main,             \* where it is (see MainPC)
  next,             \* the worker that the loop of start/stopWorkers is at
  started,          \* Server::workers_started_
  lm_started,       \* ListenerManagerImpl::workers_started_
  timer,            \* is loop_timer_ enabled?
  counter,          \* workers_waiting_to_run, a local of startWorkers()
  pending,          \* *listeners_pending_init
  mainq, mainbatch, \* main dispatcher: post_callbacks_, and the list being run
  main_armed,       \* main dispatcher: is post_cb_ scheduled?
  \* ---- worker w
  wpc,              \* where its thread is (see WorkerPC)
  wq, wbatch, armed,\* its dispatcher: as mainq, mainbatch, main_armed
  added,            \* number of listeners its handler_ has added
  alive,            \* handler_ not reset yet
  \* ---- history
  init_calls,       \* calls of the callback of startWorkers()
  notified          \* has notifyCallbacksForStage(Startup) run?

mainVars == <<main, next, started, lm_started, timer, counter>>
mainPost == <<mainq, mainbatch, main_armed>>
workerVars == <<wpc, wq, wbatch, armed, added, alive>>
history == <<init_calls, notified>>
vars == <<main, next, started, lm_started, timer, counter, pending, mainq, mainbatch,
          main_armed, wpc, wq, wbatch, armed, added, alive, init_calls, notified>>

\* new: before initialize(); starting, waiting: in startWorkers(); initialized:
\* initialize() returned; posted: run() posted the notification; take, batch: in
\* runPostCallbacks; loop: in event_base_loop; stopping: in stopWorkers();
\* reading: inside WorkerImpl::numConnections() with a pointer to the handler;
\* timer: in the callback of loop_timer_.
MainPC == {"new", "starting", "waiting", "initialized", "posted", "take", "batch",
           "loop", "timer", "stopping", "reading"}

\* none: no thread; posting: before the post in threadRoutine; take, batch: in
\* runPostCallbacks; loop: in event_base_loop; leaving: run() returned;
\* exited, joined: the thread ended, and the main thread joined it.
WorkerPC == {"none", "posting", "take", "batch", "loop", "leaving", "exited", "joined"}

WorkerItem == {"add", "started"}
MainItem == {"completion", "startup", "hello", "completion_cb"}

TypeOK ==
  /\ main \in MainPC
  /\ next \in 1..(NumWorkers + 1)
  /\ started \in BOOLEAN /\ lm_started \in BOOLEAN /\ timer \in BOOLEAN
  /\ counter \in 0..NumWorkers
  /\ pending \in Nat
  /\ mainq \in Seq(MainItem) /\ mainbatch \in Seq(MainItem)
  /\ main_armed \in BOOLEAN
  /\ wpc \in [Worker -> WorkerPC]
  /\ wq \in [Worker -> Seq(WorkerItem)] /\ wbatch \in [Worker -> Seq(WorkerItem)]
  /\ armed \in [Worker -> BOOLEAN] /\ alive \in [Worker -> BOOLEAN]
  /\ added \in [Worker -> Nat]
  /\ init_calls \in Nat /\ notified \in BOOLEAN

Init ==
  /\ main = "new" /\ next = 1
  /\ started = FALSE /\ lm_started = FALSE /\ timer = FALSE
  /\ counter = 0 /\ pending = 0
  /\ mainq = <<>> /\ mainbatch = <<>> /\ main_armed = FALSE
  /\ wpc = [w \in Worker |-> "none"]
  /\ wq = [w \in Worker |-> <<>>] /\ wbatch = [w \in Worker |-> <<>>]
  /\ armed = [w \in Worker |-> FALSE]
  /\ added = [w \in Worker |-> 0]
  /\ alive = [w \in Worker |-> TRUE]
  /\ init_calls = 0 /\ notified = FALSE

------------------------------------------------------------------------------
(* Main thread *)

\* post() on the main dispatcher: schedules when the list was empty.
PostMain(items) ==
  /\ mainq' = mainq \o items
  /\ main_armed' = (main_armed \/ mainq = <<>>)

\* initialize() up to the loop that starts the threads: the workers exist with
\* their dispatchers, no thread runs yet, and startWorkers() posted every
\* listener to every worker.
Initialize ==
  /\ main = "new"
  /\ main' = "starting" /\ next' = 1
  /\ lm_started' = TRUE
  /\ counter' = NumWorkers
  /\ pending' = NumWorkers * NumListeners
  /\ wq' = [w \in Worker |-> [i \in 1..NumListeners |-> "add"]]
  /\ armed' = [w \in Worker |-> TRUE]
  /\ UNCHANGED <<started, timer, mainPost, wpc, wbatch, added, alive, history>>

\* worker->start(): createThread.
StartWorker ==
  /\ main = "starting"
  /\ wpc' = [wpc EXCEPT ![next] = "posting"]
  /\ next' = next + 1
  /\ main' = IF next = NumWorkers THEN "waiting" ELSE "starting"
  /\ UNCHANGED <<started, lm_started, timer, counter, pending, mainPost, wq, wbatch,
                 armed, added, alive, history>>

\* Mutant of WaitReturns: the wait ends when one worker is still missing.
WaitReturnsEarly ==
  /\ main = "waiting"
  /\ counter <= 1
  /\ main' = "initialized"
  /\ UNCHANGED <<next, started, lm_started, timer, counter, pending, mainPost,
                 workerVars, history>>

\* workers_waiting_to_run.Wait() returns, and so do startWorkers(), initialize().
WaitReturns ==
  /\ main = "waiting"
  /\ counter = 0
  /\ main' = "initialized"
  /\ UNCHANGED <<next, started, lm_started, timer, counter, pending, mainPost,
                 workerVars, history>>

\* Server::run(): the first post.
RunPostsStartup ==
  /\ main = "initialized"
  /\ main' = "posted"
  /\ PostMain(<<"startup">>)
  /\ UNCHANGED <<next, started, lm_started, timer, counter, pending, mainbatch,
                 workerVars, history>>

\* Server::run(): the second post, infinit_loop(), then DispatcherImpl::run().
RunStartsLoop ==
  /\ main = "posted"
  /\ main' = "take"
  /\ timer' = TRUE
  /\ PostMain(<<"hello">>)
  /\ UNCHANGED <<next, started, lm_started, counter, pending, mainbatch, workerVars,
                 history>>

\* Mutant of MainTake: the list is cleared before it is moved.
MainTakeCleared ==
  /\ main = "take"
  /\ main' = "batch"
  /\ mainbatch' = <<>>
  /\ mainq' = <<>>
  /\ UNCHANGED <<next, started, lm_started, timer, counter, pending, main_armed,
                 workerVars, history>>

\* runPostCallbacks() takes the list under the lock.
MainTake ==
  /\ main = "take"
  /\ main' = "batch"
  /\ mainbatch' = mainq
  /\ mainq' = <<>>
  /\ UNCHANGED <<next, started, lm_started, timer, counter, pending, main_armed,
                 workerVars, history>>

\* Mutant of RunCompletion: post-decrement instead of pre-decrement.
RunCompletionPostDecrement ==
  /\ pending' = pending - 1
  /\ started' = (started \/ pending = 0)
  /\ init_calls' = init_calls + (IF pending = 0 THEN 1 ELSE 0)
  /\ UNCHANGED <<mainq, main_armed, notified>>

\* The completion of one addListenerToWorker(): the last one calls the callback
\* of startWorkers(), which sets Server::workers_started_.
RunCompletion ==
  /\ pending' = pending - 1
  /\ started' = (started \/ pending = 1)
  /\ init_calls' = init_calls + (IF pending = 1 THEN 1 ELSE 0)
  /\ UNCHANGED <<mainq, main_armed, notified>>

\* notifyCallbacksForStage(Startup): the lists of stage callbacks are empty, as
\* the body of registerCallback() is commented out, and the Cleanup of cb_guard
\* posts completion_cb at the end.
RunStartup ==
  /\ notified' = TRUE
  /\ PostMain(<<"completion_cb">>)
  /\ UNCHANGED <<pending, started, init_calls>>

\* The main thread runs the next callback of its batch.
MainRuns ==
  /\ main = "batch" /\ mainbatch # <<>>
  /\ mainbatch' = Tail(mainbatch)
  /\ \/ Head(mainbatch) = "completion" /\ RunCompletion
     \/ Head(mainbatch) = "startup" /\ RunStartup
     \/ /\ Head(mainbatch) \in {"hello", "completion_cb"}
        /\ UNCHANGED <<pending, started, mainq, main_armed, history>>
  /\ UNCHANGED <<main, next, lm_started, timer, counter, workerVars>>

MainBatchDone ==
  /\ main = "batch" /\ mainbatch = <<>>
  /\ main' = "loop"
  /\ UNCHANGED <<next, started, lm_started, timer, counter, pending, mainPost,
                 workerVars, history>>

\* post_cb_ fires: runPostCallbacks() again.
MainFires ==
  /\ main = "loop" /\ main_armed
  /\ main' = "take" /\ main_armed' = FALSE
  /\ UNCHANGED <<next, started, lm_started, timer, counter, pending, mainq, mainbatch,
                 workerVars, history>>

\* loop_timer_ fires: it is no longer pending while its callback runs.
TimerFires ==
  /\ main = "loop" /\ timer
  /\ main' = "timer" /\ timer' = FALSE
  /\ UNCHANGED <<next, started, lm_started, counter, pending, mainPost, workerVars,
                 history>>

\* sayHello() replaces loop_timer_ by a new enabled timer, so the Block loop of
\* the main dispatcher always has an event to wait for.
SayHello ==
  /\ main = "timer"
  /\ main' = "loop" /\ timer' = TRUE
  /\ UNCHANGED <<next, started, lm_started, counter, pending, mainPost, workerVars,
                 history>>

\* stopWorkers(), called by a callback of the main loop or before initialize():
\* the early return when the workers were not started, else exit() and join()
\* for each worker, once (join() must not be called twice).  The exit() of a
\* dispatcher whose Block loop has no registered event changes nothing: the
\* loop returns by itself.
StopWorkers ==
  /\ main \in {"new", "loop"}
  /\ \A w \in Worker : wpc[w] # "joined"
  /\ main' = IF lm_started THEN "stopping" ELSE main
  /\ next' = 1
  /\ UNCHANGED <<started, lm_started, timer, counter, pending, mainPost, workerVars,
                 history>>

\* thread_->join() returns; after the last worker stopWorkers() returns.
JoinReturns ==
  /\ main = "stopping"
  /\ wpc[next] = "exited"
  /\ wpc' = [wpc EXCEPT ![next] = "joined"]
  /\ next' = next + 1
  /\ main' = IF next = NumWorkers THEN "loop" ELSE "stopping"
  /\ UNCHANGED <<started, lm_started, timer, counter, pending, mainPost, wq, wbatch,
                 armed, added, alive, history>>

\* numConnections(), called by a callback of the main loop, at worker w: handler_
\* is tested, ...
NumConnections(w) ==
  /\ main = "loop"
  /\ alive[w]
  /\ main' = "reading" /\ next' = w
  /\ UNCHANGED <<started, lm_started, timer, counter, pending, mainPost, workerVars,
                 history>>

\* ... then used.
NumConnectionsReturns ==
  /\ main = "reading"
  /\ main' = "loop"
  /\ UNCHANGED <<next, started, lm_started, timer, counter, pending, mainPost,
                 workerVars, history>>

------------------------------------------------------------------------------
(* Worker threads *)

\* threadRoutine(): post the started callback, then DispatcherImpl::run().
WorkerPosts(w) ==
  /\ wpc[w] = "posting"
  /\ wpc' = [wpc EXCEPT ![w] = "take"]
  /\ wq' = [wq EXCEPT ![w] = Append(@, "started")]
  /\ armed' = [armed EXCEPT ![w] = @ \/ wq[w] = <<>>]
  /\ UNCHANGED <<mainVars, pending, mainPost, wbatch, added, alive, history>>

\* Mutant of WorkerTake: one callback per call instead of the whole list.
WorkerTakesOne(w) ==
  /\ wpc[w] = "take"
  /\ wpc' = [wpc EXCEPT ![w] = "batch"]
  /\ wbatch' = [wbatch EXCEPT ![w] = SubSeq(wq[w], 1, 1)]
  /\ wq' = [wq EXCEPT ![w] = SubSeq(@, 2, Len(@))]
  /\ UNCHANGED <<mainVars, pending, mainPost, armed, added, alive, history>>

\* runPostCallbacks() on the worker's thread takes the list under the lock.
WorkerTake(w) ==
  /\ wpc[w] = "take"
  /\ wpc' = [wpc EXCEPT ![w] = "batch"]
  /\ wbatch' = [wbatch EXCEPT ![w] = wq[w]]
  /\ wq' = [wq EXCEPT ![w] = <<>>]
  /\ UNCHANGED <<mainVars, pending, mainPost, armed, added, alive, history>>

\* The callback posted by WorkerImpl::addListener(): the handler adds the
\* listener, and the completion posts back to the main dispatcher.
WorkerAddsListener(w) ==
  /\ wpc[w] = "batch" /\ wbatch[w] # <<>> /\ Head(wbatch[w]) = "add"
  /\ wbatch' = [wbatch EXCEPT ![w] = Tail(@)]
  /\ added' = [added EXCEPT ![w] = @ + 1]
  /\ PostMain(<<"completion">>)
  /\ UNCHANGED <<mainVars, pending, mainbatch, wpc, wq, armed, alive, history>>

\* worker_started_running: DecrementCount() on the counter of startWorkers().
WorkerStarted(w) ==
  /\ wpc[w] = "batch" /\ wbatch[w] # <<>> /\ Head(wbatch[w]) = "started"
  /\ wbatch' = [wbatch EXCEPT ![w] = Tail(@)]
  /\ counter' = counter - 1
  /\ UNCHANGED <<main, next, started, lm_started, timer, pending, mainPost, wpc, wq,
                 armed, added, alive, history>>

WorkerBatchDone(w) ==
  /\ wpc[w] = "batch" /\ wbatch[w] = <<>>
  /\ wpc' = [wpc EXCEPT ![w] = "loop"]
  /\ UNCHANGED <<mainVars, pending, mainPost, wq, wbatch, armed, added, alive, history>>

WorkerFires(w) ==
  /\ wpc[w] = "loop" /\ armed[w]
  /\ wpc' = [wpc EXCEPT ![w] = "take"]
  /\ armed' = [armed EXCEPT ![w] = FALSE]
  /\ UNCHANGED <<mainVars, pending, mainPost, wq, wbatch, added, alive, history>>

\* Mutant of WorkerLoopReturns: the loop is run with RunUntilExit.
WorkerLoopReturnsNever(w) ==
  /\ wpc[w] = "loop" /\ ~armed[w]
  /\ UNCHANGED vars

\* run(Block) returns when nothing is registered and nothing is active; then
\* shutdown().
WorkerLoopReturns(w) ==
  /\ wpc[w] = "loop" /\ ~armed[w]
  /\ wpc' = [wpc EXCEPT ![w] = "leaving"]
  /\ UNCHANGED <<mainVars, pending, mainPost, wq, wbatch, armed, added, alive, history>>

\* handler_.reset() and the end of the thread.
WorkerExits(w) ==
  /\ wpc[w] = "leaving"
  /\ wpc' = [wpc EXCEPT ![w] = "exited"]
  /\ alive' = [alive EXCEPT ![w] = FALSE]
  /\ UNCHANGED <<mainVars, pending, mainPost, wq, wbatch, armed, added, history>>

------------------------------------------------------------------------------

\* What the main thread does by itself once main() called initialize().
MainStep ==
  \/ StartWorker
  \/ WaitReturns
  \/ RunPostsStartup
  \/ RunStartsLoop
  \/ MainTake
  \/ MainRuns
  \/ MainBatchDone
  \/ MainFires
  \/ SayHello
  \/ JoinReturns
  \/ NumConnectionsReturns

WorkerStep(w) ==
  \/ WorkerPosts(w)
  \/ WorkerTake(w)
  \/ WorkerAddsListener(w)
  \/ WorkerStarted(w)
  \/ WorkerBatchDone(w)
  \/ WorkerFires(w)
  \/ WorkerLoopReturns(w)
  \/ WorkerExits(w)

UserOps ==
  \/ Initialize
  \/ TimerFires
  \/ StopWorkers
  \/ \E w \in Worker : NumConnections(w)

Next ==
  \/ MainStep
  \/ UserOps
  \/ \E w \in Worker : WorkerStep(w)

Spec == Init /\ [][Next]_vars

\* The operating system runs every thread, and the functions called here return.
Fairness ==
  /\ WF_vars(MainStep)
  /\ \A w \in Worker : WF_vars(WorkerStep(w))

FairSpec == Spec /\ Fairness
------------------------------------------------------------------------------
(* Properties *)

Count(item, s) == Cardinality({i \in DOMAIN s : s[i] = item})

\* The listeners that worker w was posted and has not added yet.
ToAdd(w) == Count("add", wq[w]) + Count("add", wbatch[w])

\* The number of completions of startWorkers() that are still on their way:
\* listeners a worker has to add, and completions in the main dispatcher.
OnTheWay ==
  Cardinality(UNION {{w} \X (1..ToAdd(w)) : w \in Worker})
    + Count("completion", mainq) + Count("completion", mainbatch)

\* listeners_pending_init counts exactly the completions on their way between
\* the threads, so the callback of startWorkers() runs once, after the last of
\* them, and Server::workers_started_ says whether it did.
PendingIsExact ==
  /\ pending = OnTheWay
  /\ init_calls = (IF lm_started /\ pending = 0 THEN 1 ELSE 0)
  /\ started = (init_calls = 1)

\* notifyCallbacksForStage(Startup) runs on the main thread only after every
\* worker added every listener and workers_started_ was set: the completions
\* reach the main list before run() posts the notification.
StartupSeesWorkers ==
  notified => started /\ \A w \in Worker : added[w] = NumListeners

\* worker_started_running holds a reference to a local of startWorkers(): no
\* worker can still call it once startWorkers() returned.
CounterOutlivesCallers ==
  main \notin {"new", "starting", "waiting"} =>
    \A w \in Worker :
      /\ wpc[w] \notin {"none", "posting"}
      /\ Count("started", wq[w]) + Count("started", wbatch[w]) = 0

\* A worker leaves its loop and destroys its handler only after it has run
\* everything that was posted to it.
HandlerOutlivesPosts ==
  \A w \in Worker : ~alive[w] => wq[w] = <<>> /\ wbatch[w] = <<>>

\* Once the workers are being started, initialize() returns, although the main
\* thread blocks before its loop runs and the workers post to that loop, and run()
\* notifies the Startup stage.
StartupIsNotified == (main = "starting") ~> notified

\* stopWorkers() returns: every thread that it joins ends.
StopReturns == (main = "stopping") ~> (main = "loop")

\* Worker.h: "All routines are thread safe", numConnections() included.
NumConnectionsIsSafe == main = "reading" => alive[next]
==============================================================================
