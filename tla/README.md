# A TLA+ model of the TCP server on libevent

The repository is a server skeleton derived from Envoy: an event loop on top of
libevent (`source/src/common/event`), worker threads that each run one
(`source/src/server`), the byte buffers connections are to use
(`source/src/common/buffer`), and utilities. Much of the server layer is still
commented out; what is modelled is what is compiled.

Part 1 is the inventory of the system, part 2 says which module models what, part
3 what the model checking runs show, part 4 what is proved, part 5 what is left
out, part 6 where code and documentation disagree, and part 7 is the plan.
`PROJECT.json` is the machine-readable index: definitions with the source lines
they model, runs, hazards with the properties that watch them, findings, theorems.

## 1. Inventory

### Dispatcher (`DispatcherImpl`, `LibeventScheduler`, `SchedulableCallbackImpl`)

*State.* Two lists under a lock (`post_callbacks_`,
`deletables_in_dispatcher_thread_`), the pair of vectors `to_delete_1_` /
`to_delete_2_` with `current_to_delete_` and `deferred_deleting_`, one schedulable
callback for each of the three, and libevent's work list and flags.
*Operations.* From any thread: `post`, `deleteInDispatcherThread`, `exit`. From the
loop's thread: `deferredDelete`, `clearDeferredDeleteList`, event creation, `run`,
`shutdown`, destruction.
*Interaction.* Every other component runs inside its callbacks; threads talk to
each other by posting to each other's dispatcher.
*Hard.* Whether to schedule is decided under the lock, the scheduling happens after
it is released and is itself a test (`enabled()`) followed by an act
(`event_active()`), while the loop empties the list. Destructors run by
`clearDeferredDeleteList` defer more objects and may clear again, while the vectors
are swapped under them. The loop blocks in the kernel and must be woken.
*Correct means.* No item waits without somebody being about to look at it; each item
is consumed once, on the loop's thread, in the order of submission; while the loop
runs everything is consumed; `exit()` ends `run()`.

### File events (`FileEventImpl`)

*State.* The enabled mask, the injected events, the schedulable callback that
reports them, the descriptor's registration. *Operations.* `activate`,
`setEnabled`, `(un)registerEventIfEmulatedEdge`, the two libevent callbacks,
destruction. *Hard.* Descriptor events and injected events of one loop iteration are
merged; user callbacks, and those of other events of the same iteration, change
masks and activate in any order; an edge must not get lost by re-registration.
*Correct means.* The activation is armed exactly when something is injected; only
events that are enabled or were activated since are reported; no edge is lost;
what was activated is reported.

### Server, listener manager and workers (`Server`, `ListenerManagerImpl`, `WorkerImpl`)

*State.* Per worker a dispatcher, a connection handler and a thread; on the main
thread `workers_started_` twice (server and listener manager), the shared counter
`listeners_pending_init`, a `BlockingCounter` on the stack of `startWorkers`, the
main dispatcher and a one-shot timer that replaces itself. *Operations.*
`initialize` (`startWorkers`, one `addListener` post per worker and listener, thread
start, wait), `run` (posts the Startup notification, runs the loop),
`notifyCallbacksForStage`, `stopWorkers` (exit and join), `numConnections`,
`threadRoutine`. *Hard.* Completions come back by posts to a main loop that does not
run yet; workers decrement a counter that lives on another thread's stack; the
handler dies at the end of the worker's thread; the main thread blocks in `Wait()`
and in `join()`. *Correct means.* The callback of `startWorkers` runs exactly once
and after the last completion; the Startup stage sees all workers ready; nobody
uses the counter or the handler after its life; start and stop return.

### Buffers (`SliceDeque`, `Slice`, `OwnedImpl`)

*State.* A ring of slices that doubles when full; slices with drained, data and
reservable sections, drain trackers and a memory account; the buffer's length; the
thread's free list of slice storage. *Operations.* add, prepend, drain, move,
linearize, extract, reserve/commit, search, trackers, accounts, fragments.
*Interaction.* `move`, `prepend(Instance&)` and `add(const Instance&)` work on two
buffers and pass slices with their trackers and charges. *Hard.* Wrap-around and
growth at the same time; lengths that end inside a slice; coalescing that gives
bytes, trackers and charges to different slices; matches across slice borders;
unsigned arithmetic. *Correct means.* The deque is a sequence and destroys a slice
exactly when it is popped; a buffer is a byte queue; the length is that of the
slices; each tracker runs once and not too early; an account is charged for exactly
the slices that name it; `search` finds the first match.

### Slice memory and reads (`OwnedImpl`, `Slice`, `Reservation`, `Buffer.h`)

*State.* Blocks of memory owned by slices, by a reservation, by the thread's free
list, by a caller of `extractMutableFrontSlice()` or by a fragment. *Operations.*
`reserveForRead`, `reserveSingleSlice`, `commit`, dropping a reservation, fragments
with and without a releasor; `copyOut`, `copyOutToSlices`, `getRawSlices`,
`startsWith`, `peekInt`, `writeInt`. *Hard.* A reservation mixes the rest of the last
slice, recycled blocks and new ones, and is committed in part; other calls may come
between. Reads start and end inside slices. *Correct means.* Each block has one owner;
a reservation has the room it shows; a read sees the bytes, never the borders.

### Timers and time (`TimerImpl`, `DispatcherImpl::updateApproximateMonotonicTime`)

*State.* The loop's cached time, deadlines, timers waiting in the work list.
*Operations.* `enableTimer`, `enableHRTimer`, `disableTimer`, the raw event; durations
are converted to seconds and microseconds and clipped. *Hard.* Enabling again or
disabling while the expired timer already waits in the work list. *Correct means.*
A timer runs only while enabled and never before its time.

### Addresses, sockets and system calls (`AddressImpl`, `Network::Utility`, `SocketOptionImpl`, `OsSysCallsImpl`)

*State.* Addresses are values; a UDP read keeps the last drop counter of its socket;
a call leaves `errno`. *Operations.* Construction, comparison and classes of
addresses; parsing of addresses, URLs and port ranges; reading datagrams one by one,
several at once or joined by the kernel; writing one with a retry; setting socket
options; every wrapper of a system call. *Hard.* Limits of address classes, numerals at
65535, a joined datagram whose last segment is short, a 32-bit counter that wraps,
`errno` left by an earlier call. *Correct means.* Names identify addresses; datagrams
are passed on whole, in order and once; drops are reported once; an error code
belongs to the call that returns it.

### Listener lists and connection handler maps (`ListenerManagerImpl`, `ListenerImpl`, `ConnectionHandlerImpl`)

*State.* Active and warming listeners with their socket factories, posts to workers
that still refer to a listener; in each worker maps by tag, by address and by
internal address. *Operations.* `addOrUpdateListener`, `startWorkers`,
`stopListeners`, the worker's `addListener`, lookups. *Hard.* Updates before and after
the workers start, while their posts are under way; the compatible IPv4 address of a
dual-stack listener competes with a listener that has it; tags that coincide. *Correct
means.* A listener a worker was posted lives; sockets go only to a listener with the same
addresses; an address leads to the last listener with that address.

### Threads, locks and scoped objects (`ThreadBase`, `ThreadImpl`, `LockGuard`, `AtomicPtrArray`, `Assert`, `Cleanup`, singletons)

*State.* The registry of main threads with a count per thread and `skip_asserts_`;
guards that may or may not hold their lock; pointers made once; chains of assertion
actions, lists and maps that objects enter and leave. *Operations.* Nested
registration and release, thread creation and join, `tryLock`/`release`, `get` of an
array slot or singleton by several threads, registration, cancellation and
destruction in any order, the assertion macros. *Hard.* A thread id that is used again
after a join; the second look at a pointer under the lock; removal from the middle of
a chain; a second `tryLock()` of a guard. *Correct means.* The checks see exactly the
registered threads; a lock is released once by its holder; one object is made; what is
removed is exactly the object that goes.

### Containers and pure functions (`Utility`, `IntervalValue`, `RandomGenerator`, `Hash`)

Interval sets, the trie, dates with a per-thread cache of formatted texts, pools of
random words and bytes, string functions, prime numbers, running statistics,
fractions, the DJB2 hash. *Hard.* Intervals that touch; cached texts whose length
changes with the number of digits of the seconds; pools that are refilled with a rest;
numerals at the limit of a word. *Correct means.* They return what their definition
says.

## 2. Modules

| Module | Models | Abstract specification | Used by |
|---|---|---|---|
| `Dispatcher` | the dispatcher with its scheduler and one libevent loop | `Mailbox` | `MCDispatcher`, `DispatcherProofs` |
| `Mailbox` | what a dispatcher promises: one FIFO per kind of work | | `Dispatcher`; `Server` relies on it |
| `FileEvent` | one file event and the iterations of its loop | | `EventLoopProofs` |
| `Server` | main thread and workers, composed through their post lists | | `ServerProofs` |
| `SliceDeque` | the ring of slices | `SliceSequence` | `MemoryProofs`; `OwnedBuffer` relies on it |
| `SliceSequence` | a double-ended queue | | `SliceDeque` |
| `OwnedBuffer` | all mutating operations of the buffers | `ByteBuffers` | `MCOwnedBuffer`, `OwnedBufferProofs`, `DrainTrackerProofs` |
| `ByteBuffers` | buffers as queues of numbered bytes | | `OwnedBuffer` |
| `BufferSearch` | the three nested loops of `search()` | operators of the module | `MCComponents` |
| `BufferReads` | copies, peeks, prefix tests and integers in buffers | the flat content | `MCComponents` |
| `BufferStorage` | reservations, commits, fragments, extraction and the free list | | `MCComponents`, `MemoryProofs` |
| `Timers` | timers, the loop's clock and durations | | `MCComponents`, `EventLoopProofs` |
| `Addresses`, `AddressText` | addresses and their classes; their texts, ports and URLs | operators of the modules | `MCComponents`; `Addresses` by the next two |
| `ConnectionHandler` | the maps of a worker's connection handler | | `MCComponents` |
| `ListenerManager` | lists of listeners, updates, socket factories | | `MCComponents`, `ServerProofs` |
| `UdpSocket` | datagrams, drops and writes of a UDP socket | what arrived | `MCComponents` |
| `SysCalls` | system call wrappers, probes and socket options | | `MCComponents` |
| `Threads` | registry of main threads, thread creation and join | | `MCComponents`, `CommonProofs` |
| `Locks` | lock guards, `AtomicPtrArray`, singletons under `call_once` | | `MCComponents`, `CommonProofs` |
| `Registrations` | assertion actions and macros, loaders, RAII elements, `Cleanup` | | `MCComponents` |
| `IntervalSet`, `TrieLookupTable` | the containers of `Utility.h` | a set, a table | `MCComponents`, `CommonProofs` |
| `DateFormatter` | formatted dates with their cache | the format itself | `MCComponents` |
| `StringUtil`, `Numbers` | pure functions on strings and numbers | operators of the modules | `MCComponents` |
| `RandomGenerator` | pools of random data, `uuid()` | | `MCComponents`, `CommonProofs` |
| `FoldTheorems` | no code: induction and the equations of `FoldLeft`, for proofs about folds | | `OwnedBufferProofs`, `MemoryProofs` |
| `MCComponents` | instances of `SliceDeque` and the modules above, one per behaviour | | |

The layers meet at the abstract specifications: `Server` uses each dispatcher as
the FIFO of `Mailbox`, which `Dispatcher` is proved to implement, and `OwnedBuffer`
uses a sequence of slices, which `SliceDeque` is proved to implement. `OwnedBuffer` in
turn is proved to implement the queues of bytes of `ByteBuffers`.

**Dispatcher.** `Push` is `post()`/`deleteInDispatcherThread()` up to the unlock,
`CheckEnabled` and `Activate` the two halves of
`scheduleCallbackCurrentIteration()`; any thread can be between them (variables
`checking`, `activating`). `Take`, `Start`, `Return`, `Drained` are
`runPostCallbacks()`, `runThreadLocalDelete()` and the list handling of
`shutdown()`. `BeginClear`, `ResetElement`, `ElementDestroyed` are
`clearDeferredDeleteList()`, which is called by `run()`, by `runPostCallbacks()`, by
its own callback and by user code. `Poll`, `Wake`, `Fire`, `WorkDone`, `LoopReturns`
are libevent's iteration with the flags `flagsBasedOnEventType()` passes. User code
(callbacks, destructors, event handlers) is everything `MayCall(LoopThread)` allows.
The constant `Initialized` says whether `Libevent::Global::initialize()` was called:
without it libevent has no locks, a cross-thread `event_active()` while the loop
runs may be lost, and nothing wakes a blocked loop. The repository never calls it,
so `TRUE` is the documented configuration and `FALSE` the program as it is.

**Server.** `main` and `wpc[w]` are program counters; a dispatcher is its list, the
batch being run and whether its callback is scheduled. A post by another thread is
delivered reliably here, that is, the model is of a server that did initialise
libevent's locks. Worker loops have no registered event, so `run(Block)` returns by
itself once its posts are done, and the worker's thread ends before anybody stops it.

**FileEvent.** One loop iteration is `Poll`, then the raw event, the activation and
other events in the order libevent queues them. A zero-delay timer
(`scheduleCallbackNextIteration`) is `timer` until the next `Poll` moves it to the
work list. The kernel is `ready` and, for edge triggers, `edge`. Each behaviour has
one trigger type, chosen in `Init`: level, edge, or the emulated edge of platforms
without one.

**OwnedBuffer.** A slice is a record of its data (byte numbers), the offset of the
data, the capacity, whether it owns its storage, its trackers and its account. A
method of the class is one action, as buffers are confined to a thread; a
reservation and its commit are one action here; `BufferStorage` has them apart. Sizes are scaled: only the order copy threshold <= page <
default slice matters to the code's decisions. What a method does to one buffer is an
operator on a record (`Buffer(b)`: the buffer's slices, length and account together with
the balances and calls that all buffers share), and a loop over slices is a fold of the
operator for its body, so that each can be proved about by itself.

**BufferSearch.** One step per turn of a loop; `left_to_search` is unsigned and wraps
at `Word`. `FindsFirstMatch` compares the result with a definition over the flat
content.

**BufferStorage.** The variable `reservation[b]` is the `Reservation` object between
`Reserve` and `Commit` or `Discard`; `free_list` is the thread's list. Each place that
can own a block is listed in `Places`, and `MemoryHasOneOwner` says that a block is in
at most one. The two buffers share the list, so one takes what the other gave back. The
loops are folds with an operator for one turn: `Take` (`newStorage()`), `Recycle` (the
destructor of the owner), `Place` (`commit()`).

**Timers.** `Prepare`, `Poll`, `RunTimer`/`Work`, `EndIteration` are the phases of a loop
iteration; time passes in `Poll`, `cached` is the time the loop's callbacks see.

**ListenerManager** keeps for each listener its addresses and socket factories, and
`posts` for each worker. The names and the update of a listener come from the caller.
**ConnectionHandler** has the three maps of the class, and `crashed` where the code
dereferences a null pointer or an empty optional. Tags are an input of `AddListener`, equal
or not, since `listenerTag()` is commented out wherever it would be defined; the history
`added` is what the maps are compared with. Both modules use the comparison and the names
of `Addresses`.

**UdpSocket.** `arrived` is the history of datagrams, `queue` the kernel's; the form of
a read (`gro`, `mmsg`, one by one) is chosen in `Init` from what the platform supports.
A joined read hands the code one buffer and a segment size, and the code cuts it.

**SysCalls.** The kernel leaves any code in `errno`; `Returns` is the common shape of the
wrappers, with one class of calls per way in which they read it, and `Leaves` the part
of it that is the kernel's.

**Locks.** `LockAndLoad`, `Make`, `Unlock`, `Return` are the steps of
`AtomicPtrArray::get()`, so that several threads can be between any two.
**Threads** has the counts under their lock and a life cycle for each thread.
`TryLock` may be called while the guard holds the mutex, and `forgotten` remembers that it
was. **Registrations** numbers objects in the order of their construction; `born`, `dead`
and `cancelled` are what a user knows, the other variables what the code keeps. Objects are
destroyed in any order; `disordered` has the lists whose newest object did not go first.

**Pure functions** are operators with the code's names, next to the definition they are
compared with; the single action of such a module chooses the next input. A text is a
sequence of tokens, and a formatted date a sequence of cells that say where they came
from.

Operators introduced as "Mutant of" or "A slip" are deliberately wrong variants of
the definition that follows them. No specification uses them; they exist to show
that each property notices the mistake (the `mutants` of `PROJECT.json`).

## 3. Runs

| Run | Question | Bounds |
|---|---|---|
| `dispatcher_safety` | lost wakeups, deferred deletion, order, refinement of `Mailbox` | two threads and the loop's, 2 posts, 1 deletable, 3 deferred deletions |
| `dispatcher_liveness` | everything handed over is delivered, `exit()` ends `run()`, also when loops end with work left | another thread and the loop's, 2 posts, 1 deferred deletion, 1 exit |
| `dispatcher_no_locks` | the same in the program as built (finding) | as above, `Initialized = FALSE` |
| `server` | start, notification and stop of the workers, deadlock freedom | 3 workers, 2 listeners |
| `server_num_connections` | `numConnections()` against the end of a worker (finding) | 2 workers, 1 listener |
| `file_event` | merging, masks, edges, delivery | two event types, all three triggers |
| `components` | each of the components below against its definition | see below |
| `owned_buffer_transfer` | content, length and charges when two buffers exchange slices | 2 bytes and 2 copies, 1 account, pages of 2 bytes |
| `owned_buffer_trackers` | content, length and callbacks with reservations | 2 bytes, one tracker or fragment, room for 1 or 3 bytes |
| `owned_buffer_drain_trackers`, `owned_buffer_fragments` | findings | 3 bytes |
| `address_parsing` | a well-formed text gives an address (finding) | seven kinds of token, texts of up to 5 |

*The run `components`* starts with a choice of one component (`part`), and only that one
takes steps: they share no state, so running them in one behaviour would multiply the
states and show nothing more. The bounds are next to each instance in `MCComponents`,
with the case they are for. The larger ones: a deque of 3 slices, inline capacity 2 and
up to 5 slots in use (it wraps and grows twice); `search()` on every division of up to
4 bytes over 2 values into 3 slices, needles up to 3; reads over every division of up to
3 bytes of two bits; 3 datagrams and a drop counter modulo 3; 3 threads for the locks,
the registry and the array; 3 listeners in a connection handler; 4 updates of a listener
with 2 workers; 3 blocks of memory, 2 slices per reservation. It checks:

| Property | Shows |
|---|---|
| `VacantSlotsAreEmpty`, `SequenceSpec` | the ring is a sequence and holds nothing else |
| `MemoryIsOwnedOnce` | each block has one owner, a reservation has its room |
| `BufferReadsAreExact`, `Progresses` | reads and `search()` see the flat content; no unsigned wrap-around; every turn of the search's loops gets further, so it ends |
| `TimersRunWhenDue` | no timer runs early or while disabled |
| `AddressesAreExact` | names, classes, texts and ports mean what they say, for objects whose constructor kept what it was given (section 6 has those that did not) |
| `DatagramsAreAccountedFor` | whole, in order, once; drops reported once, across the wrap |
| `ErrorsAreTheirOwn` | an error code belongs to the call |
| `AddressesLeadToTheirListener` | the maps of a connection handler are those of the listeners added, whatever the order and the tags; it crashes for a dual-stack address other than `::` and an unknown tag, and for nothing else |
| `ListenersAreReplacedSafely` | updates destroy no listener a worker knows (`ListenersOutlivePosts`); sockets go to a listener with the same addresses (`AddressListsAreCompared`) |
| `ThreadsAreKeptApart` | main thread checks with nesting and reused ids (`ThreadChecksAreExact`); locks are unlocked once by their holder, unless a second `tryLock()` made it forget (`GuardsOwnTheirLock`); lazily made objects are made once (`ObjectsAreMadeOnce`) |
| `RegistrationsNest` | scoped registrations: lists and maps in any order, chains as long as the newest goes first (which debug builds enforce for actions); back-off of `ENVOY_BUG` |
| `ContainersAreExact`, `CachedTimesAreFresh`, `RandomDataIsUsedOnce`, `FunctionsAgree` | containers, caches, pools and pure functions |

The types of `Dispatcher`, `SliceDeque`, `Server`, `FileEvent` and `OwnedBuffer` are proved
(section 4), so that no run repeats them.

*Why the bounds are enough.* A lost wakeup needs two items, one that is being
consumed when the other arrives, and two submitters; the threads behave alike, so
they are a symmetry set where no liveness is checked. Re-entrancy needs a vector of two that is gone through while a third object is
deferred or the list is cleared. Deletables follow the posts' pattern (`Push` and
`Take` are the same action for both), so one item takes every path and the proofs
cover any number. Three workers let the first, a middle and the last completion
differ. Two event types give a reported and an unreported one at the same time;
`Closed` is kept because it can neither be exhausted nor be unregistered by the
emulated edge. With pages of two bytes and a copy threshold of two, one byte is
coalesced and two are not, and a slice is left half full. Each property has a mutant
of the modelled code that makes it fail under the same bounds.

*Deadlock* is checked everywhere except in the dispatcher runs, in `components` and in
`address_parsing`: a dispatcher may be destroyed or wait for ever for an event, and the
components end (a search returns, an assertion aborts) or meet a bound.

*Fairness.* Dispatcher: weak fairness of each thread inside
`scheduleCallbackCurrentIteration()` and of the steps of the loop's thread, because
a thread that has entered the dispatcher is run by the operating system, user code
returns, and the kernel reports the notification that libevent's
`evthread_use_pthreads()` sets up (`Wake(FALSE)`). That a registered event becomes
ready (`Wake(TRUE)`), and everything callers may do, is not assumed. Server: weak
fairness of each thread; calls of `stopWorkers()`, `numConnections()` and the timer
are not assumed. FileEvent: weak fairness of polling and of returning callbacks, and
strong fairness of the raw event, the activation and the end of the iteration:
libevent's work list is processed first in, first out and is finite, so other
events cannot keep these from being reached, although each of them disables them
while its callback runs.
`components` assumes no fairness.

## 4. Proofs

Checked by TLAPS for every value of the constants that satisfies the named
assumptions. For `Dispatcher`, `SliceDeque`, `Server`, `FileEvent` and `OwnedBuffer` these are the
`ASSUME`s of the module, which only give the types of the constants (the inline capacity
is not zero, the loop's thread is not one of the others, buffers are finitely many, a
default slice is a whole number of pages, and so on). `Timers`, `Locks`, `Threads`,
`RandomGenerator`, `TrieLookupTable` and `BufferStorage` are instantiated and not extended by their run, so they name the assumption in a
definition, which is a hypothesis of the theorem; `ComponentsAssumption` of `MCComponents`
has TLC confirm that the instances satisfy it:

- `TimeUnits`: durations are natural numbers, a second has a positive number of
  milliseconds and a multiple of that in microseconds, scale factors have a positive
  denominator, timers are finitely many. (The code does not reject negative durations.)
- `ThreadIds`, `Slots`: the values for "no thread" are no threads; an `AtomicPtrArray` has
  finitely many slots and at least one.
- `CountersFit`: fewer `SkipAsserts` objects are alive at once than a `uint32_t` can
  count. Without it the theorem is false: 2^32 nested objects make the counter 0.
- `PoolSizes`: a pool holds at least one word, or the 16 bytes of a uuid (256 words and 2048
  bytes in the code). `ValuesAreNotNull`: a null pointer is not stored in a trie.
- `StorageSizes`: blocks are finitely many and the null pointer is none of them; a slice has
  at least one byte and a reservation room for at least one slice; requests are natural
  numbers.

`ListenerManager` needs no assumption, `IntervalSet` that its largest value is a number. The
theorems about these eight modules state the property of the module itself, which
`components` checks as a part of `ListenersAreReplacedSafely`, `TimersRunWhenDue`,
`ThreadsAreKeptApart`, `ContainersAreExact`, `RandomDataIsUsedOnce` or `MemoryIsOwnedOnce`.

**`DispatcherProofs`**, for any set of threads, any amount of work, with and without
libevent's locks:

- `TypeCorrect`.
- `WakeupIsNeverLost`: `NoLostWakeup` is inductive relative to the types. The
  argument: an item enters an empty list only together with a thread in `checking`;
  a thread leaves `checking` for `activating` or because the callback is armed;
  firing the callback leads to `take_*`, where the list is emptied.
- `DeferredAlwaysScheduled`: `DeferredScheduled` holds through the swaps, because a
  clear that takes the vector leaves the new current one empty, and the early return
  of a re-entrant clear leaves a vector whose first element armed the callback.
- `NothingIsLostOrReordered`: what is delivered, in the batch and in the list are
  consecutive submission numbers (`QueueShape`, `DeferredShape`).
- `ImplementsMailbox`: refinement, from the previous results. They are needed because a step of
  `Mailbox` may deliver only the next number, which follows from the shape of batch
  and vectors and not from the actions alone.

The inductive invariant is `IndInv`, the conjunction of `TypeOK`, `NoLostWakeup`,
`DeferredScheduled` and `NothingLostOrReordered`; `dispatcher_safety` checks the last
three.

**`MemoryProofs`** proves of `SliceDeque`, for every inline capacity, every set of slices and any size:
`TypeCorrect`, `PoppedSlotsAreEmpty` (a slot holds a slice exactly while it is in
use) and `ImplementsSequence`. The invariant is `RingOK`: types, and exactly the
slots reached by `InternalIndex` are occupied. It rests on lemmas about
`InternalIndex` (injective, onto, shift by one in both directions) and on one lemma
per operation on the ring.

Of `BufferStorage`, for any buffers, blocks of memory, sizes and requests, it proves
`BlocksHaveOneOwner` (`MemoryHasOneOwner`) and `ReservationsStayInLimits`
(`ReservationsFit`). The invariant `StorageInv` has three parts:

- the types, with one entry of the owner for every raw slice of a reservation;
- `OwnedApart`, which is `MemoryHasOneOwner` written out place by place (lemma
  `OneOwnerIs`): free list, slices, reservations, extracted slices and callers' blocks are
  apart, except that a fragment's slice holds its caller's block, and nothing is twice in one place;
- `OwnersAgree`: a slice owns its memory exactly if that is no caller's block. Without it,
  a drained or extracted slice could give a caller's block away, or a block could leave its
  caller while a second slice still had it.

Each loop has a lemma by induction over its turns: `TakenAll` (`newStorage()` yields
distinct blocks, off the free list or held by nobody), `RecycledAll` (the destructor adds
what it owned, once, and stops at the limit), `PlacedAll` (`commit()` moves each storage into
a slice or leaves it to the destructor, never both). An action is then a `Becomes` of
one buffer whose blocks `MovedApart` keeps apart. The limits of a reservation follow from
`LoopEnds`: the loop of `reserveWithMaxLength()` stops at the first number of blocks for
which its condition fails, and it held for one block less; `AllFit` is inductive because no
action changes the slices of a buffer that has a reservation open, which the module
assumes of the callers.

**`ServerProofs`**, for any number of workers and of listeners: `TypeCorrect` (neither
counter goes below zero), `PendingIsCounted`, `CounterIsNotDangling`, `StartupComesLast`
and `HandlerIsNotDangling`. None of the properties is inductive alone. `IndInv` adds

- `MainPhases`, `WorkerPhases`: what each program counter says about the post lists and
  batches. "started" is the last callback of a worker's list, because the worker's
  thread posts it first thing, when the main thread has already posted the listeners;
- `AddsAreExact`: on each worker, listeners added and listeners still to be added are
  `NumListeners` together;
- `CounterIsExact`: the counter of `startWorkers()` is the number of workers that have
  not run "started", so that it is zero when `Wait()` returns and no worker can touch it
  afterwards;
- `StartupIsLast`: no completion stands behind the Startup notification in the main
  thread's list or batch.

`PendingIsExact` is about sums over the workers. They are written as cardinalities of
sets of pairs, and the lemmas of the module say how such a set changes when one worker's
part does, and that taking the head off a list takes one occurrence away.

The same module proves `PostedListenersStay` of `ListenerManager`, for any names, workers
and number of updates. The property says nothing of where the listeners are that the
workers know, so it does not show that an update destroys none of them. The invariant adds that
ids are distinct in and between the two lists (`ListsAreDistinct`), that what is
listed is not destroyed (`ListedIsAlive`), and that workers know active listeners only,
and none before they are started (`KnownIsActive`). An update in place therefore destroys a
warming listener, or an active one that no worker knows.

**`EventLoopProofs`** proves of `FileEvent`, for every set of event types and every set of platforms:
`TypeCorrect`, `ActivationIsArmed`, `EdgesAreKept` and the action property
`OnlyRelevantIsReported`. `IndInv` adds that nothing is left on the work list between two
iterations, that what waits to be reported is part of the mask, that what is injected was
activated since the last `setEnabled()`, and that a destroyed event has no mask.

Of `Timers`, for any timers, durations, units and clipping limit, it proves
`TimersAreNeverEarly`. Lemmas about `durationToTimeval()` show that the converted time is
not before the one asked for unless it is clipped. The invariant says that an enabled timer
either has a deadline not before the time asked for, or is in the list of expired timers
and its time has come; and that this list has no duplicates and is empty outside the
phase that runs callbacks.

**`CommonProofs`** proves of `Locks`, for any number of threads and slots,
`GuardsHoldTheirLock`: the mutex is held exactly by the thread whose guard is to unlock it
or has forgotten to, and the only way to forget is a second `tryLock()`. With the types it
is inductive. `ObjectsAreNotMadeTwice` needs `LockProtects`: `mutex_` is held exactly
between the second load and the end of the block, and what that load saw stays true until
the object is made; and `CreatedOnce` for `call_once()`.

Of `Threads`, for any number of threads and any nesting, it proves `ThreadChecksHold`. The
invariant says that the map holds exactly the threads with `MainThread` objects and their
number, that only running threads have objects, and that `skip_asserts_` is the number
of `SkipAsserts` objects of all threads together (`SkipsAreCounted`, a cardinality of
pairs), which `CountersFit` keeps below the limit.

Of the containers and pools it proves three more results:

- `IntervalsStayMerged` (`IntervalsAreMerged` of `IntervalSet`). `insert()` looks only at the
  first interval that does not end before the new one and the last that does not begin
  behind it. `MergedIs` shows that what is erased is exactly what overlaps or touches the new
  interval and that the combined one is apart from all others, so that `std::set::insert()`
  finds no equivalent element and does insert; this holds because the intervals were
  separate before.
- `RandomDataIsFresh` (`DataIsFresh` of `RandomGenerator`). The invariant `Pool` says that what
  is left of a pool ascends and is above everything handed out from it, and that nothing is
  above what RAND_bytes() has produced, so that a refill begins behind it.
- `LookupsReturnWhatWasStored` (`LookupsAgree` of `TrieLookupTable`). The nodes are closed
  under prefixes, so that the first missing branch bounds the stored prefixes of a key.

`toVector()` and `removeCharacters()`, which go through the intervals with a recursive
function, and the fixed text of a uuid stay with TLC.

**`OwnedBufferProofs`**, for any number of buffers, accounts, trackers and fragments, and
for all sizes of pages, slices and thresholds:

- `TypeCorrect`: among other things, the sections of every slice fit into its storage, no
  length or balance goes below zero, and the free list does not exceed its limit.
- `LengthsAreExact` (`LengthIsSumOfSlices`), `ChargesAreExact` (`AccountsBalance`),
  `NoTrackerIsLost` (`TrackersRunOnce`).
- `ContentsAreQueues`: the refinement `ContentSpec`.

The inductive invariant is `Inv`: `Memory` (the types of the slices; `length_` is the
length of the content; every balance is the sum, over all buffers, of what their slices
charge), `Calls` (each tracker is attached once or has run once) and `Others` (types). The
properties are inductive only together: that a drain does not make `length_` negative
needs that it is exact, and a balance is not negative because it is a sum of capacities.
The argument has three layers.

- *Sums.* Sizes, charges and attached trackers are weights of slices, and `Weigh` adds
  them up along a sequence. Lemmas say what it gives for an appended slice, a
  concatenation and a part of a sequence, and that the content `Flat` is compatible with
  the same operations; `Overall`, the sum over all buffers, is a cardinality of pairs, and
  the lemmas say how it changes with one buffer or with two.
- *Methods.* `TakesOver(c, d, ss)` says that a method that turned the buffer `c` into `d`
  accounts for the slices `ss` it was handed: what `d` is charged beyond its slices
  (`Debt`) and how often each tracker is called or attached (`Marks`) have changed by
  exactly the weight of `ss`. It composes, so that one lemma per method and one
  induction per loop are enough. Next to it each method has a lemma about its content:
  a drain removes a prefix, however many slices it frees and wherever it cuts the next
  one; linearising changes nothing; a commit appends what was written, over however many
  slices.
- *Steps.* Each action preserves `Inv` and is a `Step`: bytes enter at one end, some
  leave, they move from one buffer to another, or are copied. The actions of `ByteBuffers`
  follow from that.

**`FoldTheorems`** is what makes the loops provable. The library's induction theorems are
about predicates, which the provers cannot instantiate. `SetInduction` and
`SequenceInduction` say the same about sets and follow from the well-foundedness of the
numbers. `FoldOfNone` and `FoldOfAppend` are the recursion equations of `FoldLeft`,
derived from its definition for an operator `Op`, a constant of the module; a proof
about a fold takes an instance.

**`DrainTrackerProofs`**, under the same assumptions: `TrackersRunLate`
(`TrackersRunAfterLastByte`). The property says nothing about where a tracker is that has
not run. `TrackerInv` adds to `Inv` that the slice with the byte behind which a tracker was
added has that tracker (`Together`), unless the byte was copied or taken from its slice;
that a byte that was not copied is in one place only (`Unique`), since a tracker is
attached to one slice and a second occurrence of its byte would be without it; and that a tracked byte has
entered (`Known`), so that a new byte is not one of them. Every action makes the slices
after it follow those before it (`Follows`): a byte that is not new comes from a slice all
of whose trackers are in the slice it is in now. A tracker that has run is attached
nowhere (`Calls`), and so its byte is gone.

The inductive invariants also hold in TLC on small instances (3 workers with 2 listeners,
3 event types, 3 threads with 2 slots, 2 buffers with 3 blocks, 2 timers, 5 updates of 2 names, the instances of the
four runs of `OwnedBuffer`), up to conjuncts
that only give types.

*Only model-checked.* All liveness (fairness is outside the prover's reach):
`HandedIsDelivered`, `ExitReturns`, `StartupIsNotified`, `StopReturns`,
`ActivatedIsReported`. The modules not named above. What the sums and folds of
`BufferReads`, `ConnectionHandler`, `StringUtil`, `Numbers`,
`DateFormatter` and of `hasCompatibleAddress()` (`AddressListsAreCompared`), the recursive
functions of `IntervalSet` (`toVector()`) and `UdpSocket`, and the loops of `BufferSearch` compute for every
input would need an induction of its own for each, as `FoldTheorems` makes possible and
`OwnedBufferProofs` and `MemoryProofs` have it; for these pure functions TLC goes through all small inputs instead;
`Registrations` uses bitwise operations. `SysCalls` and the functions of `Addresses` range
over small fixed sets that TLC goes through entirely.

## 5. Not modelled

More than half of the lines of the repository are comments and code that is commented
out; neither is modelled. Of what is compiled:

- libevent and the kernel, beyond what the code uses of them (external in the map).
- Interfaces without an implementation here: `Filter.h`, `Listener.h`, `Connection.h`,
  `Runtime.h`, `ThreadLocal.h`, `Platform.h`, the socket classes of `Socket.h`, and the
  declarations of every other header.
- Dispatcher: the tracked-object stack and watermark factories, which keep no state that
  another operation reads; the manager of scaled timers is a null pointer; the watchers
  for loop statistics are never registered.
- Signals: one libevent registration; nobody in the repository listens for one.
- `Api`, time sources: they hand out references and read clocks.
- The condition variable: a wrapper around one of absl, without a user.
- MurmurHash: 64-bit products, beyond TLC's integers. In-memory streams, error texts.
- The move constructor and assignment of `SliceDeque`: nobody calls them.
- Filter chains and the initialisation of a listener, its update constructor, removal,
  draining and promotion of listeners; stopping, enabling and closing in the connection
  handler: commented out, or functions without statements.
- Test helpers and examples.

## 6. Disagreements between code and documentation

Shown by a run:

- **Locks of libevent** (`dispatcher_no_locks`). `Libevent::Global::initialize()` is
  never called and the assertion that would notice is commented out
  (`LibeventScheduler.cpp:26`). A functor posted by another thread to a blocked loop
  waits for ever, against `Dispatcher.h:45`.
- **`numConnections()`** (`server_num_connections`). The main thread uses `handler_`
  between the worker's last step and its reset; `Worker.h:15` calls all routines
  thread safe.
- **Drain trackers** (`owned_buffer_drain_trackers`). `linearize()`, and a `move()` of
  a part of a slice, separate bytes from their tracker, which then runs while they
  are still buffered, against `Buffer.h:145`.
- **Fragments** (`owned_buffer_fragments`). `Slice::prepend()` writes into the drained
  part of a fragment, an "immutable Slice" (`BufferImpl.h:87`).

- **Parsing addresses** (`address_parsing`). `validateProtocolSupported()` always returns
  an error (`AddressImpl.cpp:219`), so that no text gives an address;
  `Utility.h:187` says that only a malformed one does not.

Noticed while reading, without a run of their own:

- `run(Block)` returns when nothing is registered; `Dispatcher.h:259` says it "will
  not return until exit() is called". Workers depend on it: they end by themselves.
- Deletables handed over after the loop ended and outside `shutdown()` are destroyed
  by the dispatcher's owner; `Dispatcher.h:253` promises the dispatcher's thread.
- `registerCallback()` drops its callback (`Server.cpp:50-65`).
- `startWorkers()` without listeners never calls its callback: that branch is
  commented out (`ListenerManagerImpl.cpp:873`).
- A second `stop()` would join a thread twice (`WorkerImpl.cpp:93`).
- `sayHello()` replaces `loop_timer_` from inside that timer's own callback.
- `prepend(Instance&)` keeps empty slices, which accumulate until they are drained;
  `MaxQueue` bounds them.

Noticed in the components of `MCComponents`:

- *Containers and functions.* `findLongestPrefix()` returns the empty value of an inner
  node when the key ends there (`Utility.h:700`, against lines 679-683). `isPrime(1)` is
  true, and `findPrimeLargerThan()` of 0 and 1 is 1 and 3. The result of `RAND_bytes` is
  ignored, so that a failure hands out the old content. `throwOnError` does nothing, and
  the `OrDie` variants then dereference an error.
- *Addresses.* All pipes with a path have an empty name (the copy of the path is commented
  out, `AddressImpl.cpp:383`), so any two are equal, where `Address.h:183` says "/foo".
  A port above 65535 given to an `Ipv4Instance` is in its name and not in its port. Copies lose the scope of an IPv6
  address. Text that is no address gives 0.0.0.0. `getifaddrs()` lists no interface, for
  the reason that `address_parsing` shows, so `getLocalAddress()` is always the loopback
  address, against `Utility.h:193-195`; `sockInterfaceOrDefault()` is null. Port ranges such as `-0-80` are
  accepted.
- *Connection handler.* A dual-stack listener whose address is not `::` dereferences the
  missing compatible address, where `ConnectionHanlderImpl.cpp:116` says that such an
  address "is rejected early"; an unknown override tag dereferences an empty optional.
  `listener_tag_` is never set, and a listener whose tag is taken is in no list by tag.
- *Listener manager.* `addresses_` of a listener is never filled, so
  `listenSocketFactories()[0]` (`ConnectionHanlderImpl.cpp:62`) reads an empty vector;
  warming listeners are never promoted; `added_via_api` and `blockUpdate` are ignored; the
  error for a duplicate address is dropped; `removeListener()` has no return statement.
- *Locks.* `TryLockGuard::tryLock()` a second time makes the guard forget that it holds
  the lock (`forgotten`), so that its destruction does not unlock, against
  `LockGuard.h:69`.
- *Registrations.* Actions destroyed in another order than the reverse of their
  construction corrupt the chain in builds without `ASSERT` (`Assert.cpp:21`, 78), and
  loaders do in all builds.
- *Timers.* Negative durations are not rejected, although `TimerImpl.h:28` says so;
  `createScheduler()` returns null.
- *Buffers.* The underflow check of `peekInt()` does nothing. A moved-from `SliceDeque`
  keeps its size and ring. `free_list_ref_` is that of the thread that constructed the
  reservation. `Reservation::length_` is not initialised when `max_length` is 0.
- *System calls.* `recvmmsg` and `getaddrinfo` return `errno` on success too.

## 7. Plan

Done: the dispatcher and the slice ring with their abstract specifications and proofs;
file events and the threads of the server with proofs; the buffers with their abstract
specification and proofs; the components of section 2 that `MCComponents` composes, with proofs for
listeners, timers, locks, threads, interval sets, lookup tables, random pools and the
memory of buffers. Next:

1. `ListenerManager` composed with `Server`, so that updates meet the posts and the end
   of real workers; repeated stops, and `startWorkers()` without a listener.
