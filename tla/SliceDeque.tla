------------------------------ MODULE SliceDeque ------------------------------
(***************************************************************************)
(* The ring of slices under Buffer::OwnedImpl (BufferImpl.h): a circular   *)
(* array that starts inside the object (inline_ring_) and is replaced by   *)
(* one of twice the size when it is full.  A slot that holds no slice      *)
(* holds a default-constructed Slice(), written NoSlice: assigning to a    *)
(* slot destroys what it held, which runs the drain trackers of that slice *)
(* and credits its memory account (Slice::operator=), so a slot that keeps *)
(* a slice after a pop would delay both, and one that is overwritten while *)
(* in use would run them too early.                                        *)
(***************************************************************************)
EXTENDS Naturals, Sequences

CONSTANTS
  Slices,               \* the slices that can be queued
  NoSlice,              \* a default-constructed Slice
  InlineRingCapacity,   \* 8 in the code
  MaxSize               \* bound: how many slices the deque ever holds

ASSUME DequeAssumption ==
  /\ NoSlice \notin Slices
  /\ InlineRingCapacity \in Nat \ {0}
  /\ MaxSize \in Nat

VARIABLES
  ring,        \* ring_: the slots 0 .. capacity - 1
  start,       \* start_
  size,        \* size_
  capacity,    \* capacity_
  destroyed    \* the slices whose destruction the last step caused

vars == <<ring, start, size, capacity, destroyed>>

Init ==
  /\ ring = [i \in 0..(InlineRingCapacity - 1) |-> NoSlice]
  /\ start = 0
  /\ size = 0
  /\ capacity = InlineRingCapacity
  /\ destroyed = {}

\* The slot of the i-th slice (from 0) of a ring of cap slots that starts at from.
InternalIndex(from, cap, i) == IF from + i >= cap THEN (from + i) - cap ELSE from + i

\* The ring after growRing(): a full ring is copied, in order, to the start
\* of a new one of twice the capacity; the slots it leaves are moved-from.
Full == size >= capacity

GrownCapacity == IF Full THEN capacity * 2 ELSE capacity

GrownStart == IF Full THEN 0 ELSE start

\* A slip: the ring copied from its first slot instead of from start_.
GrownRingUnrotated ==
  IF Full
  THEN [i \in 0..(GrownCapacity - 1) |-> IF i < size THEN ring[i] ELSE NoSlice]
  ELSE ring

GrownRing ==
  IF Full
  THEN [i \in 0..(GrownCapacity - 1) |->
          IF i < size THEN ring[InternalIndex(start, capacity, i)] ELSE NoSlice]
  ELSE ring

\* ring_[i] = std::move(slice): what the slot held before is destroyed.
Assign(r, i, slice) ==
  /\ ring' = [r EXCEPT ![i] = slice]
  /\ destroyed' = {r[i]} \ {NoSlice}

EmplaceBack(slice) ==
  /\ size < MaxSize
  /\ Assign(GrownRing, InternalIndex(GrownStart, GrownCapacity, size), slice)
  /\ start' = GrownStart
  /\ capacity' = GrownCapacity
  /\ size' = size + 1

EmplaceFront(slice) ==
  /\ size < MaxSize
  /\ start' = IF GrownStart = 0 THEN GrownCapacity - 1 ELSE GrownStart - 1
  /\ Assign(GrownRing, start', slice)
  /\ capacity' = GrownCapacity
  /\ size' = size + 1

\* A slip: the slot left as it is by the pop.
PopFrontKeepsSlice ==
  /\ size # 0
  /\ size' = size - 1
  /\ start' = IF start + 1 = capacity THEN 0 ELSE start + 1
  /\ destroyed' = {ring[start]}
  /\ UNCHANGED <<ring, capacity>>

\* pop_front() and pop_back() return at once when the deque is empty.
PopFront ==
  /\ size # 0
  /\ Assign(ring, start, NoSlice)
  /\ size' = size - 1
  /\ start' = IF start + 1 = capacity THEN 0 ELSE start + 1
  /\ UNCHANGED capacity

PopBack ==
  /\ size # 0
  /\ Assign(ring, InternalIndex(start, capacity, size - 1), NoSlice)
  /\ size' = size - 1
  /\ UNCHANGED <<start, capacity>>

Next ==
  \/ \E s \in Slices : EmplaceBack(s) \/ EmplaceFront(s)
  \/ PopFront
  \/ PopBack

Spec == Init /\ [][Next]_vars

------------------------------------------------------------------------------

\* Every variable has its type: the ring has exactly capacity slots.
TypeOK ==
  /\ capacity \in Nat \ {0}
  /\ start \in 0..(capacity - 1)
  /\ size \in 0..capacity
  /\ ring \in [0..(capacity - 1) -> Slices \cup {NoSlice}]
  /\ destroyed \in SUBSET Slices

\* The slots that operator[] reaches, for the i-th slice from 1.
Slot(i) == InternalIndex(start, capacity, i - 1)

Used == {Slot(i) : i \in 1..size}

\* A slot holds a slice exactly while it is between front() and back(): no
\* popped slice lingers in the ring with its drain trackers not run and its
\* memory still charged, and no queued slice is a moved-from one.
VacantSlotsAreEmpty ==
  \A j \in 0..(capacity - 1) : ring[j] = NoSlice <=> j \notin Used

\* The sequence of slices that iteration from begin() to end() visits.
View == [i \in 1..size |-> ring[Slot(i)]]

Sequence == INSTANCE SliceSequence WITH queue <- View

\* Across wrap-around and growth of the ring, the deque is a double-ended
\* queue, and a slice is destroyed exactly when it is popped: an assignment
\* to a slot never destroys a slice that is still queued.
SequenceSpec == Sequence!Spec
==============================================================================
