----------------------------- MODULE SliceSequence -----------------------------
(***************************************************************************)
(* What SliceDeque promises to OwnedImpl: a double-ended queue of slices.  *)
(* It is a plain sequence; nothing is said about capacity or positions.    *)
(* A pop of the empty queue does nothing, as the code's early return does. *)
(***************************************************************************)
EXTENDS Naturals, Sequences

CONSTANT Slices    \* the slices that can be queued

VARIABLES
  queue,           \* the slices, front first
  destroyed        \* the slice whose drain trackers the last step ran, or {}

vars == <<queue, destroyed>>

Init == queue = <<>> /\ destroyed = {}

PushBack == \E s \in Slices : queue' = Append(queue, s) /\ destroyed' = {}

PushFront == \E s \in Slices : queue' = <<s>> \o queue /\ destroyed' = {}

PopFront ==
  /\ queue # <<>>
  /\ queue' = Tail(queue)
  /\ destroyed' = {Head(queue)}

PopBack ==
  /\ queue # <<>>
  /\ queue' = SubSeq(queue, 1, Len(queue) - 1)
  /\ destroyed' = {queue[Len(queue)]}

Next == PushBack \/ PushFront \/ PopFront \/ PopBack

Spec == Init /\ [][Next]_vars
================================================================================
