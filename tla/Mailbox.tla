------------------------------- MODULE Mailbox -------------------------------
(***************************************************************************)
(* What Event::Dispatcher promises to the code that hands work over to it: *)
(* items of each kind are numbered in the order in which they were handed  *)
(* over, and they are consumed in exactly that order, each of them once.   *)
(* An item may stay unconsumed for ever only because the dispatcher stops: *)
(* the specification says nothing about when (module Dispatcher does).     *)
(***************************************************************************)
EXTENDS Naturals

CONSTANTS
  Kind,     \* the kinds of work: one independent mailbox each
  Limit     \* [Kind -> Nat], how many items of each kind are ever handed over

VARIABLES
  handed,     \* handed[k]: the number of items of kind k handed over so far
  delivered,  \* delivered[k]: the number of the last item of kind k consumed
  open        \* FALSE once the dispatcher is destroyed

vars == <<handed, delivered, open>>

Init ==
  /\ handed = [k \in Kind |-> 0]
  /\ delivered = [k \in Kind |-> 0]
  /\ open = TRUE

Submit(k) ==
  /\ open
  /\ handed[k] < Limit[k]
  /\ handed' = [handed EXCEPT ![k] = @ + 1]
  /\ UNCHANGED <<delivered, open>>

\* The item consumed is the oldest one that is still there.
Deliver(k) ==
  /\ open
  /\ delivered[k] < handed[k]
  /\ delivered' = [delivered EXCEPT ![k] = @ + 1]
  /\ UNCHANGED <<handed, open>>

Close ==
  /\ open
  /\ open' = FALSE
  /\ UNCHANGED <<handed, delivered>>

Next ==
  \/ \E k \in Kind : Submit(k) \/ Deliver(k)
  \/ Close

Spec == Init /\ [][Next]_vars
==============================================================================
