----------------------------- MODULE MCDispatcher -----------------------------
(* Bounds for model checking module Dispatcher. *)
EXTENDS Dispatcher, TLC

\* Two posts, so that one can be handed over while the other is scheduled, taken
\* or run; three deferred deletions, so that a destructor can defer or clear
\* while a vector of two is gone through.  Deletables follow the code pattern of
\* the posts: one takes every path.
EveryKind ==
  [k \in Kind |-> CASE k = "post" -> 2 [] k = "delete" -> 1 [] k = "deferred" -> 3]

\* The liveness of deletables is that of posts.
PostsAndDeferred ==
  [k \in Kind |-> CASE k = "post" -> 2 [] k = "delete" -> 0 [] k = "deferred" -> 1]

\* The threads other than the loop's behave alike.
Sym == Permutations(Threads)
==============================================================================
