---------------------------- MODULE MCOwnedBuffer ----------------------------
(* Model checking of module OwnedBuffer: the buffers are interchangeable. *)
EXTENDS OwnedBuffer, TLC

Sym == Permutations(Buffers)
==============================================================================
