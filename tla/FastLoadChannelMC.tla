-------------------------- MODULE FastLoadChannelMC --------------------------
(* FastLoadChannel on a small instance.  The batches are interchangeable.   *)
EXTENDS FastLoadChannel, TLC

Symmetry == Permutations(Buffers)
=============================================================================
