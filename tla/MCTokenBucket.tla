---------------------------- MODULE MCTokenBucket ----------------------------
(* The bucket with interchangeable threads. *)
EXTENDS TokenBucket, TLC

Symmetry == Permutations(Threads)
=============================================================================
