---------------------------- MODULE MCCachedReads ----------------------------
(* CachedReads with the TTLs in the order of the code's, and requests that take
   less than the shortest of them. *)
EXTENDS CachedReads, TLC

Symmetry == Permutations(Threads)
=============================================================================
