---------------------------- MODULE MCSourcePool ----------------------------
(* SourcePool in a small process with one thread more than the pool has slots,
   so that a returned connection can be one too many. *)
EXTENDS SourcePool

MCMaxPooled == Cardinality(Threads) - 1
=============================================================================
