---------------------------- MODULE MCWorkerTrades ----------------------------
(***************************************************************************)
(* One worker, two trades, three requests, two calls at a time.            *)
(***************************************************************************)
EXTENDS WorkerTrades, TLC

Symmetry == Permutations(WorkerIds) \cup Permutations(ServiceIds) \cup Permutations(Calls)
=============================================================================
