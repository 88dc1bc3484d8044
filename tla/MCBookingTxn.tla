----------------------------- MODULE MCBookingTxn -----------------------------
(***************************************************************************)
(* Small instances of the transactional marketplace: one trade, so that    *)
(* every worker can be cleared for every job, and two requests in flight,  *)
(* which is what a race takes.                                             *)
(***************************************************************************)
EXTENDS BookingTxn, TLC

CONSTANT trade

OneTrade == [b \in BookingIds |-> trade]
AllOperations == OPERATIONS \cup {"roster"}
Symmetry == Permutations(WorkerIds) \cup Permutations(Requests)
=============================================================================
