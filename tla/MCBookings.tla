------------------------------ MODULE MCBookings ------------------------------
(***************************************************************************)
(* A small marketplace: two workers, two bookings for two trades, one of   *)
(* them with a commission that is rounded.                                 *)
(***************************************************************************)
EXTENDS Views, TLC

CONSTANTS w1, w2, b1, b2, plumbing, cleaning

TwoTrades == (b1 :> plumbing) @@ (b2 :> cleaning)
TwoOrders == (b1 :> [price |-> 100, rate |-> 185, quantity |-> 1])
          @@ (b2 :> [price |-> 250, rate |-> 150, quantity |-> 2])
WorkerSymmetry == Permutations(WorkerIds)
=============================================================================
