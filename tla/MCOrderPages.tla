----------------------------- MODULE MCOrderPages -----------------------------
(***************************************************************************)
(* Two bookings: an order is watched from the beginning, the list while    *)
(* the work is being done.                                                 *)
(***************************************************************************)
EXTENDS OrderPages, TLC

StartOfVisit == [orders |-> {"in_progress"}, order |-> {"pending"}]
=============================================================================
