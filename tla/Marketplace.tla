----------------------------- MODULE Marketplace -----------------------------
(***************************************************************************)
(* The parties: rows that exist before anything modelled here happens and  *)
(* that no modelled operation removes.                                     *)
(***************************************************************************)
CONSTANTS WorkerIds,     \* users with role worker and a worker_profiles row
          ServiceIds,    \* rows of services: the trades
          None           \* SQL NULL

ASSUME NoneAssumption == None \notin WorkerIds \cup ServiceIds
=============================================================================
