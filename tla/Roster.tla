-------------------------------- MODULE Roster --------------------------------
(***************************************************************************)
(* Who may be given work: the columns of worker_profiles and the rows of   *)
(* worker_services that dispatching a booking reads.                       *)
(*                                                                         *)
(* This is what the rest of the marketplace relies on.  WorkerTrades       *)
(* models how onboarding, trade requests and support decisions change it,  *)
(* and is checked to implement this module.                                *)
(***************************************************************************)
EXTENDS Marketplace

VARIABLES verified,      \* verification_status = VERIFIED, for each worker
          is_available,  \* the worker's own on/off switch
          cleared        \* worker_services: pairs <<worker, service>>

rosterVars == <<verified, is_available, cleared>>

RosterTypeOK ==
  /\ verified \in [WorkerIds -> BOOLEAN]
  /\ is_available \in [WorkerIds -> BOOLEAN]
  /\ cleared \subseteq WorkerIds \X ServiceIds

\* A registered worker is unverified, available, and has no trade yet.
RosterInit ==
  /\ verified = [w \in WorkerIds |-> FALSE]
  /\ is_available = [w \in WorkerIds |-> TRUE]
  /\ cleared = {}

IsAssignable(w) == verified[w] /\ is_available[w]

\* An admin's decision about the worker, from whatever status to whatever status.
VerifyWorker(w, v) ==
  /\ verified' = [verified EXCEPT ![w] = v]
  /\ UNCHANGED <<is_available, cleared>>

UpdateAvailability(w, v) ==
  /\ is_available' = [is_available EXCEPT ![w] = v]
  /\ UNCHANGED <<verified, cleared>>

\* Onboarding or an approved request clears the worker for trades.
ClearFor(w, S) ==
  /\ cleared' = cleared \cup ({w} \X S)
  /\ UNCHANGED <<verified, is_available>>

RosterNext ==
  \E w \in WorkerIds :
     \/ \E v \in BOOLEAN : VerifyWorker(w, v)
     \/ \E v \in BOOLEAN : UpdateAvailability(w, v)
     \/ \E S \in SUBSET ServiceIds : ClearFor(w, S)

RosterSpec == RosterInit /\ [][RosterNext]_rosterVars
=============================================================================
