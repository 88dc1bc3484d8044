------------------------------ MODULE Lifecycle ------------------------------
(***************************************************************************)
(* The lifecycle of one booking: the transition table of                   *)
(* app/models/enums.py and what app/services/booking.py writes to the row  *)
(* when it moves a booking along it.  Constant-level: no variables here.   *)
(*                                                                         *)
(* A timestamp column is abstracted to whether it is set; the reference,   *)
(* address, schedule, prices and notes of a booking never change after     *)
(* creation and are left out.                                              *)
(***************************************************************************)
EXTENDS Marketplace

BookingStatus == {"pending", "assigned", "accepted", "en_route",
                  "in_progress", "completed", "closed", "cancelled"}

\* For every transition, the statuses it may start from and where it lands.
BOOKING_TRANSITIONS ==
  [assign       |-> [from |-> {"pending"}, to |-> "assigned"],
   claim        |-> [from |-> {"pending"}, to |-> "accepted"],
   accept       |-> [from |-> {"assigned"}, to |-> "accepted"],
   reject       |-> [from |-> {"assigned"}, to |-> "pending"],
   start_travel |-> [from |-> {"accepted"}, to |-> "en_route"],
   start_work   |-> [from |-> {"accepted", "en_route"}, to |-> "in_progress"],
   complete     |-> [from |-> {"in_progress"}, to |-> "completed"],
   close        |-> [from |-> {"completed"}, to |-> "closed"],
   cancel       |-> [from |-> {"pending", "assigned", "accepted", "en_route"},
                     to |-> "cancelled"]]

Allowed(action, status) == status \in BOOKING_TRANSITIONS[action].from

REVIEWABLE_STATUSES == {"completed", "closed"}

-----------------------------------------------------------------------------
(***************************************************************************)
(* A row of the bookings table.  "absent" stands for: no such row yet.     *)
(***************************************************************************)
Row == [status       : BookingStatus \cup {"absent"},
        worker_id    : WorkerIds \cup {None},
        assigned_at  : BOOLEAN,
        accepted_at  : BOOLEAN,
        started_at   : BOOLEAN,
        completed_at : BOOLEAN,
        closed_at    : BOOLEAN,
        cancelled_at : BOOLEAN]

AbsentRow == [status |-> "absent", worker_id |-> None,
              assigned_at |-> FALSE, accepted_at |-> FALSE,
              started_at |-> FALSE, completed_at |-> FALSE,
              closed_at |-> FALSE, cancelled_at |-> FALSE]

\* Mutant: the column's default is a status the enum does not have.
NewRow_Draft == [AbsentRow EXCEPT !.status = "draft"]

NewRow == [AbsentRow EXCEPT !.status = "pending"]

\* Mutant: a rejected offer leaves its worker on the booking.
WorkerAfter_Kept(row, action) == row.worker_id

\* A rejected offer goes back into the pool: nobody is on the booking any more.
WorkerAfter(row, action) == IF action = "reject" THEN None ELSE row.worker_id

\* Mutant: ... and leaves the time it was assigned at.
AssignedAfter_Kept(row, action) == row.assigned_at \/ action \in {"assign", "claim"}

AssignedAfter(row, action) ==
  /\ row.assigned_at \/ action \in {"assign", "claim"}
  /\ action # "reject"

(***************************************************************************)
(* The columns transition() assigns, applied to a row.  Each assigned      *)
(* column gets a value that does not depend on the row, so the same        *)
(* operator is the UPDATE a transaction sends: it touches those columns of *)
(* whatever the row is by then and leaves the others as they are.          *)
(***************************************************************************)
Transition(row, action) ==
  [status       |-> BOOKING_TRANSITIONS[action].to,
   worker_id    |-> WorkerAfter(row, action),
   assigned_at  |-> AssignedAfter(row, action),
   accepted_at  |-> row.accepted_at \/ action \in {"claim", "accept"},
   started_at   |-> row.started_at \/ action = "start_work",
   completed_at |-> row.completed_at \/ action = "complete",
   closed_at    |-> row.closed_at \/ action = "close",
   cancelled_at |-> row.cancelled_at \/ action = "cancel"]

\* assign_worker and claim_booking put the worker on the row, then move it.
Attach(row, w, action) == [Transition(row, action) EXCEPT !.worker_id = w]

\* complete_booking: one transition, or two when the job is settled.
Finish(row, settled) ==
  IF settled THEN Transition(Transition(row, "complete"), "close")
             ELSE Transition(row, "complete")
=============================================================================
