------------------------------- MODULE Bookings -------------------------------
(***************************************************************************)
(* The marketplace as its documentation describes it: every operation on a *)
(* booking happens at once.  One action per operation of                   *)
(* app/services/booking.py, with everything its handler changes in the     *)
(* same transaction.                                                       *)
(*                                                                         *)
(* This is the abstract specification.  BookingTxn models how the          *)
(* operations really run, as overlapping READ COMMITTED transactions.      *)
(***************************************************************************)
EXTENDS Lifecycle, Roster, FiniteSets, Naturals

CONSTANTS BookingIds,  \* the bookings customers may make
          ServiceOf    \* the service each of them is for

ASSUME BookingIdsAssumption == BookingIds # {}

ASSUME ServiceOfAssumption == ServiceOf \in [BookingIds -> ServiceIds]

VARIABLES booking,         \* the bookings table
          payment,         \* payments.status of each booking
          review,          \* reviews: the worker rated for a booking, or None
          jobs_completed,  \* worker_profiles.jobs_completed
          rated            \* the bookings whose reviews rating_avg and
                           \* rating_count of a worker were computed from

tableVars == <<booking, payment, review, jobs_completed, rated>>
vars == <<rosterVars, tableVars>>

TypeOK ==
  /\ RosterTypeOK
  /\ booking \in [BookingIds -> Row]
  /\ payment \in [BookingIds -> {"pending", "paid"}]
  /\ review \in [BookingIds -> WorkerIds \cup {None}]
  /\ jobs_completed \in [WorkerIds -> Nat]
  /\ rated \in [WorkerIds -> SUBSET BookingIds]

TablesInit ==
  /\ booking = [b \in BookingIds |-> AbsentRow]
  /\ payment = [b \in BookingIds |-> "pending"]
  /\ review = [b \in BookingIds |-> None]
  /\ jobs_completed = [w \in WorkerIds |-> 0]
  /\ rated = [w \in WorkerIds |-> {}]

Init == RosterInit /\ TablesInit

-----------------------------------------------------------------------------
(***************************************************************************)
(* Guards, on a row.  They are shared with BookingTxn, which evaluates     *)
(* them on whatever copy of the row the code has in hand.                  *)
(***************************************************************************)
\* Mutant: claim_booking forgets that the trade must be cleared.
MayTake_AnyTrade(w, b) == w \in WorkerIds

MayTake(w, b) == <<w, ServiceOf[b]>> \in cleared

Open(row) == row.status = "pending" /\ row.worker_id = None

\* Mutant: any worker can move the job along.
MayMove_Anyone(row, w, action) == Allowed(action, row.status)

MayMove(row, w, action) == row.worker_id = w /\ Allowed(action, row.status)

\* Mutant: a job still in progress can be rated.
Reviewable_InProgress(row) ==
  /\ row.status \in REVIEWABLE_STATUSES \cup {"in_progress"}
  /\ row.worker_id # None

Reviewable(row) == row.status \in REVIEWABLE_STATUSES /\ row.worker_id # None

Reviews(w) == {b \in BookingIds : review[b] = w}

\* Mutant: the money is confirmed whatever the worker answered.
IsSettled_Always(paid, cash) == TRUE

\* is_settled, after cash_collected has been written to the payment.
IsSettled(paid, cash) == paid = "paid" \/ cash

-----------------------------------------------------------------------------
\* POST /bookings: the booking, its cash payment and the first history row.
CreateBooking(b) ==
  /\ booking[b] = AbsentRow
  /\ booking' = [booking EXCEPT ![b] = NewRow]
  /\ UNCHANGED <<rosterVars, payment, review, jobs_completed, rated>>

\* An admin dispatches a worker.
AssignWorker(b, w) ==
  /\ IsAssignable(w) /\ MayTake(w, b)
  /\ Allowed("assign", booking[b].status)
  /\ booking' = [booking EXCEPT ![b] = Attach(@, w, "assign")]
  /\ UNCHANGED <<rosterVars, payment, review, jobs_completed, rated>>

\* A worker takes an open job.
ClaimBooking(b, w) ==
  /\ IsAssignable(w) /\ MayTake(w, b)
  /\ Open(booking[b])
  /\ booking' = [booking EXCEPT ![b] = Attach(@, w, "claim")]
  /\ UNCHANGED <<rosterVars, payment, review, jobs_completed, rated>>

WORKER_MOVES == {"accept", "reject", "start_travel", "start_work"}

\* The worker on the job moves it along: _act and reject_job.
Act(b, w, action) ==
  /\ MayMove(booking[b], w, action)
  /\ booking' = [booking EXCEPT ![b] = Transition(@, action)]
  /\ UNCHANGED <<rosterVars, payment, review, jobs_completed, rated>>

\* The worker finishes the job and says whether the cash was taken.
CompleteBooking(b, w, cash) ==
  /\ MayMove(booking[b], w, "complete")
  /\ booking' = [booking EXCEPT ![b] = Finish(@, IsSettled(payment[b], cash))]
  /\ payment' = [payment EXCEPT ![b] = IF cash THEN "paid" ELSE @]
  /\ jobs_completed' = [jobs_completed EXCEPT ![w] = @ + 1]
  /\ UNCHANGED <<rosterVars, review, rated>>

\* The customer, or an admin on the customer's behalf.
Cancel(b) ==
  /\ Allowed("cancel", booking[b].status)
  /\ booking' = [booking EXCEPT ![b] = Transition(@, "cancel")]
  /\ UNCHANGED <<rosterVars, payment, review, jobs_completed, rated>>

\* Mutant: the aggregate is computed before the new review is flushed.
Recomputed_BeforeFlush(b, w) == Reviews(w)

\* The reviews a recomputed aggregate covers: those in the table and the new one.
Recomputed(b, w) == Reviews(w) \cup {b}

\* The customer rates a finished job; rating unpaid work closes it.
SubmitReview(b) ==
  /\ Reviewable(booking[b]) /\ review[b] = None
  /\ LET w == booking[b].worker_id IN
       /\ review' = [review EXCEPT ![b] = w]
       /\ rated' = [rated EXCEPT ![w] = Recomputed(b, w)]
  /\ booking' = [booking EXCEPT ![b] = IF @.status = "completed"
                                         THEN Transition(@, "close") ELSE @]
  /\ UNCHANGED <<rosterVars, payment, jobs_completed>>

Next ==
  \/ RosterNext /\ UNCHANGED tableVars
  \/ \E b \in BookingIds :
       \/ CreateBooking(b)
       \/ Cancel(b)
       \/ SubmitReview(b)
       \/ \E w \in WorkerIds :
            \/ AssignWorker(b, w)
            \/ ClaimBooking(b, w)
            \/ \E action \in WORKER_MOVES : Act(b, w, action)
            \/ \E cash \in BOOLEAN : CompleteBooking(b, w, cash)

Spec == Init /\ [][Next]_vars

-----------------------------------------------------------------------------
(***************************************************************************)
(* A booking's timeline is coherent: the worker column and the timestamps  *)
(* transition() writes one at a time always tell the same story as the     *)
(* status.  An offer that was rejected leaves nothing behind.              *)
(***************************************************************************)
Timeline ==
  \A b \in BookingIds : LET row == booking[b] IN
    /\ row.assigned_at <=> row.worker_id # None
    /\ row.accepted_at => row.assigned_at
    /\ row.started_at => row.accepted_at
    /\ row.started_at <=> row.status \in {"in_progress", "completed", "closed"}
    /\ row.completed_at <=> row.status \in {"completed", "closed"}
    /\ row.closed_at <=> row.status = "closed"
    /\ row.cancelled_at <=> row.status = "cancelled"
    /\ row.status \in {"absent", "pending"} => ~row.assigned_at
    /\ row.status = "assigned" => row.assigned_at /\ ~row.accepted_at
    /\ row.status \in {"accepted", "en_route"} => row.accepted_at

(***************************************************************************)
(* Money and status agree (complete_booking, is_settled, submit_review): a *)
(* paid booking is closed, and a closed one was paid for or rated.         *)
(***************************************************************************)
MoneyMatchesStatus ==
  \A b \in BookingIds :
    /\ payment[b] = "paid" => booking[b].status = "closed"
    /\ booking[b].status = "closed" => payment[b] = "paid" \/ review[b] # None

(***************************************************************************)
(* A rating belongs to the worker who finished the job, and is in that     *)
(* worker's stored aggregate: rating_avg and rating_count are what the     *)
(* reviews table says, for every worker, at every commit.                  *)
(***************************************************************************)
AggregateIsTrue ==
  /\ \A b \in BookingIds : review[b] # None =>
        /\ review[b] = booking[b].worker_id
        /\ booking[b].status = "closed"
  /\ \A w \in WorkerIds : rated[w] = Reviews(w)

\* jobs_completed counts the finished jobs a worker really did.
Finished(w) == {b \in BookingIds : /\ booking[b].worker_id = w
                                   /\ booking[b].status \in REVIEWABLE_STATUSES}

(***************************************************************************)
(* The jobs_completed counter of a worker, which is only ever incremented, *)
(* is the number of finished bookings that carry the worker's name.        *)
(***************************************************************************)
JobsCompletedIsTrue ==
  \A w \in WorkerIds : jobs_completed[w] = Cardinality(Finished(w))

(***************************************************************************)
(* A plumber must never be dispatched to an AC job: the worker on a        *)
(* booking, whoever put them there, is cleared for its service.            *)
(***************************************************************************)
OnlyClearedWorkers ==
  \A b \in BookingIds :
     booking[b].worker_id # None =>
        <<booking[b].worker_id, ServiceOf[b]>> \in cleared
=============================================================================
