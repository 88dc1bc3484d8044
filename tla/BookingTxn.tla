------------------------------ MODULE BookingTxn ------------------------------
(***************************************************************************)
(* The operations on bookings as the server runs them: each request is one *)
(* database transaction that first reads, then decides on the copy it      *)
(* holds, then sends its UPDATEs and commits.  The database is PostgreSQL  *)
(* at READ COMMITTED, no row has a version column, and only claim_booking  *)
(* locks the row it reads.                                                 *)
(*                                                                         *)
(* The variables of Bookings are the committed tables.  A request is in    *)
(* one of these phases:                                                    *)
(*                                                                         *)
(*   idle      no request is being served in this slot                     *)
(*   loaded    the rows are read; the roster is still to be read (assign), *)
(*             the review still to be inserted (review)                    *)
(*   eligible  claim_booking has read the profile, not yet the booking     *)
(*   ready     every guard has passed on the request's copies: what        *)
(*             remains is to flush and commit                              *)
(*                                                                         *)
(* A flush takes the lock of the rows it updates until the commit, which   *)
(* comes right after it: Commit models both as one step.                   *)
(***************************************************************************)
EXTENDS Bookings

CONSTANTS Requests,     \* slots: how many requests are served at a time
          Free,         \* no request holds the row lock
          Overlapping,  \* operations that may be in flight together
          MaxJobs       \* bound on jobs_completed, for model checking only

VARIABLES txn,  \* what each request in flight has read and decided
          lock  \* the request holding the row lock of each booking

txnVars == <<txn, lock>>
allVars == <<vars, txnVars>>

OPERATIONS == {"assign", "claim", "complete", "cancel", "review"} \cup WORKER_MOVES

ASSUME FreeAssumption == Free \notin Requests
ASSUME OverlapAssumption == Overlapping \subseteq OPERATIONS \cup {"roster"}
ASSUME MaxJobsAssumption == MaxJobs \in Nat

(***************************************************************************)
(* The copies a request decides on: the status, worker, payment and        *)
(* jobs_completed it loaded, and the aggregate it computed.                *)
(***************************************************************************)
Request ==
  [phase : {"idle", "loaded", "eligible", "ready"},
   op    : OPERATIONS,
   b     : BookingIds,
   w     : WorkerIds \cup {None},
   closes : BOOLEAN,             \* the transaction also closes the booking
   cash  : BOOLEAN,
   jobs  : Nat,
   stats : SUBSET BookingIds]

IdleRequest ==
  [phase |-> "idle", op |-> "cancel", b |-> CHOOSE b \in BookingIds : TRUE,
   w |-> None, closes |-> FALSE, cash |-> FALSE, jobs |-> 0, stats |-> {}]

TxnTypeOK ==
  /\ TypeOK
  /\ txn \in [Requests -> Request]
  /\ lock \in [BookingIds -> Requests \cup {Free}]

TxnInit ==
  /\ Init
  /\ txn = [r \in Requests |-> IdleRequest]
  /\ lock = [b \in BookingIds |-> Free]

-----------------------------------------------------------------------------
Idle(r) == txn[r].phase = "idle"

\* How the run restricts overlap: an operation outside Overlapping is served
\* while nothing else is in flight.
MayOverlap(op) ==
  \A q \in Requests : Idle(q) \/ {op, txn[q].op} \subseteq Overlapping

Begin(r, op, phase, b, w) ==
  /\ Idle(r) /\ MayOverlap(op)
  /\ txn' = [txn EXCEPT ![r] = [IdleRequest EXCEPT !.phase = phase, !.op = op,
                                                   !.b = b, !.w = w]]
  /\ UNCHANGED <<vars, lock>>

\* Mutant: the transaction that ends keeps its row lock.
Release_Nothing(r) == UNCHANGED lock

\* The end of a transaction releases its row locks.
Release(r) == lock' = [b \in BookingIds |-> IF lock[b] = r THEN Free ELSE lock[b]]

End(r) == txn' = [txn EXCEPT ![r] = IdleRequest] /\ Release(r)

\* An exception before the commit, a lost client, a killed worker: rollback.
Rollback(r) == End(r) /\ UNCHANGED vars

\* A flush waits while another transaction holds the lock of the row.
MayUpdate(r) == lock[txn[r].b] \in {Free, r}

-----------------------------------------------------------------------------
(***************************************************************************)
(* Reads.  Each loads the booking without a lock and evaluates the guards  *)
(* of the operation on that copy; a guard that fails is an error response  *)
(* and changes nothing.                                                    *)
(***************************************************************************)
AssignLoad(r, b, w) ==
  /\ Allowed("assign", booking[b].status)
  /\ Begin(r, "assign", "loaded", b, w)

ActLoad(r, b, w, action) ==
  /\ MayMove(booking[b], w, action)
  /\ Begin(r, action, "ready", b, w)

CancelLoad(r, b) ==
  /\ Allowed("cancel", booking[b].status)
  /\ Begin(r, "cancel", "ready", b, None)

\* The payment and the worker's profile come with the booking, and are not
\* read again.
CompleteLoad(r, b, w, cash) ==
  /\ MayMove(booking[b], w, "complete")
  /\ jobs_completed[w] < MaxJobs
  /\ Idle(r) /\ MayOverlap("complete")
  /\ txn' = [txn EXCEPT ![r] =
       [IdleRequest EXCEPT !.phase = "ready", !.op = "complete", !.b = b, !.w = w,
                           !.closes = IsSettled(payment[b], cash),
                           !.cash = cash, !.jobs = jobs_completed[w]]]
  /\ UNCHANGED <<vars, lock>>

ReviewLoad(r, b) ==
  /\ Reviewable(booking[b]) /\ review[b] = None
  /\ Idle(r) /\ MayOverlap("review")
  /\ txn' = [txn EXCEPT ![r] =
       [IdleRequest EXCEPT !.phase = "loaded", !.op = "review", !.b = b,
                           !.w = booking[b].worker_id,
                           !.closes = booking[b].status = "completed"]]
  /\ UNCHANGED <<vars, lock>>

\* claim_booking starts with the profile, before the booking is locked.
ClaimCheckProfile(r, b, w) ==
  /\ IsAssignable(w)
  /\ Begin(r, "claim", "eligible", b, w)

-----------------------------------------------------------------------------
(***************************************************************************)
(* Later reads of the same transaction.                                    *)
(***************************************************************************)
AtPhase(r, op, phase) == txn[r].op = op /\ txn[r].phase = phase

\* assign_worker reads the profile and the clearance after the booking.
AssignCheckRoster(r) ==
  /\ AtPhase(r, "assign", "loaded")
  /\ IF IsAssignable(txn[r].w) /\ MayTake(txn[r].w, txn[r].b)
       THEN txn' = [txn EXCEPT ![r].phase = "ready"] /\ UNCHANGED <<vars, lock>>
       ELSE Rollback(r)

\* Mutant: SELECT without FOR UPDATE: the row is read, and not locked.
LockRow_Unlocked(r, b) == lock[b] = Free /\ UNCHANGED lock

\* SELECT ... FOR UPDATE waits for the row lock and returns the committed row.
LockRow(r, b) == lock[b] = Free /\ lock' = [lock EXCEPT ![b] = r]

ClaimLock(r) ==
  /\ AtPhase(r, "claim", "eligible")
  /\ Open(booking[txn[r].b]) /\ MayTake(txn[r].w, txn[r].b)
  /\ LockRow(r, txn[r].b)
  /\ txn' = [txn EXCEPT ![r].phase = "ready"]
  /\ UNCHANGED vars

\* The loser gets its turn at the lock, and a 409: JOB_ALREADY_TAKEN.
ClaimRefused(r) ==
  /\ AtPhase(r, "claim", "eligible")
  /\ lock[txn[r].b] = Free
  /\ ~(Open(booking[txn[r].b]) /\ MayTake(txn[r].w, txn[r].b))
  /\ Rollback(r)

\* The unique index on reviews.booking_id: an insert waits for another
\* transaction's uncommitted row, and fails on a committed one.
SlotFree(r) ==
  \A q \in Requests \ {r} : ~(AtPhase(q, "review", "ready") /\ txn[q].b = txn[r].b)

\* Mutant: a second review of the booking replaces the first.
NotYetReviewed_Always(r) == TRUE

NotYetReviewed(r) == review[txn[r].b] = None

ReviewInsert(r) ==
  /\ AtPhase(r, "review", "loaded")
  /\ SlotFree(r)
  /\ IF NotYetReviewed(r)
       THEN /\ txn' = [txn EXCEPT ![r].phase = "ready",
                                  ![r].stats = Recomputed(txn[r].b, txn[r].w)]
            /\ UNCHANGED <<vars, lock>>
       ELSE Rollback(r)

-----------------------------------------------------------------------------
(***************************************************************************)
(* Flush and commit: the UPDATE of the columns the operation assigned,     *)
(* WHERE id = ..., on the row as it is now.                                *)
(***************************************************************************)
Ready(r, op) == AtPhase(r, op, "ready") /\ MayUpdate(r)

CommitAttach(r, op) ==
  /\ Ready(r, op)
  /\ booking' = [booking EXCEPT ![txn[r].b] = Attach(@, txn[r].w, op)]
  /\ UNCHANGED <<rosterVars, payment, review, jobs_completed, rated>>
  /\ End(r)

CommitMove(r, op) ==
  /\ Ready(r, op)
  /\ booking' = [booking EXCEPT ![txn[r].b] = Transition(@, op)]
  /\ UNCHANGED <<rosterVars, payment, review, jobs_completed, rated>>
  /\ End(r)

CommitComplete(r) ==
  /\ Ready(r, "complete")
  /\ booking' = [booking EXCEPT ![txn[r].b] = Finish(@, txn[r].closes)]
  /\ payment' = [payment EXCEPT ![txn[r].b] = IF txn[r].cash THEN "paid" ELSE @]
  /\ jobs_completed' = [jobs_completed EXCEPT ![txn[r].w] = txn[r].jobs + 1]
  /\ UNCHANGED <<rosterVars, review, rated>>
  /\ End(r)

CommitReview(r) ==
  /\ Ready(r, "review")
  /\ review' = [review EXCEPT ![txn[r].b] = txn[r].w]
  /\ rated' = [rated EXCEPT ![txn[r].w] = txn[r].stats]
  /\ booking' = [booking EXCEPT ![txn[r].b] =
                   IF txn[r].closes THEN Transition(@, "close") ELSE @]
  /\ UNCHANGED <<rosterVars, payment, jobs_completed>>
  /\ End(r)

-----------------------------------------------------------------------------
Load(r) ==
  \E b \in BookingIds :
     \/ CancelLoad(r, b)
     \/ ReviewLoad(r, b)
     \/ \E w \in WorkerIds :
          \/ AssignLoad(r, b, w)
          \/ ClaimCheckProfile(r, b, w)
          \/ \E action \in WORKER_MOVES : ActLoad(r, b, w, action)
          \/ \E cash \in BOOLEAN : CompleteLoad(r, b, w, cash)

Check(r) == AssignCheckRoster(r) \/ ReviewInsert(r)

TakeTurn(r) == ClaimLock(r) \/ ClaimRefused(r)

Commit(r) ==
  \/ \E op \in {"assign", "claim"} : CommitAttach(r, op)
  \/ \E op \in WORKER_MOVES \cup {"cancel"} : CommitMove(r, op)
  \/ CommitComplete(r)
  \/ CommitReview(r)

Abort(r) == ~Idle(r) /\ Rollback(r)

\* One-statement transactions: a new booking, a change of the roster.
CreateOne == \E b \in BookingIds : CreateBooking(b) /\ UNCHANGED txnVars

ChangeRoster ==
  /\ MayOverlap("roster")
  /\ RosterNext
  /\ UNCHANGED <<tableVars, txnVars>>

TxnNext ==
  \/ \E r \in Requests : Load(r) \/ Check(r) \/ TakeTurn(r) \/ Commit(r) \/ Abort(r)
  \/ CreateOne
  \/ ChangeRoster

TxnSpec == TxnInit /\ [][TxnNext]_allVars

(***************************************************************************)
(* The server finishes what it started: a request in flight goes on.  The  *)
(* fairness is strong because a step that waits for a row lock, or for     *)
(* another's insert, is enabled only while the lock is free; PostgreSQL    *)
(* queues the waiters, so each gets its turn.  Nothing obliges a client to *)
(* send a request, or a transaction to fail.                               *)
(***************************************************************************)
TxnFairness ==
  \A r \in Requests : SF_allVars(Check(r) \/ TakeTurn(r) \/ Commit(r))

FairTxnSpec == TxnSpec /\ TxnFairness

-----------------------------------------------------------------------------
(***************************************************************************)
(* What holds however requests overlap, roll back or wait.                 *)
(***************************************************************************)

(***************************************************************************)
(* "The row is locked before its status is read" (claim_booking): from the *)
(* moment a claim has passed its check until it commits, the job it takes  *)
(* is committed as open, and nobody else can move it.  So a claim never    *)
(* overwrites a claim, an assignment or a cancellation.                    *)
(***************************************************************************)
ClaimHoldsOpenJob ==
  \A r \in Requests :
     AtPhase(r, "claim", "ready") =>
        lock[txn[r].b] = r /\ Open(booking[txn[r].b])

(***************************************************************************)
(* A job in the pool has nobody on it and an offer has somebody, even when *)
(* stale requests overwrite each other: transition() writes these columns  *)
(* together or not at all.                                                 *)
(***************************************************************************)
OfferIsCoherent ==
  \A b \in BookingIds : LET row == booking[b] IN
    /\ row.status = "pending" => row.worker_id = None /\ ~row.assigned_at
    /\ row.status = "assigned" => row.worker_id # None /\ row.assigned_at

(***************************************************************************)
(* Evidence of work is never out of order: whatever the status says after  *)
(* a race, a closed job was completed, a completed one started and a       *)
(* started one accepted, and money or a rating is there only for work that *)
(* was completed.                                                          *)
(***************************************************************************)
WorkLeavesTraces ==
  \A b \in BookingIds : LET row == booking[b] IN
    /\ row.started_at => row.accepted_at
    /\ row.completed_at => row.started_at
    /\ row.closed_at => row.completed_at
    /\ payment[b] = "paid" => row.completed_at
    /\ review[b] # None => row.completed_at

(***************************************************************************)
(* The stored aggregate of a worker never counts a rating that is not in   *)
(* the reviews table: a review whose insert lost the race, or was rolled   *)
(* back, leaves nothing behind in the profile.                             *)
(***************************************************************************)
AggregateNeverInvents == \A w \in WorkerIds : rated[w] \subseteq Reviews(w)

(***************************************************************************)
(* A booking is rated once: of two ratings sent at the same time (a double *)
(* click) one is refused, and the first is never replaced.                 *)
(***************************************************************************)
RatedOnce ==
  [][\A b \in BookingIds : review[b] # None => review'[b] = review[b]]_allVars

(***************************************************************************)
(* No request waits forever for a row lock or for another's insert: none   *)
(* deadlocks, and none is starved by a stream of rival claims.             *)
(***************************************************************************)
RequestsEnd == \A r \in Requests : ~Idle(r) ~> Idle(r)

(***************************************************************************)
(* The lock of claim_booking makes overlapping claims serializable: where  *)
(* claims are all that overlaps, the committed tables change as Bookings   *)
(* says, one whole operation at a time.                                    *)
(***************************************************************************)
Serializable == Spec

-----------------------------------------------------------------------------
(***************************************************************************)
(* What the documentation promises and unlocked reads do not deliver.      *)
(***************************************************************************)

(***************************************************************************)
(* "Two people can't take the same job ... never a double booking": the    *)
(* worker who took a job does not see it handed to somebody else.          *)
(***************************************************************************)
NoDoubleBooking ==
  [][\A b \in BookingIds :
        booking[b].status = "accepted" =>
          booking'[b].worker_id \in {None, booking[b].worker_id}]_allVars

LegalMoves ==
  {<<"in_progress", "closed">>}   \* complete, then close
  \cup UNION {BOOKING_TRANSITIONS[a].from \X {BOOKING_TRANSITIONS[a].to} :
                a \in DOMAIN BOOKING_TRANSITIONS}

(***************************************************************************)
(* "An illegal jump is impossible rather than merely unlikely": the status *)
(* column only ever changes along the transition table.                    *)
(***************************************************************************)
NoIllegalJump ==
  [][\A b \in BookingIds :
        booking[b].status \notin {"absent", booking'[b].status} =>
          <<booking[b].status, booking'[b].status>> \in LegalMoves]_allVars

(***************************************************************************)
(* The aggregate is recomputed from the reviews table so that it cannot be *)
(* left wrong.                                                             *)
(***************************************************************************)
RatingCountIsTrue == \A w \in WorkerIds : rated[w] = Reviews(w)
=============================================================================
