---------------------------- MODULE BookingsProofs ----------------------------
(***************************************************************************)
(* The atomic marketplace keeps its books straight, for any numbers of     *)
(* workers, services and bookings.                                         *)
(*                                                                         *)
(* The invariants of Bookings are inductive together and not one by one:   *)
(* that a finished job has its worker's name on it, say, needs the whole   *)
(* timeline.  Two things are added.  Coherent names what Timeline says of  *)
(* one row, so that the moves of the lifecycle can be shown to keep it as  *)
(* lemmas about rows; and the finished jobs of a worker are finitely many  *)
(* even when the bookings are not, which counting them relies on.          *)
(*                                                                         *)
(* What Transition, Attach and Finish write to a row comes first: these    *)
(* lemmas about the lifecycle serve BookingTxnProofs too.                  *)
(***************************************************************************)
EXTENDS Bookings, FiniteSetTheorems, TLAPS

MOVES == {"assign", "claim", "accept", "reject", "start_travel",
          "start_work", "complete", "close", "cancel"}

(***************************************************************************)
(* Each column of the row after a transition().                            *)
(***************************************************************************)
LEMMA TransitionColumns ==
  ASSUME NEW row \in Row, NEW action \in MOVES
  PROVE  LET new == Transition(row, action) IN
           /\ new \in Row
           /\ new.status = BOOKING_TRANSITIONS[action].to
           /\ new.worker_id = IF action = "reject" THEN None ELSE row.worker_id
           /\ new.assigned_at <=> /\ row.assigned_at \/ action \in {"assign", "claim"}
                                  /\ action # "reject"
           /\ new.accepted_at <=> row.accepted_at \/ action \in {"claim", "accept"}
           /\ new.started_at <=> row.started_at \/ action = "start_work"
           /\ new.completed_at <=> row.completed_at \/ action = "complete"
           /\ new.closed_at <=> row.closed_at \/ action = "close"
           /\ new.cancelled_at <=> row.cancelled_at \/ action = "cancel"
<1>1. BOOKING_TRANSITIONS[action].to \in BookingStatus
  BY DEF MOVES, BOOKING_TRANSITIONS, BookingStatus
<1> QED
  BY <1>1 DEF Transition, WorkerAfter, AssignedAfter, Row

(***************************************************************************)
(* A worker put on a booking: the transition, and the worker's name.       *)
(***************************************************************************)
LEMMA AttachColumns ==
  ASSUME NEW row \in Row, NEW w \in WorkerIds, NEW action \in {"assign", "claim"}
  PROVE  LET new == Attach(row, w, action) IN
           /\ new \in Row
           /\ new.status = BOOKING_TRANSITIONS[action].to
           /\ new.worker_id = w
           /\ new.assigned_at
           /\ new.accepted_at <=> row.accepted_at \/ action = "claim"
           /\ new.started_at <=> row.started_at
           /\ new.completed_at <=> row.completed_at
           /\ new.closed_at <=> row.closed_at
           /\ new.cancelled_at <=> row.cancelled_at
<1> DEFINE moved == Transition(row, action)
<1>1. action \in MOVES
  BY DEF MOVES
<1>2. moved \in Row
  BY <1>1, TransitionColumns
<1>3. Attach(row, w, action) = [moved EXCEPT !.worker_id = w]
  BY DEF Attach
<1> HIDE DEF moved
<1>4. Attach(row, w, action) \in Row
  BY <1>2, <1>3 DEF Row
<1>5. moved.assigned_at
  BY <1>1, TransitionColumns DEF moved
<1> QED
  BY <1>1, <1>2, <1>3, <1>4, <1>5, TransitionColumns DEF moved, Row

(***************************************************************************)
(* A finished job: completed, and closed too when it is settled.           *)
(***************************************************************************)
LEMMA FinishColumns ==
  ASSUME NEW row \in Row, NEW settled \in BOOLEAN
  PROVE  LET new == Finish(row, settled) IN
           /\ new \in Row
           /\ new.status = IF settled THEN "closed" ELSE "completed"
           /\ new.worker_id = row.worker_id
           /\ new.assigned_at <=> row.assigned_at
           /\ new.accepted_at <=> row.accepted_at
           /\ new.started_at <=> row.started_at
           /\ new.completed_at
           /\ new.closed_at <=> row.closed_at \/ settled
           /\ new.cancelled_at <=> row.cancelled_at
<1> DEFINE done == Transition(row, "complete")
<1>1. /\ done \in Row
      /\ done.completed_at
  BY TransitionColumns DEF MOVES
<1>2. CASE settled
  <2>1. Finish(row, settled) = Transition(done, "close")
    BY <1>2 DEF Finish
  <2> DEFINE new == Transition(done, "close")
  <2> HIDE DEF done
  <2>2. /\ new \in Row
        /\ new.status = "closed"
        /\ new.worker_id = done.worker_id
        /\ new.assigned_at <=> done.assigned_at
        /\ new.accepted_at <=> done.accepted_at
        /\ new.started_at <=> done.started_at
        /\ new.completed_at <=> done.completed_at
        /\ new.closed_at
        /\ new.cancelled_at <=> done.cancelled_at
    BY <1>1, TransitionColumns DEF MOVES, BOOKING_TRANSITIONS
  <2>3. /\ done.worker_id = row.worker_id
        /\ done.assigned_at <=> row.assigned_at
        /\ done.accepted_at <=> row.accepted_at
        /\ done.started_at <=> row.started_at
        /\ done.cancelled_at <=> row.cancelled_at
    BY TransitionColumns DEF done, MOVES
  <2> QED
    BY <1>1, <1>2, <2>1, <2>2, <2>3
<1>3. CASE ~settled
  BY <1>1, <1>3, TransitionColumns DEF Finish, MOVES, BOOKING_TRANSITIONS
<1> QED
  BY <1>2, <1>3

-----------------------------------------------------------------------------

Coherent(row) ==
  /\ row.assigned_at <=> row.worker_id # None
  /\ row.accepted_at => row.assigned_at
  /\ row.started_at => row.accepted_at
  /\ row.started_at <=> row.status \in {"in_progress", "completed", "closed"}
  /\ row.completed_at <=> row.status \in {"completed", "closed"}
  /\ row.closed_at <=> row.status = "closed"
  /\ row.cancelled_at <=> row.status = "cancelled"
  /\ row.status \in {"absent", "pending"} => ~row.assigned_at
  /\ row.status = "assigned" => row.assigned_at /\ ~row.accepted_at
  /\ row.status \in {"accepted", "en_route"} => row.accepted_at

FinishedAreFinite == \A w \in WorkerIds : IsFiniteSet(Finished(w))

BooksInv ==
  /\ TypeOK
  /\ Timeline
  /\ MoneyMatchesStatus
  /\ AggregateIsTrue
  /\ JobsCompletedIsTrue
  /\ FinishedAreFinite
  /\ OnlyClearedWorkers

-----------------------------------------------------------------------------
(***************************************************************************)
(* A move the transition table allows keeps a row coherent, if it is one   *)
(* that puts nobody on the booking; "close" is one the review makes.       *)
(***************************************************************************)
LEMMA TransitionCoherent ==
  ASSUME NEW row \in Row, Coherent(row),
         NEW action \in MOVES \ {"assign", "claim"}, Allowed(action, row.status)
  PROVE  Coherent(Transition(row, action))
<1> DEFINE new == Transition(row, action)
<1>1. /\ new.status = BOOKING_TRANSITIONS[action].to
      /\ new.worker_id = IF action = "reject" THEN None ELSE row.worker_id
      /\ new.assigned_at <=> row.assigned_at /\ action # "reject"
      /\ new.accepted_at <=> row.accepted_at \/ action = "accept"
      /\ new.started_at <=> row.started_at \/ action = "start_work"
      /\ new.completed_at <=> row.completed_at \/ action = "complete"
      /\ new.closed_at <=> row.closed_at \/ action = "close"
      /\ new.cancelled_at <=> row.cancelled_at \/ action = "cancel"
  BY TransitionColumns DEF MOVES
<1>2. row.status \in BOOKING_TRANSITIONS[action].from
  BY DEF Allowed
<1> SUFFICES Coherent(new)
  OBVIOUS
<1> HIDE DEF new
<1>3. CASE action = "accept"
  <2>1. row.status = "assigned" /\ new.status = "accepted"
    BY <1>1, <1>2, <1>3 DEF BOOKING_TRANSITIONS
  <2> QED
    BY <1>1, <1>3, <2>1 DEF Coherent
<1>4. CASE action = "reject"
  <2>1. row.status = "assigned" /\ new.status = "pending"
    BY <1>1, <1>2, <1>4 DEF BOOKING_TRANSITIONS
  <2> QED
    BY <1>1, <1>4, <2>1 DEF Coherent
<1>5. CASE action = "start_travel"
  <2>1. row.status = "accepted" /\ new.status = "en_route"
    BY <1>1, <1>2, <1>5 DEF BOOKING_TRANSITIONS
  <2> QED
    BY <1>1, <1>5, <2>1 DEF Coherent
<1>6. CASE action = "start_work"
  <2>1. row.status \in {"accepted", "en_route"} /\ new.status = "in_progress"
    BY <1>1, <1>2, <1>6 DEF BOOKING_TRANSITIONS
  <2> QED
    BY <1>1, <1>6, <2>1 DEF Coherent
<1>7. CASE action = "complete"
  <2>1. row.status = "in_progress" /\ new.status = "completed"
    BY <1>1, <1>2, <1>7 DEF BOOKING_TRANSITIONS
  <2> QED
    BY <1>1, <1>7, <2>1 DEF Coherent
<1>8. CASE action = "close"
  <2>1. row.status = "completed" /\ new.status = "closed"
    BY <1>1, <1>2, <1>8 DEF BOOKING_TRANSITIONS
  <2> QED
    BY <1>1, <1>8, <2>1 DEF Coherent
<1>9. CASE action = "cancel"
  <2>1. /\ row.status \in {"pending", "assigned", "accepted", "en_route"}
        /\ new.status = "cancelled"
    BY <1>1, <1>2, <1>9 DEF BOOKING_TRANSITIONS
  <2> QED
    BY <1>1, <1>9, <2>1 DEF Coherent
<1> QED
  BY <1>3, <1>4, <1>5, <1>6, <1>7, <1>8, <1>9 DEF MOVES

(***************************************************************************)
(* A worker put on a pending booking leaves it coherent.                   *)
(***************************************************************************)
LEMMA AttachCoherent ==
  ASSUME NEW row \in Row, Coherent(row), row.status = "pending",
         NEW w \in WorkerIds, NEW action \in {"assign", "claim"}
  PROVE  /\ Coherent(Attach(row, w, action))
         /\ Attach(row, w, action).status \in {"assigned", "accepted"}
<1> DEFINE new == Attach(row, w, action)
<1>1. /\ new.status = IF action = "assign" THEN "assigned" ELSE "accepted"
      /\ new.worker_id = w
      /\ new.assigned_at
      /\ new.accepted_at <=> row.accepted_at \/ action = "claim"
      /\ new.started_at <=> row.started_at
      /\ new.completed_at <=> row.completed_at
      /\ new.closed_at <=> row.closed_at
      /\ new.cancelled_at <=> row.cancelled_at
  BY AttachColumns DEF BOOKING_TRANSITIONS
<1> HIDE DEF new
<1>2. w # None
  BY NoneAssumption
<1>3. Coherent(new)
  BY <1>1, <1>2 DEF Coherent
<1> QED
  BY <1>1, <1>3 DEF new

(***************************************************************************)
(* Finishing a job in progress leaves it coherent.                         *)
(***************************************************************************)
LEMMA FinishCoherent ==
  ASSUME NEW row \in Row, Coherent(row), row.status = "in_progress",
         NEW settled \in BOOLEAN
  PROVE  Coherent(Finish(row, settled))
<1> DEFINE new == Finish(row, settled)
<1>1. /\ new.status = IF settled THEN "closed" ELSE "completed"
      /\ new.worker_id = row.worker_id
      /\ new.assigned_at <=> row.assigned_at
      /\ new.accepted_at <=> row.accepted_at
      /\ new.started_at <=> row.started_at
      /\ new.completed_at
      /\ new.closed_at <=> row.closed_at \/ settled
      /\ new.cancelled_at <=> row.cancelled_at
  BY FinishColumns
<1> SUFFICES Coherent(new)
  OBVIOUS
<1> HIDE DEF new
<1> QED
  BY <1>1 DEF Coherent

-----------------------------------------------------------------------------
(***************************************************************************)
(* Nobody has booked anything yet.                                         *)
(***************************************************************************)
LEMMA InitBooks == Init => BooksInv
<1> SUFFICES ASSUME Init PROVE BooksInv
  OBVIOUS
<1>1. AbsentRow \in Row
  BY DEF AbsentRow, Row
<1>2. TypeOK
  BY <1>1 DEF Init, RosterInit, TablesInit, TypeOK, RosterTypeOK
<1>3. Timeline
  BY DEF Init, TablesInit, Timeline, AbsentRow
<1>4. MoneyMatchesStatus /\ OnlyClearedWorkers
  BY DEF Init, TablesInit, MoneyMatchesStatus, OnlyClearedWorkers, AbsentRow
<1>5. AggregateIsTrue
  BY NoneAssumption DEF Init, TablesInit, AggregateIsTrue, Reviews
<1>6. \A w \in WorkerIds : Finished(w) = {}
  BY DEF Init, TablesInit, Finished, AbsentRow, REVIEWABLE_STATUSES
<1>7. JobsCompletedIsTrue /\ FinishedAreFinite
  BY <1>6, FS_EmptySet DEF Init, TablesInit, JobsCompletedIsTrue, FinishedAreFinite
<1> QED
  BY <1>2, <1>3, <1>4, <1>5, <1>7 DEF BooksInv

(***************************************************************************)
(* A step that moves one booking which is not finished, before or after,   *)
(* and touches nothing else.                                               *)
(***************************************************************************)
LEMMA PlainMove ==
  ASSUME BooksInv, NEW b \in BookingIds, NEW new \in Row,
         booking' = [booking EXCEPT ![b] = new],
         UNCHANGED <<rosterVars, payment, review, jobs_completed, rated>>,
         Coherent(new),
         booking[b].status \notin REVIEWABLE_STATUSES,
         new.status \notin REVIEWABLE_STATUSES,
         new.worker_id # None => <<new.worker_id, ServiceOf[b]>> \in cleared
  PROVE  BooksInv'
<1>1. /\ booking \in [BookingIds -> Row]
      /\ booking'[b] = new
      /\ \A c \in BookingIds \ {b} : booking'[c] = booking[c]
  BY DEF BooksInv, TypeOK
<1>2. TypeOK'
  BY <1>1 DEF BooksInv, TypeOK, RosterTypeOK, rosterVars
<1>3. Timeline'
  BY <1>1 DEF BooksInv, Timeline, Coherent
<1>4. MoneyMatchesStatus'
  BY <1>1 DEF BooksInv, MoneyMatchesStatus, REVIEWABLE_STATUSES
<1>5. AggregateIsTrue'
  BY <1>1 DEF BooksInv, AggregateIsTrue, Reviews, REVIEWABLE_STATUSES
<1>6. \A w \in WorkerIds : Finished(w)' = Finished(w)
  BY <1>1 DEF Finished
<1>7. JobsCompletedIsTrue' /\ FinishedAreFinite'
  BY <1>6 DEF BooksInv, JobsCompletedIsTrue, FinishedAreFinite
<1>8. OnlyClearedWorkers'
  BY <1>1 DEF BooksInv, OnlyClearedWorkers, rosterVars
<1> QED
  BY <1>2, <1>3, <1>4, <1>5, <1>7, <1>8 DEF BooksInv

(***************************************************************************)
(* The roster changes: clearances are only ever added.                     *)
(***************************************************************************)
LEMMA RosterKeepsBooks ==
  ASSUME BooksInv, RosterNext, UNCHANGED tableVars
  PROVE  BooksInv'
<1>1. RosterTypeOK' /\ cleared \subseteq cleared'
  BY DEF BooksInv, TypeOK, RosterNext, VerifyWorker, UpdateAvailability, ClearFor,
         RosterTypeOK
<1>2. TypeOK'
  BY <1>1 DEF BooksInv, TypeOK, tableVars
<1>3. Timeline' /\ MoneyMatchesStatus' /\ AggregateIsTrue'
  BY DEF BooksInv, Timeline, MoneyMatchesStatus, AggregateIsTrue, Reviews, tableVars
<1>4. JobsCompletedIsTrue' /\ FinishedAreFinite'
  BY DEF BooksInv, JobsCompletedIsTrue, FinishedAreFinite, Finished, tableVars
<1>5. OnlyClearedWorkers'
  BY <1>1 DEF BooksInv, OnlyClearedWorkers, tableVars
<1> QED
  BY <1>2, <1>3, <1>4, <1>5 DEF BooksInv

(***************************************************************************)
(* Creating, offering, claiming, moving along and cancelling.              *)
(***************************************************************************)
LEMMA MovesKeepBooks ==
  ASSUME BooksInv, NEW b \in BookingIds,
         \/ CreateBooking(b) \/ Cancel(b)
         \/ \E w \in WorkerIds :
              \/ AssignWorker(b, w) \/ ClaimBooking(b, w)
              \/ \E action \in WORKER_MOVES : Act(b, w, action)
  PROVE  BooksInv'
<1>1. /\ booking[b] \in Row
      /\ Coherent(booking[b])
      /\ booking[b].worker_id # None =>
           <<booking[b].worker_id, ServiceOf[b]>> \in cleared
  BY DEF BooksInv, TypeOK, Timeline, Coherent, OnlyClearedWorkers
<1>2. CASE CreateBooking(b)
  <2>1. NewRow \in Row /\ Coherent(NewRow)
    BY DEF NewRow, AbsentRow, Row, BookingStatus, Coherent
  <2>2. /\ booking[b].status \notin REVIEWABLE_STATUSES
        /\ NewRow.status \notin REVIEWABLE_STATUSES
        /\ NewRow.worker_id = None
    BY <1>2 DEF CreateBooking, NewRow, AbsentRow, REVIEWABLE_STATUSES
  <2> QED
    BY <1>2, <2>1, <2>2, PlainMove DEF CreateBooking
<1>3. ASSUME NEW action \in (WORKER_MOVES \cup {"cancel"}), Allowed(action, booking[b].status),
             booking' = [booking EXCEPT ![b] = Transition(@, action)],
             UNCHANGED <<rosterVars, payment, review, jobs_completed, rated>>
      PROVE  BooksInv'
  <2> DEFINE new == Transition(booking[b], action)
  <2>1. action \in MOVES \ {"assign", "claim"}
    BY DEF WORKER_MOVES, MOVES
  <2>2. /\ new \in Row
        /\ new.status = BOOKING_TRANSITIONS[action].to
        /\ new.worker_id \in {None, booking[b].worker_id}
    BY <1>1, <2>1, TransitionColumns
  <2>3. Coherent(new)
    BY <1>1, <1>3, <2>1, TransitionCoherent
  <2>4. /\ booking[b].status \notin REVIEWABLE_STATUSES
        /\ BOOKING_TRANSITIONS[action].to \notin REVIEWABLE_STATUSES
    BY <1>3 DEF Allowed, BOOKING_TRANSITIONS, WORKER_MOVES, REVIEWABLE_STATUSES
  <2>5. booking' = [booking EXCEPT ![b] = new]
    BY <1>3
  <2> HIDE DEF new
  <2> QED
    BY <1>1, <1>3, <2>2, <2>3, <2>4, <2>5, PlainMove
<1>4. CASE Cancel(b)
  BY <1>3, <1>4 DEF Cancel
<1>5. ASSUME NEW w \in WorkerIds, NEW action \in WORKER_MOVES, Act(b, w, action)
      PROVE  BooksInv'
  BY <1>3, <1>5 DEF Act, MayMove
<1>6. ASSUME NEW w \in WorkerIds, NEW action \in {"assign", "claim"},
             MayTake(w, b), booking[b].status = "pending",
             booking' = [booking EXCEPT ![b] = Attach(@, w, action)],
             UNCHANGED <<rosterVars, payment, review, jobs_completed, rated>>
      PROVE  BooksInv'
  <2> DEFINE new == Attach(booking[b], w, action)
  <2>1. new \in Row /\ new.worker_id = w
    BY <1>1, AttachColumns
  <2>2. Coherent(new) /\ new.status \in {"assigned", "accepted"}
    BY <1>1, <1>6, AttachCoherent
  <2>3. booking' = [booking EXCEPT ![b] = new]
    BY <1>6
  <2> HIDE DEF new
  <2> QED
    BY <1>6, <2>1, <2>2, <2>3, PlainMove DEF MayTake, REVIEWABLE_STATUSES
<1>7. ASSUME NEW w \in WorkerIds, AssignWorker(b, w) PROVE BooksInv'
  <2>1. booking[b].status = "pending"
    BY <1>7 DEF AssignWorker, Allowed, BOOKING_TRANSITIONS
  <2> QED
    BY <1>6, <1>7, <2>1 DEF AssignWorker
<1>8. ASSUME NEW w \in WorkerIds, ClaimBooking(b, w) PROVE BooksInv'
  BY <1>6, <1>8 DEF ClaimBooking, Open
<1> QED
  BY <1>2, <1>4, <1>5, <1>7, <1>8

(***************************************************************************)
(* The worker finishes the job: it joins the worker's finished ones, which *)
(* it was not among, and the counter goes up by one.                       *)
(***************************************************************************)
LEMMA CompleteKeepsBooks ==
  ASSUME BooksInv, NEW b \in BookingIds, NEW w \in WorkerIds, NEW cash \in BOOLEAN,
         CompleteBooking(b, w, cash)
  PROVE  BooksInv'
<1> DEFINE settled == IsSettled(payment[b], cash)
           new == Finish(booking[b], settled)
<1>1. /\ booking \in [BookingIds -> Row]
      /\ payment \in [BookingIds -> {"pending", "paid"}]
      /\ jobs_completed \in [WorkerIds -> Nat]
      /\ Coherent(booking[b])
  BY DEF BooksInv, TypeOK, Timeline, Coherent
<1>2. /\ booking[b].status = "in_progress"
      /\ booking[b].worker_id = w
  BY DEF CompleteBooking, MayMove, Allowed, BOOKING_TRANSITIONS
<1>3. settled \in BOOLEAN
  BY <1>1 DEF IsSettled
<1>4. /\ new \in Row
      /\ new.status = IF settled THEN "closed" ELSE "completed"
      /\ new.worker_id = w
  BY <1>1, <1>2, <1>3, FinishColumns
<1>5. Coherent(new)
  BY <1>1, <1>2, <1>3, FinishCoherent
<1>6. /\ booking' = [booking EXCEPT ![b] = new]
      /\ payment' = [payment EXCEPT ![b] = IF cash THEN "paid" ELSE @]
      /\ jobs_completed' = [jobs_completed EXCEPT ![w] = @ + 1]
      /\ UNCHANGED <<rosterVars, review, rated>>
  BY DEF CompleteBooking
<1>7. payment[b] # "paid"
  BY <1>2 DEF BooksInv, MoneyMatchesStatus
<1>8. settled <=> cash
  BY <1>7 DEF IsSettled
<1> HIDE DEF settled, new
<1>9. TypeOK'
  BY <1>1, <1>4, <1>6 DEF BooksInv, TypeOK, RosterTypeOK, rosterVars
<1>10. Timeline'
  BY <1>1, <1>5, <1>6 DEF BooksInv, Timeline, Coherent
<1>11. MoneyMatchesStatus'
  BY <1>1, <1>4, <1>6, <1>7, <1>8 DEF BooksInv, MoneyMatchesStatus
<1>12. AggregateIsTrue'
  BY <1>1, <1>2, <1>6 DEF BooksInv, AggregateIsTrue, Reviews
<1>13. /\ Finished(w)' = Finished(w) \cup {b}
       /\ b \notin Finished(w)
       /\ \A v \in WorkerIds \ {w} : Finished(v)' = Finished(v)
  BY <1>1, <1>2, <1>4, <1>6 DEF Finished, REVIEWABLE_STATUSES
<1>14. IsFiniteSet(Finished(w)) /\ jobs_completed[w] = Cardinality(Finished(w))
  BY DEF BooksInv, FinishedAreFinite, JobsCompletedIsTrue
<1>15. /\ IsFiniteSet(Finished(w) \cup {b})
       /\ Cardinality(Finished(w) \cup {b}) = jobs_completed[w] + 1
  BY <1>13, <1>14, FS_AddElement
<1>16. JobsCompletedIsTrue'
  <2> SUFFICES ASSUME NEW v \in WorkerIds
               PROVE  jobs_completed'[v] = Cardinality(Finished(v)')
    BY DEF JobsCompletedIsTrue
  <2>1. CASE v = w
    BY <1>1, <1>6, <1>13, <1>15, <2>1
  <2>2. CASE v # w
    BY <1>1, <1>6, <1>13, <2>2 DEF BooksInv, JobsCompletedIsTrue
  <2> QED
    BY <2>1, <2>2
<1>17. FinishedAreFinite'
  BY <1>13, <1>15 DEF BooksInv, FinishedAreFinite
<1>18. OnlyClearedWorkers'
  BY <1>1, <1>2, <1>4, <1>6 DEF BooksInv, OnlyClearedWorkers, rosterVars
<1> QED
  BY <1>9, <1>10, <1>11, <1>12, <1>16, <1>17, <1>18 DEF BooksInv

(***************************************************************************)
(* The customer rates a finished job, which stays finished.                *)
(***************************************************************************)
LEMMA ReviewKeepsBooks ==
  ASSUME BooksInv, NEW b \in BookingIds, SubmitReview(b)
  PROVE  BooksInv'
<1> DEFINE w == booking[b].worker_id
           new == IF booking[b].status = "completed"
                    THEN Transition(booking[b], "close") ELSE booking[b]
<1>1. /\ booking \in [BookingIds -> Row]
      /\ review \in [BookingIds -> WorkerIds \cup {None}]
      /\ rated \in [WorkerIds -> SUBSET BookingIds]
      /\ booking[b] \in Row
      /\ Coherent(booking[b])
  BY DEF BooksInv, TypeOK, Timeline, Coherent
<1>2. /\ booking[b].status \in REVIEWABLE_STATUSES
      /\ w # None
      /\ review[b] = None
  BY DEF SubmitReview, Reviewable
<1>3. w \in WorkerIds
  BY <1>1, <1>2 DEF Row
<1>4. new \in Row /\ new.status = "closed" /\ new.worker_id = w
  BY <1>1, <1>2, TransitionColumns DEF MOVES, BOOKING_TRANSITIONS, REVIEWABLE_STATUSES
<1>5. Coherent(new)
  <2>1. CASE booking[b].status = "completed"
    BY <1>1, <2>1, TransitionCoherent DEF MOVES, Allowed, BOOKING_TRANSITIONS
  <2>2. CASE booking[b].status # "completed"
    BY <1>1, <2>2
  <2> QED
    BY <2>1, <2>2
<1>6. /\ booking' = [booking EXCEPT ![b] = new]
      /\ review' = [review EXCEPT ![b] = w]
      /\ rated' = [rated EXCEPT ![w] = Reviews(w) \cup {b}]
      /\ UNCHANGED <<rosterVars, payment, jobs_completed>>
  BY DEF SubmitReview, Recomputed
<1> HIDE DEF w, new
<1>7. TypeOK'
  <2>1. Reviews(w) \cup {b} \subseteq BookingIds
    BY DEF Reviews
  <2> QED
    BY <1>1, <1>3, <1>4, <1>6, <2>1 DEF BooksInv, TypeOK, RosterTypeOK, rosterVars
<1>8. Timeline'
  BY <1>1, <1>5, <1>6 DEF BooksInv, Timeline, Coherent
<1>9. MoneyMatchesStatus'
  BY <1>1, <1>2, <1>4, <1>6 DEF BooksInv, MoneyMatchesStatus
<1>10. AggregateIsTrue'
  <2>1. \A c \in BookingIds : review'[c] # None =>
           /\ review'[c] = booking'[c].worker_id
           /\ booking'[c].status = "closed"
    BY <1>1, <1>4, <1>6 DEF BooksInv, AggregateIsTrue
  <2>2. ASSUME NEW v \in WorkerIds PROVE rated'[v] = Reviews(v)'
    <3>1. rated[v] = Reviews(v)
      BY DEF BooksInv, AggregateIsTrue
    <3>2. CASE v = w
      <4>1. Reviews(v)' = Reviews(v) \cup {b}
        BY <1>1, <1>6, <3>2 DEF Reviews
      <4> QED
        BY <1>1, <1>3, <1>6, <3>2, <4>1
    <3>3. CASE v # w
      <4>1. Reviews(v)' = Reviews(v)
        BY <1>1, <1>2, <1>6, <3>3, NoneAssumption DEF Reviews
      <4> QED
        BY <1>1, <1>6, <3>1, <3>3, <4>1
    <3> QED
      BY <3>2, <3>3
  <2> QED
    BY <2>1, <2>2 DEF AggregateIsTrue
<1>11. \A v \in WorkerIds : Finished(v)' = Finished(v)
  <2> USE DEF REVIEWABLE_STATUSES
  <2>1. booking[b].worker_id = w
    BY DEF w
  <2> QED
    BY <1>1, <1>2, <1>4, <1>6, <2>1 DEF Finished
<1>12. JobsCompletedIsTrue' /\ FinishedAreFinite'
  BY <1>6, <1>11 DEF BooksInv, JobsCompletedIsTrue, FinishedAreFinite
<1>13. OnlyClearedWorkers'
  <2>1. booking[b].worker_id = w
    BY DEF w
  <2> QED
    BY <1>1, <1>4, <1>6, <2>1 DEF BooksInv, OnlyClearedWorkers, rosterVars
<1> QED
  BY <1>7, <1>8, <1>9, <1>10, <1>12, <1>13 DEF BooksInv

-----------------------------------------------------------------------------
(***************************************************************************)
(* Every operation of the marketplace keeps the books.                     *)
(***************************************************************************)
LEMMA NextKeepsBooks ==
  ASSUME BooksInv, [Next]_vars
  PROVE  BooksInv'
<1>1. CASE UNCHANGED vars
  BY <1>1 DEF BooksInv, TypeOK, RosterTypeOK, Timeline, MoneyMatchesStatus,
              AggregateIsTrue, Reviews, JobsCompletedIsTrue, FinishedAreFinite,
              Finished, OnlyClearedWorkers, vars, rosterVars, tableVars
<1>2. CASE RosterNext /\ UNCHANGED tableVars
  BY <1>2, RosterKeepsBooks
<1>3. ASSUME NEW b \in BookingIds,
             \/ CreateBooking(b) \/ Cancel(b)
             \/ \E w \in WorkerIds :
                  \/ AssignWorker(b, w) \/ ClaimBooking(b, w)
                  \/ \E action \in WORKER_MOVES : Act(b, w, action)
      PROVE  BooksInv'
  BY <1>3, MovesKeepBooks
<1>4. ASSUME NEW b \in BookingIds, SubmitReview(b) PROVE BooksInv'
  BY <1>4, ReviewKeepsBooks
<1>5. ASSUME NEW b \in BookingIds, NEW w \in WorkerIds, NEW cash \in BOOLEAN,
             CompleteBooking(b, w, cash)
      PROVE  BooksInv'
  BY <1>5, CompleteKeepsBooks
<1> QED
  BY <1>1, <1>2, <1>3, <1>4, <1>5 DEF Next

LEMMA BooksAlways == Spec => []BooksInv
<1>1. BooksInv /\ [Next]_vars => BooksInv'
  BY NextKeepsBooks
<1> QED
  BY <1>1, InitBooks, PTL DEF Spec

(***************************************************************************)
(* The tables are always well typed.                                       *)
(***************************************************************************)
THEOREM BookingsTypeCorrect == Spec => []TypeOK
<1>1. BooksInv => TypeOK
  BY DEF BooksInv
<1> QED
  BY <1>1, BooksAlways, PTL

(***************************************************************************)
(* Worker, timestamps and status of a booking always tell the same story.  *)
(***************************************************************************)
THEOREM TimelineIsCoherent == Spec => []Timeline
<1>1. BooksInv => Timeline
  BY DEF BooksInv
<1> QED
  BY <1>1, BooksAlways, PTL

(***************************************************************************)
(* What is paid is closed, and what is closed was paid for or rated.       *)
(***************************************************************************)
THEOREM MoneyFollowsStatus == Spec => []MoneyMatchesStatus
<1>1. BooksInv => MoneyMatchesStatus
  BY DEF BooksInv
<1> QED
  BY <1>1, BooksAlways, PTL

(***************************************************************************)
(* A worker's stored aggregate covers exactly the ratings of the jobs that *)
(* worker finished.                                                        *)
(***************************************************************************)
THEOREM AggregatesAreTrue == Spec => []AggregateIsTrue
<1>1. BooksInv => AggregateIsTrue
  BY DEF BooksInv
<1> QED
  BY <1>1, BooksAlways, PTL

(***************************************************************************)
(* The counter of finished jobs counts the finished jobs.                  *)
(***************************************************************************)
THEOREM JobCountersAreTrue == Spec => []JobsCompletedIsTrue
<1>1. BooksInv => JobsCompletedIsTrue
  BY DEF BooksInv
<1> QED
  BY <1>1, BooksAlways, PTL
=============================================================================
