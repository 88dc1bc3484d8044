--------------------------- MODULE BookingTxnProofs ---------------------------
(***************************************************************************)
(* What overlapping transactions can never do to a booking, for any number *)
(* of workers, bookings and requests in flight.                            *)
(*                                                                         *)
(* The invariants of BookingTxn are not inductive as they stand: a stale   *)
(* request may commit at any time, so what it will write has to be known   *)
(* to be harmless from the moment it was decided.  RowInv is what a        *)
(* committed row always satisfies, Promise what a request in flight knows  *)
(* of the database whatever the others commit in the meantime.             *)
(*                                                                         *)
(* The second half is about what overlapping can break, and under which    *)
(* restriction of Overlapping it does not: the refinement of Bookings, and *)
(* the documented promises that two runs refute without one.               *)
(***************************************************************************)
EXTENDS BookingTxn, BookingsProofs

RowInv(b) ==
  LET row == booking[b] IN
    /\ row.status = "pending" => row.worker_id = None /\ ~row.assigned_at
    /\ row.status = "assigned" => row.worker_id # None /\ row.assigned_at
    /\ row.status \in {"accepted", "en_route"} => row.accepted_at
    /\ row.status = "in_progress" => row.started_at
    /\ row.status \in REVIEWABLE_STATUSES => row.completed_at
    /\ row.started_at => row.accepted_at
    /\ row.completed_at => row.started_at
    /\ row.closed_at => row.completed_at
    /\ payment[b] = "paid" => row.completed_at
    /\ review[b] # None => row.completed_at
    /\ row.worker_id # None => <<row.worker_id, ServiceOf[b]>> \in cleared

Promise(r) ==
  LET t == txn[r]
      row == booking[t.b] IN
    /\ t.phase # "idle" /\ t.op \in {"assign", "claim", "complete", "review"}
         => t.w \in WorkerIds
    /\ t.phase = "ready" /\ t.op \in {"assign", "claim"} => MayTake(t.w, t.b)
    /\ t.phase = "ready" /\ t.op \in {"start_travel", "start_work"} => row.accepted_at
    /\ t.phase = "ready" /\ t.op = "complete" => row.started_at
    /\ t.phase # "idle" /\ t.op = "review" => row.completed_at
    /\ t.phase = "ready" /\ t.op = "review" =>
         review[t.b] = None /\ t.stats \subseteq Reviews(t.w) \cup {t.b}
    /\ t.phase = "ready" /\ t.op = "claim" => lock[t.b] = r /\ Open(row)

\* Two reviews of one booking are never both inserted.
OneInsert ==
  \A r, q \in Requests :
     /\ AtPhase(r, "review", "ready") /\ AtPhase(q, "review", "ready")
     /\ txn[r].b = txn[q].b
     => r = q

IInv ==
  /\ TxnTypeOK
  /\ \A b \in BookingIds : RowInv(b)
  /\ \A r \in Requests : Promise(r)
  /\ OneInsert
  /\ AggregateNeverInvents

-----------------------------------------------------------------------------
(***************************************************************************)
(* A slot without a request makes no promise, and ending one is well typed.*)
(***************************************************************************)
LEMMA IdleRequestType ==
  /\ IdleRequest \in Request
  /\ IdleRequest.phase = "idle"
<1>1. (CHOOSE b \in BookingIds : TRUE) \in BookingIds
  BY BookingIdsAssumption
<1> QED
  BY <1>1 DEF IdleRequest, Request, OPERATIONS, WORKER_MOVES

(***************************************************************************)
(* The promise of a request outlives a step of somebody else that keeps    *)
(* the evidence of work, clearances, reviews and the row it has locked.    *)
(***************************************************************************)
LEMMA PromiseFrame ==
  ASSUME IInv, NEW q \in Requests, txn'[q] = txn[q],
         LET b == txn[q].b IN
           /\ booking[b].accepted_at => booking'[b].accepted_at
           /\ booking[b].started_at => booking'[b].started_at
           /\ booking[b].completed_at => booking'[b].completed_at
           /\ AtPhase(q, "review", "ready") => review'[b] = review[b]
           /\ AtPhase(q, "claim", "ready") =>
                lock'[b] = lock[b] /\ booking'[b] = booking[b],
         cleared \subseteq cleared',
         \A b \in BookingIds : review[b] # None => review'[b] = review[b]
  PROVE  Promise(q)'
<1> DEFINE t == txn[q]
<1>1. t \in Request /\ t.b \in BookingIds
  BY DEF IInv, TxnTypeOK, Request
<1>2. Promise(q)
  BY DEF IInv
<1>3. t.phase = "ready" /\ t.op = "review" => t.stats \subseteq Reviews(t.w)' \cup {t.b}
  <2> SUFFICES ASSUME t.phase = "ready", t.op = "review"
               PROVE  t.stats \subseteq Reviews(t.w)' \cup {t.b}
    OBVIOUS
  <2>1. t.w \in WorkerIds /\ t.stats \subseteq Reviews(t.w) \cup {t.b}
    BY <1>2 DEF Promise
  <2>2. Reviews(t.w) \subseteq Reviews(t.w)'
    BY <2>1, NoneAssumption DEF Reviews
  <2> QED
    BY <2>1, <2>2
<1>4. MayTake(t.w, t.b) => MayTake(t.w, t.b)'
  BY DEF MayTake
<1> QED
  BY <1>1, <1>2, <1>3, <1>4 DEF Promise, AtPhase

(***************************************************************************)
(* A step of request r that writes nothing: a read, a check, a lock taken, *)
(* a refusal, a rollback.                                                  *)
(***************************************************************************)
LEMMA QuietStep ==
  ASSUME IInv, UNCHANGED vars,
         NEW r \in Requests, NEW t \in Request,
         txn' = [txn EXCEPT ![r] = t],
         lock' \in [BookingIds -> Requests \cup {Free}],
         \A b \in BookingIds : lock'[b] = lock[b] \/ lock[b] \in {Free, r},
         Promise(r)',
         t.phase = "ready" /\ t.op = "review" =>
            \A q \in Requests \ {r} :
               ~(AtPhase(q, "review", "ready") /\ txn[q].b = t.b)
  PROVE  IInv'
<1>1. TxnTypeOK /\ OneInsert /\ AggregateNeverInvents
  BY DEF IInv
<1>2. txn \in [Requests -> Request]
  BY <1>1 DEF TxnTypeOK
<1>3. TxnTypeOK'
  BY <1>1, <1>2 DEF TxnTypeOK, TypeOK, RosterTypeOK, vars, rosterVars, tableVars
<1>4. \A b \in BookingIds : RowInv(b)'
  BY DEF IInv, RowInv, vars, rosterVars, tableVars
<1>5. ASSUME NEW q \in Requests PROVE Promise(q)'
  <2>1. CASE q = r
    BY <2>1
  <2>2. CASE q # r
    <3>1. txn'[q] = txn[q] /\ txn[q] \in Request
      BY <1>2, <2>2
    <3>2. AtPhase(q, "claim", "ready") => lock'[txn[q].b] = lock[txn[q].b]
      <4>1. Promise(q)
        BY DEF IInv
      <4>2. AtPhase(q, "claim", "ready") => lock[txn[q].b] = q /\ txn[q].b \in BookingIds
        BY <3>1, <4>1 DEF Promise, AtPhase, Request
      <4> QED
        BY <2>2, <4>2, FreeAssumption
    <3> QED
      BY <3>1, <3>2, PromiseFrame DEF vars, rosterVars, tableVars
  <2> QED
    BY <2>1, <2>2
<1>6. OneInsert'
  <2> SUFFICES ASSUME NEW p \in Requests, NEW q \in Requests,
                      AtPhase(p, "review", "ready")', AtPhase(q, "review", "ready")',
                      (txn[p].b = txn[q].b)'
               PROVE  p = q
    BY DEF OneInsert
  <2>1. CASE p = r /\ q # r
    BY <1>2, <2>1 DEF AtPhase
  <2>2. CASE p # r /\ q = r
    BY <1>2, <2>2 DEF AtPhase
  <2>3. CASE p # r /\ q # r
    BY <1>1, <1>2, <2>3 DEF AtPhase, OneInsert
  <2> QED
    BY <2>1, <2>2, <2>3
<1>7. AggregateNeverInvents'
  BY <1>1 DEF AggregateNeverInvents, Reviews, vars, tableVars
<1> QED
  BY <1>3, <1>4, <1>5, <1>6, <1>7 DEF IInv

(***************************************************************************)
(* Request r commits: it may update the row, it wrote a row that is well   *)
(* formed and keeps the evidence, and touched no other booking.            *)
(***************************************************************************)
LEMMA CommitStep ==
  ASSUME IInv, NEW r \in Requests, ~Idle(r), MayUpdate(r), End(r),
         NEW b \in BookingIds, b = txn[r].b, NEW row \in Row,
         booking' = [booking EXCEPT ![b] = row],
         UNCHANGED rosterVars,
         TypeOK',
         booking[b].accepted_at => row.accepted_at,
         booking[b].started_at => row.started_at,
         booking[b].completed_at => row.completed_at,
         RowInv(b)',
         \A c \in BookingIds \ {b} :
            payment'[c] = payment[c] /\ review'[c] = review[c],
         \/ review'[b] = review[b]
         \/ AtPhase(r, "review", "ready") /\ review[b] = None,
         AggregateNeverInvents'
  PROVE  IInv'
<1>1. /\ txn \in [Requests -> Request]
      /\ booking \in [BookingIds -> Row]
      /\ lock \in [BookingIds -> Requests \cup {Free}]
      /\ OneInsert
  BY DEF IInv, TxnTypeOK, TypeOK, Request
<1>2. TxnTypeOK'
  BY <1>1, IdleRequestType DEF TxnTypeOK, End, Release
<1>3. ASSUME NEW c \in BookingIds PROVE RowInv(c)'
  <2>1. CASE c = b
    BY <2>1
  <2>2. CASE c # b
    <3>1. booking'[c] = booking[c] /\ payment'[c] = payment[c] /\ review'[c] = review[c]
      BY <1>1, <2>2
    <3> QED
      BY <3>1 DEF IInv, RowInv, rosterVars
  <2> QED
    BY <2>1, <2>2
<1>4. ASSUME NEW q \in Requests PROVE Promise(q)'
  <2>1. CASE q = r
    <3>1. txn'[r] = IdleRequest
      BY <1>1 DEF End
    <3> QED
      BY <2>1, <3>1, IdleRequestType DEF Promise
  <2>2. CASE q # r
    <3>1. txn'[q] = txn[q] /\ txn[q] \in Request /\ txn[q].b \in BookingIds
      BY <1>1, <2>2 DEF End, Request
    <3>2. AtPhase(q, "review", "ready") => review'[txn[q].b] = review[txn[q].b]
      BY <1>1, <2>2, <3>1 DEF OneInsert
    <3>3. AtPhase(q, "claim", "ready") =>
             lock'[txn[q].b] = lock[txn[q].b] /\ booking'[txn[q].b] = booking[txn[q].b]
      <4>1. SUFFICES ASSUME AtPhase(q, "claim", "ready")
                     PROVE  lock'[txn[q].b] = lock[txn[q].b]
                            /\ booking'[txn[q].b] = booking[txn[q].b]
        OBVIOUS
      <4>2. lock[txn[q].b] = q
        BY <4>1 DEF IInv, Promise, AtPhase
      <4>3. txn[q].b # b
        BY <2>2, <4>2, FreeAssumption DEF MayUpdate
      <4> QED
        BY <1>1, <2>2, <3>1, <4>2, <4>3 DEF End, Release
    <3>4. /\ booking[txn[q].b].accepted_at => booking'[txn[q].b].accepted_at
          /\ booking[txn[q].b].started_at => booking'[txn[q].b].started_at
          /\ booking[txn[q].b].completed_at => booking'[txn[q].b].completed_at
      BY <1>1, <3>1
    <3>5. \A c \in BookingIds : review[c] # None => review'[c] = review[c]
      BY <1>1
    <3>6. cleared \subseteq cleared'
      BY DEF rosterVars
    <3> QED
      BY <3>1, <3>2, <3>3, <3>4, <3>5, <3>6, PromiseFrame
  <2> QED
    BY <2>1, <2>2
<1>5. OneInsert'
  <2> SUFFICES ASSUME NEW p \in Requests, NEW q \in Requests,
                      AtPhase(p, "review", "ready")', AtPhase(q, "review", "ready")',
                      (txn[p].b = txn[q].b)'
               PROVE  p = q
    BY DEF OneInsert
  <2>1. p # r /\ q # r
    BY <1>1, IdleRequestType DEF AtPhase, End
  <2> QED
    BY <1>1, <2>1 DEF AtPhase, OneInsert, End
<1> QED
  BY <1>2, <1>3, <1>4, <1>5 DEF IInv

-----------------------------------------------------------------------------
(***************************************************************************)
(* The invariant holds initially: there is no booking and no request.      *)
(***************************************************************************)
LEMMA InitIInv == TxnInit => IInv
<1> SUFFICES ASSUME TxnInit PROVE IInv
  OBVIOUS
<1>1. AbsentRow \in Row /\ AbsentRow.status = "absent" /\ AbsentRow.worker_id = None
      /\ ~AbsentRow.started_at /\ ~AbsentRow.completed_at /\ ~AbsentRow.closed_at
  BY DEF AbsentRow, Row
<1>2. TxnTypeOK
  BY <1>1, IdleRequestType
     DEF TxnInit, Init, RosterInit, TablesInit, TxnTypeOK, TypeOK, RosterTypeOK
<1>3. ASSUME NEW b \in BookingIds PROVE RowInv(b)
  BY <1>1 DEF TxnInit, Init, TablesInit, RowInv, REVIEWABLE_STATUSES
<1>4. ASSUME NEW r \in Requests PROVE Promise(r) /\ txn[r].phase = "idle"
  BY IdleRequestType DEF TxnInit, Promise
<1>5. OneInsert /\ AggregateNeverInvents
  BY <1>4 DEF OneInsert, AtPhase, AggregateNeverInvents, TxnInit, Init, TablesInit
<1> QED
  BY <1>2, <1>3, <1>4, <1>5 DEF IInv

(***************************************************************************)
(* Beginning a request that has only read the booking or the profile.      *)
(***************************************************************************)
LEMMA BeginStep ==
  ASSUME IInv, NEW r \in Requests,
         NEW phase \in {"loaded", "eligible", "ready"}, NEW op \in OPERATIONS \ {"review"},
         NEW b \in BookingIds, NEW w \in WorkerIds \cup {None},
         Begin(r, op, phase, b, w),
         op \in {"assign", "claim", "complete"} => w \in WorkerIds /\ phase # "ready",
         op \in {"start_travel", "start_work"} => booking[b].accepted_at
  PROVE  IInv'
<1> DEFINE t == [IdleRequest EXCEPT !.phase = phase, !.op = op, !.b = b, !.w = w]
<1>1. t \in Request /\ t.phase = phase /\ t.op = op /\ t.b = b /\ t.w = w
  BY IdleRequestType DEF Request
<1>2. txn' = [txn EXCEPT ![r] = t] /\ UNCHANGED vars /\ UNCHANGED lock
  BY DEF Begin
<1> HIDE DEF t
<1>3. txn'[r] = t
  BY <1>2 DEF IInv, TxnTypeOK
<1>4. Promise(r)'
  BY <1>1, <1>2, <1>3 DEF Promise, vars, tableVars
<1>5. lock' \in [BookingIds -> Requests \cup {Free}]
  BY <1>2 DEF IInv, TxnTypeOK
<1> QED
  BY <1>1, <1>2, <1>4, <1>5, QuietStep

(***************************************************************************)
(* A rollback only empties the slot and releases the row locks.            *)
(***************************************************************************)
LEMMA RollbackStep ==
  ASSUME IInv, NEW r \in Requests, Rollback(r)
  PROVE  IInv'
<1>1. /\ txn' = [txn EXCEPT ![r] = IdleRequest]
      /\ lock' = [b \in BookingIds |-> IF lock[b] = r THEN Free ELSE lock[b]]
      /\ UNCHANGED vars
  BY DEF Rollback, End, Release
<1>2. lock \in [BookingIds -> Requests \cup {Free}] /\ txn \in [Requests -> Request]
  BY DEF IInv, TxnTypeOK
<1>3. Promise(r)'
  BY <1>1, <1>2, IdleRequestType DEF Promise
<1>4. lock' \in [BookingIds -> Requests \cup {Free}]
  BY <1>1, <1>2
<1>5. \A b \in BookingIds : lock'[b] = lock[b] \/ lock[b] \in {Free, r}
  BY <1>1, <1>2
<1> QED
  BY <1>1, <1>3, <1>4, <1>5, IdleRequestType, QuietStep

(***************************************************************************)
(* Every way of loading a booking keeps the invariant.                     *)
(***************************************************************************)
LEMMA LoadStep ==
  ASSUME IInv, NEW r \in Requests, Load(r)
  PROVE  IInv'
<1>1. PICK b \in BookingIds :
        \/ CancelLoad(r, b)
        \/ ReviewLoad(r, b)
        \/ \E w \in WorkerIds :
             \/ AssignLoad(r, b, w)
             \/ ClaimCheckProfile(r, b, w)
             \/ \E action \in WORKER_MOVES : ActLoad(r, b, w, action)
             \/ \E cash \in BOOLEAN : CompleteLoad(r, b, w, cash)
  BY DEF Load
<1>2. /\ booking[b] \in Row /\ RowInv(b)
      /\ txn \in [Requests -> Request]
      /\ lock \in [BookingIds -> Requests \cup {Free}]
  BY DEF IInv, TxnTypeOK, TypeOK
<1>3. CASE CancelLoad(r, b)
  BY <1>3, BeginStep DEF CancelLoad, OPERATIONS
<1>4. CASE ReviewLoad(r, b)
  <2> DEFINE t == [IdleRequest EXCEPT !.phase = "loaded", !.op = "review", !.b = b,
                                      !.w = booking[b].worker_id,
                                      !.closes = booking[b].status = "completed"]
  <2>1. /\ booking[b].worker_id \in WorkerIds
        /\ booking[b].completed_at
        /\ txn' = [txn EXCEPT ![r] = t]
        /\ UNCHANGED vars /\ UNCHANGED lock
    BY <1>2, <1>4 DEF ReviewLoad, Reviewable, Row, RowInv
  <2>2. /\ t \in Request
        /\ t.phase = "loaded" /\ t.op = "review" /\ t.b = b /\ t.w \in WorkerIds
    BY <2>1, IdleRequestType DEF Request, OPERATIONS
  <2> HIDE DEF t
  <2>3. txn'[r] = t
    BY <1>2, <2>1
  <2>4. Promise(r)'
    BY <2>1, <2>2, <2>3 DEF Promise, vars, tableVars
  <2> QED
    BY <1>2, <2>1, <2>2, <2>4, QuietStep
<1>5. ASSUME NEW w \in WorkerIds, AssignLoad(r, b, w) PROVE IInv'
  BY <1>5, BeginStep DEF AssignLoad, OPERATIONS
<1>6. ASSUME NEW w \in WorkerIds, ClaimCheckProfile(r, b, w) PROVE IInv'
  BY <1>6, BeginStep DEF ClaimCheckProfile, OPERATIONS
<1>7. ASSUME NEW w \in WorkerIds, NEW action \in WORKER_MOVES, ActLoad(r, b, w, action)
      PROVE  IInv'
  <2>1. action \in OPERATIONS \ {"review", "assign", "claim", "complete"}
    BY DEF OPERATIONS, WORKER_MOVES
  <2>2. action \in {"start_travel", "start_work"} => booking[b].accepted_at
    BY <1>2, <1>7 DEF ActLoad, MayMove, Allowed, BOOKING_TRANSITIONS, RowInv
  <2> QED
    BY <1>7, <2>1, <2>2, BeginStep DEF ActLoad
<1>8. ASSUME NEW w \in WorkerIds, NEW cash \in BOOLEAN, CompleteLoad(r, b, w, cash)
      PROVE  IInv'
  <2> DEFINE settled == IsSettled(payment[b], cash)
             t == [IdleRequest EXCEPT !.phase = "ready", !.op = "complete", !.b = b,
                                      !.w = w, !.closes = settled, !.cash = cash,
                                      !.jobs = jobs_completed[w]]
  <2>1. /\ booking[b].started_at
        /\ txn' = [txn EXCEPT ![r] = t]
        /\ UNCHANGED vars /\ UNCHANGED lock
    BY <1>2, <1>8 DEF CompleteLoad, MayMove, Allowed, BOOKING_TRANSITIONS, RowInv
  <2>2. settled \in BOOLEAN /\ jobs_completed[w] \in Nat
    BY DEF IInv, TxnTypeOK, TypeOK, IsSettled
  <2>3. /\ t \in Request
        /\ t.phase = "ready" /\ t.op = "complete" /\ t.b = b /\ t.w = w
    BY <2>2, IdleRequestType DEF Request, OPERATIONS
  <2> HIDE DEF t
  <2>4. txn'[r] = t
    BY <1>2, <2>1
  <2>5. Promise(r)'
    BY <2>1, <2>3, <2>4 DEF Promise, vars, tableVars
  <2> QED
    BY <1>2, <2>1, <2>3, <2>5, QuietStep
<1> QED
  BY <1>1, <1>3, <1>4, <1>5, <1>6, <1>7, <1>8

(***************************************************************************)
(* The later reads: the roster for an assignment, the review's insert.     *)
(***************************************************************************)
LEMMA CheckStep ==
  ASSUME IInv, NEW r \in Requests, Check(r)
  PROVE  IInv'
<1>1. /\ txn \in [Requests -> Request]
      /\ txn[r] \in Request /\ txn[r].b \in BookingIds
      /\ lock \in [BookingIds -> Requests \cup {Free}]
      /\ Promise(r)
  BY DEF IInv, TxnTypeOK, Request
<1>2. CASE AssignCheckRoster(r)
  <2>1. CASE IsAssignable(txn[r].w) /\ MayTake(txn[r].w, txn[r].b)
    <3> DEFINE t == [txn[r] EXCEPT !.phase = "ready"]
    <3>1. /\ txn' = [txn EXCEPT ![r] = t]
          /\ UNCHANGED vars /\ UNCHANGED lock
      BY <1>1, <1>2, <2>1 DEF AssignCheckRoster
    <3>2. /\ t \in Request
          /\ t.phase = "ready" /\ t.op = "assign" /\ t.b = txn[r].b /\ t.w = txn[r].w
          /\ t.w \in WorkerIds
      BY <1>1, <1>2 DEF AssignCheckRoster, AtPhase, Promise, Request
    <3> HIDE DEF t
    <3>3. txn'[r] = t
      BY <1>1, <3>1
    <3>4. Promise(r)'
      BY <2>1, <3>1, <3>2, <3>3 DEF Promise, MayTake, vars, rosterVars
    <3> QED
      BY <1>1, <3>1, <3>2, <3>4, QuietStep
  <2>2. CASE ~(IsAssignable(txn[r].w) /\ MayTake(txn[r].w, txn[r].b))
    BY <1>2, <2>2, RollbackStep DEF AssignCheckRoster
  <2> QED
    BY <2>1, <2>2
<1>3. CASE ReviewInsert(r)
  <2>1. CASE NotYetReviewed(r)
    <3> DEFINE t == [[txn[r] EXCEPT !.phase = "ready"]
                        EXCEPT !.stats = Recomputed(txn[r].b, txn[r].w)]
    <3>1. /\ txn' = [txn EXCEPT ![r] = t]
          /\ UNCHANGED vars /\ UNCHANGED lock
      BY <1>1, <1>3, <2>1 DEF ReviewInsert
    <3>2. Recomputed(txn[r].b, txn[r].w) \subseteq BookingIds
      BY <1>1 DEF Recomputed, Reviews
    <3>3. /\ t \in Request
          /\ t.phase = "ready" /\ t.op = "review" /\ t.b = txn[r].b /\ t.w = txn[r].w
          /\ t.stats = Recomputed(txn[r].b, txn[r].w)
          /\ t.w \in WorkerIds /\ booking[t.b].completed_at
      BY <1>1, <1>3, <3>2 DEF ReviewInsert, AtPhase, Promise, Request
    <3> HIDE DEF t
    <3>4. txn'[r] = t
      BY <1>1, <3>1
    <3>5. Promise(r)'
      BY <2>1, <3>1, <3>3, <3>4 DEF Promise, NotYetReviewed, Recomputed, Reviews, vars, tableVars
    <3>6. \A q \in Requests \ {r} : ~(AtPhase(q, "review", "ready") /\ txn[q].b = t.b)
      BY <1>3, <3>3 DEF ReviewInsert, SlotFree
    <3> QED
      BY <1>1, <3>1, <3>3, <3>5, <3>6, QuietStep
  <2>2. CASE ~NotYetReviewed(r)
    BY <1>3, <2>2, RollbackStep DEF ReviewInsert
  <2> QED
    BY <2>1, <2>2
<1> QED
  BY <1>2, <1>3 DEF Check

(***************************************************************************)
(* A claim's turn at the row lock: it takes the lock, or it is refused.    *)
(***************************************************************************)
LEMMA TurnStep ==
  ASSUME IInv, NEW r \in Requests, TakeTurn(r)
  PROVE  IInv'
<1>1. /\ txn \in [Requests -> Request]
      /\ txn[r] \in Request /\ txn[r].b \in BookingIds
      /\ lock \in [BookingIds -> Requests \cup {Free}]
      /\ Promise(r)
  BY DEF IInv, TxnTypeOK, Request
<1>2. CASE ClaimLock(r)
  <2> DEFINE t == [txn[r] EXCEPT !.phase = "ready"]
  <2>1. /\ txn' = [txn EXCEPT ![r] = t]
        /\ lock[txn[r].b] = Free /\ lock' = [lock EXCEPT ![txn[r].b] = r]
        /\ Open(booking[txn[r].b]) /\ MayTake(txn[r].w, txn[r].b)
        /\ UNCHANGED vars
    BY <1>1, <1>2 DEF ClaimLock, LockRow
  <2>2. /\ t \in Request
        /\ t.phase = "ready" /\ t.op = "claim" /\ t.b = txn[r].b /\ t.w = txn[r].w
        /\ t.w \in WorkerIds
    BY <1>1, <1>2 DEF ClaimLock, AtPhase, Promise, Request
  <2> HIDE DEF t
  <2>3. txn'[r] = t
    BY <1>1, <2>1
  <2>4. /\ lock' \in [BookingIds -> Requests \cup {Free}]
        /\ lock'[txn[r].b] = r
        /\ \A b \in BookingIds : lock'[b] = lock[b] \/ lock[b] \in {Free, r}
    BY <1>1, <2>1
  <2>5. Promise(r)'
    BY <2>1, <2>2, <2>3, <2>4 DEF Promise, MayTake, Open, vars, rosterVars, tableVars
  <2> QED
    BY <2>1, <2>2, <2>4, <2>5, QuietStep
<1>3. CASE ClaimRefused(r)
  BY <1>3, RollbackStep DEF ClaimRefused
<1> QED
  BY <1>2, <1>3 DEF TakeTurn

-----------------------------------------------------------------------------
(***************************************************************************)
(* Commits.  A worker is put on the row.                                   *)
(***************************************************************************)
LEMMA CommitAttachStep ==
  ASSUME IInv, NEW r \in Requests, NEW op \in {"assign", "claim"}, CommitAttach(r, op)
  PROVE  IInv'
<1>b. PICK b \in BookingIds : b = txn[r].b
  BY DEF IInv, TxnTypeOK, Request
<1>row. PICK row : row = Attach(booking[b], txn[r].w, op)
  OBVIOUS
<1>1. /\ txn[r] \in Request
      /\ booking \in [BookingIds -> Row] /\ booking[b] \in Row
      /\ RowInv(b) /\ Promise(r) /\ TypeOK /\ AggregateNeverInvents
  BY <1>b DEF IInv, TxnTypeOK, TypeOK, Request
<1>2. /\ ~Idle(r) /\ MayUpdate(r) /\ End(r)
      /\ booking' = [booking EXCEPT ![b] = row]
      /\ UNCHANGED <<rosterVars, payment, review, jobs_completed, rated>>
  BY <1>1, <1>b, <1>row DEF CommitAttach, Ready, AtPhase, Idle
<1>3. txn[r].w \in WorkerIds /\ MayTake(txn[r].w, b)
  BY <1>1, <1>b, <1>row DEF CommitAttach, Ready, AtPhase, Promise
<1>4. /\ row \in Row
      /\ row.status = BOOKING_TRANSITIONS[op].to
      /\ row.worker_id = txn[r].w
      /\ row.assigned_at
      /\ row.accepted_at <=> booking[b].accepted_at \/ op = "claim"
      /\ row.started_at <=> booking[b].started_at
      /\ row.completed_at <=> booking[b].completed_at
      /\ row.closed_at <=> booking[b].closed_at
  BY <1>1, <1>3, <1>row, AttachColumns
<1>5. row.status = IF op = "assign" THEN "assigned" ELSE "accepted"
  BY <1>4 DEF BOOKING_TRANSITIONS
<1>6. TypeOK'
  BY <1>1, <1>2, <1>4 DEF TypeOK, RosterTypeOK, rosterVars
<1>7. booking'[b] = row
  BY <1>1, <1>2
<1>8. <<txn[r].w, ServiceOf[b]>> \in cleared'
  BY <1>2, <1>3 DEF MayTake, rosterVars
<1>9. RowInv(b)'
  BY <1>1, <1>2, <1>3, <1>4, <1>5, <1>7, <1>8, NoneAssumption
     DEF RowInv, REVIEWABLE_STATUSES
<1>10. AggregateNeverInvents'
  BY <1>1, <1>2 DEF AggregateNeverInvents, Reviews
<1>11. /\ booking[b].accepted_at => row.accepted_at
       /\ booking[b].started_at => row.started_at
       /\ booking[b].completed_at => row.completed_at
       /\ \A c \in BookingIds \ {b} : payment'[c] = payment[c] /\ review'[c] = review[c]
       /\ \/ review'[b] = review[b]
          \/ AtPhase(r, "review", "ready") /\ review[b] = None
       /\ row \in Row /\ UNCHANGED rosterVars
  BY <1>2, <1>4
<1> QED
  BY <1>2, <1>6, <1>9, <1>10, <1>11, <1>b, CommitStep

(***************************************************************************)
(* A worker's move, or a cancellation.                                     *)
(***************************************************************************)
LEMMA CommitMoveStep ==
  ASSUME IInv, NEW r \in Requests, NEW op \in WORKER_MOVES \cup {"cancel"}, CommitMove(r, op)
  PROVE  IInv'
<1>b. PICK b \in BookingIds : b = txn[r].b
  BY DEF IInv, TxnTypeOK, Request
<1>row. PICK row : row = Transition(booking[b], op)
  OBVIOUS
<1>1. /\ txn[r] \in Request
      /\ booking \in [BookingIds -> Row] /\ booking[b] \in Row
      /\ RowInv(b) /\ Promise(r) /\ TypeOK /\ AggregateNeverInvents
  BY <1>b DEF IInv, TxnTypeOK, TypeOK, Request
<1>2. /\ ~Idle(r) /\ MayUpdate(r) /\ End(r)
      /\ booking' = [booking EXCEPT ![b] = row]
      /\ UNCHANGED <<rosterVars, payment, review, jobs_completed, rated>>
  BY <1>1, <1>b, <1>row DEF CommitMove, Ready, AtPhase, Idle
<1>3. /\ op \in MOVES
      /\ op \in {"accept", "reject", "start_travel", "start_work", "cancel"}
  BY DEF MOVES, WORKER_MOVES
<1>4. /\ row \in Row
      /\ row.status = BOOKING_TRANSITIONS[op].to
      /\ row.worker_id = IF op = "reject" THEN None ELSE booking[b].worker_id
      /\ row.assigned_at <=> booking[b].assigned_at /\ op # "reject"
      /\ row.accepted_at <=> booking[b].accepted_at \/ op = "accept"
      /\ row.started_at <=> booking[b].started_at \/ op = "start_work"
      /\ row.completed_at <=> booking[b].completed_at
      /\ row.closed_at <=> booking[b].closed_at
  BY <1>1, <1>3, <1>row, TransitionColumns
<1>5. /\ op = "accept" => row.status = "accepted"
      /\ op = "reject" => row.status = "pending"
      /\ op = "start_travel" => row.status = "en_route"
      /\ op = "start_work" => row.status = "in_progress"
      /\ op = "cancel" => row.status = "cancelled"
  BY <1>4 DEF BOOKING_TRANSITIONS
<1>6. op \in {"start_travel", "start_work"} => booking[b].accepted_at
  BY <1>1, <1>b, <1>row DEF CommitMove, Ready, AtPhase, Promise
<1>7. TypeOK'
  BY <1>1, <1>2, <1>4 DEF TypeOK, RosterTypeOK, rosterVars
<1>8. booking'[b] = row
  BY <1>1, <1>2
<1>9. RowInv(b)'
  BY <1>1, <1>2, <1>3, <1>4, <1>5, <1>6, <1>8 DEF RowInv, REVIEWABLE_STATUSES, rosterVars
<1>10. AggregateNeverInvents'
  BY <1>1, <1>2 DEF AggregateNeverInvents, Reviews
<1>11. /\ booking[b].accepted_at => row.accepted_at
       /\ booking[b].started_at => row.started_at
       /\ booking[b].completed_at => row.completed_at
       /\ \A c \in BookingIds \ {b} : payment'[c] = payment[c] /\ review'[c] = review[c]
       /\ \/ review'[b] = review[b]
          \/ AtPhase(r, "review", "ready") /\ review[b] = None
       /\ row \in Row /\ UNCHANGED rosterVars
  BY <1>2, <1>4
<1> QED
  BY <1>2, <1>7, <1>9, <1>10, <1>11, <1>b, CommitStep

(***************************************************************************)
(* The job is finished: the booking, its payment and the worker's counter. *)
(***************************************************************************)
LEMMA CommitCompleteStep ==
  ASSUME IInv, NEW r \in Requests, CommitComplete(r)
  PROVE  IInv'
<1>b. PICK b \in BookingIds : b = txn[r].b
  BY DEF IInv, TxnTypeOK, Request
<1>row. PICK row : row = Finish(booking[b], txn[r].closes)
  OBVIOUS
<1>1. /\ txn[r] \in Request
      /\ txn[r].closes \in BOOLEAN /\ txn[r].jobs \in Nat
      /\ booking \in [BookingIds -> Row] /\ booking[b] \in Row
      /\ RowInv(b) /\ Promise(r) /\ TypeOK /\ AggregateNeverInvents
  BY <1>b DEF IInv, TxnTypeOK, TypeOK, Request
<1>2. /\ ~Idle(r) /\ MayUpdate(r) /\ End(r)
      /\ booking' = [booking EXCEPT ![b] = row]
      /\ payment' = [payment EXCEPT ![b] = IF txn[r].cash THEN "paid" ELSE @]
      /\ jobs_completed' = [jobs_completed EXCEPT ![txn[r].w] = txn[r].jobs + 1]
      /\ UNCHANGED <<rosterVars, review, rated>>
  BY <1>1, <1>b, <1>row DEF CommitComplete, Ready, AtPhase, Idle
<1>3. booking[b].started_at /\ txn[r].w \in WorkerIds
  BY <1>1, <1>b, <1>row DEF CommitComplete, Ready, AtPhase, Promise
<1>4. /\ row \in Row
      /\ row.status \in REVIEWABLE_STATUSES
      /\ row.worker_id = booking[b].worker_id
      /\ row.accepted_at <=> booking[b].accepted_at
      /\ row.started_at <=> booking[b].started_at
      /\ row.completed_at
  BY <1>1, <1>row, FinishColumns DEF REVIEWABLE_STATUSES
<1>5. TypeOK'
  <2>1. booking' \in [BookingIds -> Row]
    BY <1>1, <1>2, <1>4
  <2>2. payment' \in [BookingIds -> {"pending", "paid"}]
    BY <1>1, <1>2 DEF TypeOK
  <2>3. jobs_completed' \in [WorkerIds -> Nat]
    BY <1>1, <1>2, <1>3 DEF TypeOK
  <2> QED
    BY <1>1, <1>2, <2>1, <2>2, <2>3 DEF TypeOK, RosterTypeOK, rosterVars
<1>6. booking'[b] = row
  BY <1>1, <1>2
<1>7. \A c \in BookingIds \ {b} : payment'[c] = payment[c]
  BY <1>1, <1>2 DEF TypeOK
<1>8. RowInv(b)'
  BY <1>1, <1>2, <1>3, <1>4, <1>6 DEF RowInv, REVIEWABLE_STATUSES, rosterVars
<1>9. AggregateNeverInvents'
  BY <1>1, <1>2 DEF AggregateNeverInvents, Reviews
<1>10. /\ booking[b].accepted_at => row.accepted_at
       /\ booking[b].started_at => row.started_at
       /\ booking[b].completed_at => row.completed_at
       /\ \A c \in BookingIds \ {b} : payment'[c] = payment[c] /\ review'[c] = review[c]
       /\ \/ review'[b] = review[b]
          \/ AtPhase(r, "review", "ready") /\ review[b] = None
       /\ row \in Row /\ UNCHANGED rosterVars
  BY <1>2, <1>3, <1>4, <1>7
<1> QED
  BY <1>2, <1>5, <1>8, <1>9, <1>10, <1>b, CommitStep

(***************************************************************************)
(* A rating: the review, the worker's aggregate, and unpaid work closed.   *)
(***************************************************************************)
LEMMA CommitReviewStep ==
  ASSUME IInv, NEW r \in Requests, CommitReview(r)
  PROVE  IInv'
<1>b. PICK b \in BookingIds : b = txn[r].b
  BY DEF IInv, TxnTypeOK, Request
<1>w. PICK w \in WorkerIds : w = txn[r].w
  BY DEF IInv, Promise, CommitReview, Ready, AtPhase
<1>row. PICK row : row = IF txn[r].closes THEN Transition(booking[b], "close")
                                          ELSE booking[b]
  OBVIOUS
<1>1. /\ txn[r] \in Request
      /\ booking \in [BookingIds -> Row] /\ booking[b] \in Row
      /\ RowInv(b) /\ Promise(r) /\ TypeOK /\ AggregateNeverInvents
  BY <1>b DEF IInv, TxnTypeOK, TypeOK, Request
<1>2. /\ ~Idle(r) /\ MayUpdate(r) /\ End(r) /\ AtPhase(r, "review", "ready")
      /\ booking' = [booking EXCEPT ![b] = row]
      /\ review' = [review EXCEPT ![b] = w]
      /\ rated' = [rated EXCEPT ![w] = txn[r].stats]
      /\ UNCHANGED <<rosterVars, payment, jobs_completed>>
  BY <1>1, <1>b, <1>w, <1>row DEF CommitReview, Ready, AtPhase, Idle
<1>3. /\ booking[b].completed_at
      /\ review[b] = None
      /\ txn[r].stats \subseteq Reviews(w) \cup {b}
  BY <1>1, <1>b, <1>w DEF CommitReview, Ready, AtPhase, Promise
<1>4. /\ row \in Row
      /\ row.status = booking[b].status \/ row.status \in REVIEWABLE_STATUSES
      /\ row.worker_id = booking[b].worker_id
      /\ row.assigned_at <=> booking[b].assigned_at
      /\ row.accepted_at <=> booking[b].accepted_at
      /\ row.started_at <=> booking[b].started_at
      /\ row.completed_at
  BY <1>1, <1>3, <1>row, TransitionColumns DEF MOVES, BOOKING_TRANSITIONS, REVIEWABLE_STATUSES
<1>5. TypeOK'
  <2>1. booking' \in [BookingIds -> Row]
    BY <1>1, <1>2, <1>4
  <2>2. review' \in [BookingIds -> WorkerIds \cup {None}]
    BY <1>1, <1>2 DEF TypeOK
  <2>3. rated' \in [WorkerIds -> SUBSET BookingIds]
    BY <1>1, <1>2 DEF TypeOK, Request
  <2> QED
    BY <1>1, <1>2, <2>1, <2>2, <2>3 DEF TypeOK, RosterTypeOK, rosterVars
<1>6. booking'[b] = row
  BY <1>1, <1>2
<1>7. RowInv(b)'
  BY <1>1, <1>2, <1>3, <1>4, <1>6 DEF RowInv, REVIEWABLE_STATUSES, rosterVars
<1>8. AggregateNeverInvents'
  <2> SUFFICES ASSUME NEW v \in WorkerIds PROVE rated'[v] \subseteq Reviews(v)'
    BY DEF AggregateNeverInvents
  <2>1. Reviews(v) \subseteq Reviews(v)'
    BY <1>1, <1>2, <1>3, NoneAssumption DEF Reviews, TypeOK
  <2>2. CASE v = w
    <3>1. b \in Reviews(v)'
      BY <1>1, <1>2, <2>2 DEF Reviews, TypeOK
    <3>2. rated'[v] = txn[r].stats
      BY <1>1, <1>2, <2>2 DEF TypeOK
    <3> QED
      BY <1>3, <2>1, <2>2, <3>1, <3>2
  <2>3. CASE v # w
    <3>1. rated'[v] = rated[v]
      BY <1>1, <1>2, <2>3 DEF TypeOK
    <3> QED
      BY <1>1, <2>1, <3>1 DEF AggregateNeverInvents
  <2> QED
    BY <2>2, <2>3
<1>9. \A c \in BookingIds \ {b} : payment'[c] = payment[c] /\ review'[c] = review[c]
  BY <1>1, <1>2 DEF TypeOK
<1> QED
  BY <1>1, <1>2, <1>3, <1>4, <1>5, <1>7, <1>8, <1>9, <1>b, CommitStep

LEMMA AllCommitsStep ==
  ASSUME IInv, NEW r \in Requests, Commit(r)
  PROVE  IInv'
BY CommitAttachStep, CommitMoveStep, CommitCompleteStep, CommitReviewStep DEF Commit

-----------------------------------------------------------------------------
(***************************************************************************)
(* A new booking appears, which no request can have promised anything of.  *)
(***************************************************************************)
LEMMA CreateStep ==
  ASSUME IInv, CreateOne
  PROVE  IInv'
<1>1. PICK b \in BookingIds :
        /\ booking[b] = AbsentRow
        /\ booking' = [booking EXCEPT ![b] = NewRow]
        /\ UNCHANGED <<rosterVars, payment, review, jobs_completed, rated, txn, lock>>
  BY DEF CreateOne, CreateBooking, txnVars
<1>2. /\ booking \in [BookingIds -> Row] /\ TxnTypeOK /\ RowInv(b)
      /\ txn \in [Requests -> Request]
  BY DEF IInv, TxnTypeOK, TypeOK
<1>3. /\ AbsentRow.status = "absent"
      /\ ~AbsentRow.completed_at /\ ~AbsentRow.started_at /\ ~AbsentRow.accepted_at
  BY DEF AbsentRow
<1>4. /\ NewRow \in Row /\ NewRow.status = "pending" /\ NewRow.worker_id = None
      /\ ~NewRow.assigned_at /\ ~NewRow.accepted_at /\ ~NewRow.started_at
      /\ ~NewRow.completed_at /\ ~NewRow.closed_at
  BY DEF NewRow, AbsentRow, Row, BookingStatus
<1>5. TxnTypeOK'
  BY <1>1, <1>2, <1>4 DEF TxnTypeOK, TypeOK, RosterTypeOK, rosterVars
<1>6. ASSUME NEW c \in BookingIds PROVE RowInv(c)'
  <2>1. CASE c = b
    <3>1. booking'[b] = NewRow
      BY <1>1, <1>2
    <3>2. payment[b] # "paid" /\ review[b] = None
      BY <1>1, <1>2, <1>3 DEF RowInv
    <3> QED
      BY <1>1, <1>4, <2>1, <3>1, <3>2 DEF RowInv, REVIEWABLE_STATUSES
  <2>2. CASE c # b
    <3>1. booking'[c] = booking[c]
      BY <1>1, <1>2, <2>2
    <3> QED
      BY <1>1, <3>1 DEF IInv, RowInv, rosterVars
  <2> QED
    BY <2>1, <2>2
<1>7. ASSUME NEW q \in Requests PROVE Promise(q)'
  <2>1. txn[q] \in Request /\ txn[q].b \in BookingIds /\ Promise(q)
    BY <1>2 DEF IInv, Request
  <2>2. CASE txn[q].b = b
    <3>1. ~AtPhase(q, "claim", "ready")
      BY <1>1, <1>3, <2>1, <2>2 DEF Promise, AtPhase, Open
    <3> QED
      BY <1>1, <1>3, <2>2, <3>1, PromiseFrame DEF rosterVars
  <2>3. CASE txn[q].b # b
    <3>1. booking'[txn[q].b] = booking[txn[q].b]
      BY <1>1, <1>2, <2>1, <2>3
    <3> QED
      BY <1>1, <3>1, PromiseFrame DEF rosterVars
  <2> QED
    BY <2>2, <2>3
<1>8. OneInsert' /\ AggregateNeverInvents'
  BY <1>1 DEF IInv, OneInsert, AtPhase, AggregateNeverInvents, Reviews
<1> QED
  BY <1>5, <1>6, <1>7, <1>8 DEF IInv

(***************************************************************************)
(* The roster changes under the requests in flight.  Clearances only grow. *)
(***************************************************************************)
LEMMA RosterStep ==
  ASSUME IInv, ChangeRoster
  PROVE  IInv'
<1>1. RosterTypeOK /\ TxnTypeOK
  BY DEF IInv, TxnTypeOK, TypeOK
<1>2. UNCHANGED <<booking, payment, review, jobs_completed, rated, txn, lock>>
  BY DEF ChangeRoster, tableVars, txnVars
<1>3. RosterTypeOK' /\ cleared \subseteq cleared'
  BY <1>1 DEF ChangeRoster, RosterNext, VerifyWorker, UpdateAvailability, ClearFor, RosterTypeOK
<1>4. TxnTypeOK'
  BY <1>1, <1>2, <1>3 DEF TxnTypeOK, TypeOK
<1>5. \A b \in BookingIds : RowInv(b)'
  BY <1>2, <1>3 DEF IInv, RowInv
<1>6. \A q \in Requests : Promise(q)'
  BY <1>2, <1>3, PromiseFrame
<1>7. OneInsert' /\ AggregateNeverInvents'
  BY <1>2 DEF IInv, OneInsert, AtPhase, AggregateNeverInvents, Reviews
<1> QED
  BY <1>4, <1>5, <1>6, <1>7 DEF IInv

(***************************************************************************)
(* Every step of the server keeps the invariant.                           *)
(***************************************************************************)
LEMMA NextIInv ==
  ASSUME IInv, [TxnNext]_allVars
  PROVE  IInv'
<1>1. CASE UNCHANGED allVars
  BY <1>1 DEF IInv, TxnTypeOK, TypeOK, RosterTypeOK, RowInv, Promise, OneInsert, AtPhase,
              AggregateNeverInvents, Reviews, MayTake, Open,
              allVars, vars, rosterVars, tableVars, txnVars
<1>2. ASSUME NEW r \in Requests, Load(r) PROVE IInv'
  BY <1>2, LoadStep
<1>3. ASSUME NEW r \in Requests, Check(r) PROVE IInv'
  BY <1>3, CheckStep
<1>4. ASSUME NEW r \in Requests, TakeTurn(r) PROVE IInv'
  BY <1>4, TurnStep
<1>5. ASSUME NEW r \in Requests, Commit(r) PROVE IInv'
  BY <1>5, AllCommitsStep
<1>6. ASSUME NEW r \in Requests, Abort(r) PROVE IInv'
  BY <1>6, RollbackStep DEF Abort
<1>7. CASE CreateOne
  BY <1>7, CreateStep
<1>8. CASE ChangeRoster
  BY <1>8, RosterStep
<1> QED
  BY <1>1, <1>2, <1>3, <1>4, <1>5, <1>6, <1>7, <1>8 DEF TxnNext

LEMMA Invariance == TxnSpec => []IInv
<1>1. TxnInit => IInv
  BY InitIInv
<1>2. IInv /\ [TxnNext]_allVars => IInv'
  BY NextIInv
<1> QED
  BY <1>1, <1>2, PTL DEF TxnSpec

-----------------------------------------------------------------------------
(***************************************************************************)
(* The tables, the requests and the locks are always well typed.           *)
(***************************************************************************)
THEOREM TypeCorrect == TxnSpec => []TxnTypeOK
<1>1. IInv => TxnTypeOK
  BY DEF IInv
<1> QED
  BY <1>1, Invariance, PTL

(***************************************************************************)
(* The row lock of claim_booking works: a claim that has passed its check  *)
(* holds the lock of a job that is open, until it commits.                 *)
(***************************************************************************)
THEOREM ClaimsAreExclusive == TxnSpec => []ClaimHoldsOpenJob
<1>1. IInv => ClaimHoldsOpenJob
  BY DEF IInv, Promise, ClaimHoldsOpenJob, AtPhase
<1> QED
  BY <1>1, Invariance, PTL

(***************************************************************************)
(* Whatever stale requests commit, a pending job has nobody on it and an   *)
(* offer has somebody.                                                     *)
(***************************************************************************)
THEOREM OffersAreCoherent == TxnSpec => []OfferIsCoherent
<1>1. IInv => OfferIsCoherent
  BY DEF IInv, RowInv, OfferIsCoherent
<1> QED
  BY <1>1, Invariance, PTL

(***************************************************************************)
(* Whatever stale requests commit, closing leaves the trace of completion, *)
(* completion that of a start and a start that of an acceptance; money and *)
(* ratings are there only for completed work.                              *)
(***************************************************************************)
THEOREM EvidenceInOrder == TxnSpec => []WorkLeavesTraces
<1>1. IInv => WorkLeavesTraces
  BY DEF IInv, RowInv, WorkLeavesTraces
<1> QED
  BY <1>1, Invariance, PTL

(***************************************************************************)
(* Nobody is ever on a job of a trade they are not cleared for.            *)
(***************************************************************************)
THEOREM DispatchIsCleared == TxnSpec => []OnlyClearedWorkers
<1>1. IInv => OnlyClearedWorkers
  BY DEF IInv, RowInv, OnlyClearedWorkers
<1> QED
  BY <1>1, Invariance, PTL

(***************************************************************************)
(* A stored aggregate never counts a rating that was not committed.        *)
(***************************************************************************)
THEOREM AggregatesAreHonest == TxnSpec => []AggregateNeverInvents
<1>1. IInv => AggregateNeverInvents
  BY DEF IInv
<1> QED
  BY <1>1, Invariance, PTL

(***************************************************************************)
(* A committed rating is never replaced.  Only CommitReview writes one,    *)
(* and its request has promised that there is none yet.                    *)
(***************************************************************************)
THEOREM RatingsAreOnce == TxnSpec => RatedOnce
<1> DEFINE Kept == \A b \in BookingIds : review[b] # None => review'[b] = review[b]
<1>1. ASSUME IInv, [TxnNext]_allVars PROVE Kept
  <2>1. CASE UNCHANGED review
    BY <2>1
  <2>2. ASSUME NEW r \in Requests, CommitReview(r) PROVE Kept
    <3>1. review[txn[r].b] = None
      BY <1>1, <2>2 DEF IInv, Promise, CommitReview, Ready, AtPhase
    <3>2. review \in [BookingIds -> WorkerIds \cup {None}]
      BY <1>1 DEF IInv, TxnTypeOK, TypeOK
    <3>3. review' = [review EXCEPT ![txn[r].b] = txn[r].w]
      BY <2>2 DEF CommitReview
    <3> QED
      BY <3>1, <3>2, <3>3
  <2>3. ASSUME NEW r \in Requests, Load(r) PROVE UNCHANGED review
    BY <2>3 DEF Load, CancelLoad, ReviewLoad, AssignLoad, ClaimCheckProfile, ActLoad,
                CompleteLoad, Begin, vars, tableVars
  <2>4. ASSUME NEW r \in Requests, Check(r) \/ TakeTurn(r) \/ Abort(r) PROVE UNCHANGED review
    BY <2>4 DEF Check, AssignCheckRoster, ReviewInsert, TakeTurn, ClaimLock, ClaimRefused,
                Abort, Rollback, vars, tableVars
  <2>5. ASSUME NEW r \in Requests, Commit(r) PROVE UNCHANGED review \/ CommitReview(r)
    BY <2>5 DEF Commit, CommitAttach, CommitMove, CommitComplete
  <2>6. CreateOne \/ ChangeRoster \/ UNCHANGED allVars => UNCHANGED review
    BY DEF CreateOne, CreateBooking, ChangeRoster, allVars, vars, tableVars
  <2> HIDE DEF Kept
  <2> QED
    BY <1>1, <2>1, <2>2, <2>3, <2>4, <2>5, <2>6 DEF TxnNext
<1> HIDE DEF Kept
<1>2. TxnSpec => [][Kept]_allVars
  BY <1>1, Invariance, PTL DEF TxnSpec
<1> QED
  BY <1>2 DEF RatedOnce, Kept

-----------------------------------------------------------------------------
(***************************************************************************)
(* The refinement.  Where only operations overlap that are safe with each  *)
(* other, the server behaves as Bookings, where an operation happens at    *)
(* once: what a request has read is still true when it commits.            *)
(*                                                                         *)
(* Two operations are safe together when the commit of one leaves the      *)
(* guard of the other true, or makes what the other will write void.  A    *)
(* claim is safe because it locks its row; a move with itself because the  *)
(* second finds the columns as it sets them; a rejection and a later move  *)
(* because no row is in a status for both.  Two ratings are safe together  *)
(* only if they are of the same booking: for different jobs of one worker, *)
(* each computes the aggregate without the other.                          *)
(***************************************************************************)
SafePairs ==
  {{op} : op \in {"claim", "accept", "reject", "start_travel", "start_work",
                  "cancel", "roster", "review"}}
  \cup {{"claim", op} : op \in {"accept", "start_travel", "start_work", "cancel"}}
  \cup {{"reject", op} : op \in {"start_travel", "start_work"}}
  \cup {{"roster", op} : op \in WORKER_MOVES \cup {"cancel"}}
  \cup {{"review", op} : op \in WORKER_MOVES \cup {"claim", "cancel", "roster"}}

SafeOverlap ==
  /\ \A p, q \in Overlapping : {p, q} \in SafePairs
  /\ "review" \in Overlapping => \A b, c \in BookingIds : b = c

Exclusive ==
  \A r, q \in Requests :
     r # q /\ ~Idle(r) /\ ~Idle(q) => {txn[r].op, txn[q].op} \subseteq Overlapping

\* The move has been made already: to make it again changes nothing.
Made(row, action) == Transition(row, action) = row

\* What the request has read and decided is true of the tables as they are.
Fresh(t) ==
  LET row == booking[t.b] IN
    /\ t.phase \in {"loaded", "ready"} /\ t.op = "assign" => Allowed("assign", row.status)
    /\ t.phase = "ready" /\ t.op = "assign" => IsAssignable(t.w)
    /\ t.phase # "idle" /\ t.op = "claim" => IsAssignable(t.w)
    /\ t.phase = "ready" /\ t.op \in WORKER_MOVES
         => (t.w \in WorkerIds /\ MayMove(row, t.w, t.op)) \/ Made(row, t.op)
    /\ t.phase = "ready" /\ t.op = "complete"
         => /\ t.w \in WorkerIds /\ MayMove(row, t.w, t.op)
            /\ t.closes = IsSettled(payment[t.b], t.cash) /\ t.jobs = jobs_completed[t.w]
    /\ t.phase = "ready" /\ t.op = "cancel"
         => Allowed("cancel", row.status) \/ Made(row, "cancel")
    /\ t.phase # "idle" /\ t.op = "review"
         => /\ Reviewable(row) /\ t.w = row.worker_id
            /\ review[t.b] = None => t.closes = (row.status = "completed")
    /\ t.phase = "ready" /\ t.op = "review" => t.stats = Recomputed(t.b, t.w)

Serial == Exclusive /\ (\A r \in Requests : Fresh(txn[r])) /\ BooksInv

-----------------------------------------------------------------------------
(***************************************************************************)
(* A move by a worker, or a cancellation, that is made twice is void the   *)
(* second time.                                                            *)
(***************************************************************************)
LEMMA MovesAreIdempotent ==
  ASSUME NEW row \in Row, NEW action \in WORKER_MOVES \cup {"cancel"}
  PROVE  Made(Transition(row, action), action)
BY DEF Made, Transition, Row, WORKER_MOVES, WorkerAfter, AssignedAfter

(***************************************************************************)
(* Where a row can be while such a request is about to commit.             *)
(***************************************************************************)
LEMMA WhereItCanBe ==
  ASSUME NEW t, Fresh(t), t.phase = "ready"
  PROVE  LET status == booking[t.b].status IN
           /\ t.op = "accept" => status \in {"assigned", "accepted"}
           /\ t.op = "reject" => status \in {"assigned", "pending"}
           /\ t.op = "start_travel" => status \in {"accepted", "en_route"}
           /\ t.op = "start_work" => status \in {"accepted", "en_route", "in_progress"}
           /\ t.op = "cancel" => status \in {"pending", "assigned", "accepted",
                                              "en_route", "cancelled"}
<1>1. ASSUME NEW action, Made(booking[t.b], action)
      PROVE  booking[t.b].status = BOOKING_TRANSITIONS[action].to
  BY <1>1 DEF Made, Transition
<1>2. t.op \in WORKER_MOVES \cup {"cancel"} =>
         \/ Allowed(t.op, booking[t.b].status)
         \/ booking[t.b].status = BOOKING_TRANSITIONS[t.op].to
  BY <1>1 DEF Fresh, MayMove
<1> QED
  BY <1>2 DEF Allowed, BOOKING_TRANSITIONS, WORKER_MOVES

(***************************************************************************)
(* Each commit is an operation of Bookings: the guard that the request     *)
(* evaluated earlier is true now, and it writes what the operation writes. *)
(***************************************************************************)
LEMMA CommitRefines ==
  ASSUME IInv, Serial, NEW r \in Requests, Commit(r)
  PROVE  [Next]_vars
<1> DEFINE t == txn[r]
<1>b. PICK b \in BookingIds : b = t.b
  BY DEF IInv, TxnTypeOK, Request
<1>1. /\ booking \in [BookingIds -> Row] /\ booking[b] \in Row
      /\ t \in Request /\ Promise(r) /\ Fresh(t)
  BY <1>b DEF IInv, TxnTypeOK, TypeOK, Serial
<1>2. CASE CommitAttach(r, "assign")
  <2>1. t.w \in WorkerIds /\ IsAssignable(t.w) /\ MayTake(t.w, b)
        /\ Allowed("assign", booking[b].status)
    BY <1>1, <1>2, <1>b DEF CommitAttach, Ready, AtPhase, Promise, Fresh
  <2>2. AssignWorker(b, t.w)
    BY <1>2, <1>b, <2>1 DEF CommitAttach, AssignWorker
  <2> QED
    BY <2>1, <2>2 DEF Next
<1>3. CASE CommitAttach(r, "claim")
  <2>1. t.w \in WorkerIds /\ IsAssignable(t.w) /\ MayTake(t.w, b) /\ Open(booking[b])
    BY <1>1, <1>3, <1>b DEF CommitAttach, Ready, AtPhase, Promise, Fresh
  <2>2. ClaimBooking(b, t.w)
    BY <1>3, <1>b, <2>1 DEF CommitAttach, ClaimBooking
  <2> QED
    BY <2>1, <2>2 DEF Next
<1>4. ASSUME NEW op, CommitMove(r, op), Made(booking[b], op) PROVE UNCHANGED vars
  <2>1. UNCHANGED booking
    BY <1>1, <1>4, <1>b DEF CommitMove, Made
  <2> QED
    BY <1>4, <2>1 DEF CommitMove, vars, tableVars
<1>5. ASSUME NEW op \in WORKER_MOVES \cup {"cancel"}, CommitMove(r, op), ~Made(booking[b], op)
      PROVE  [Next]_vars
  <2>1. CASE op \in WORKER_MOVES
    <3>1. t.w \in WorkerIds /\ MayMove(booking[b], t.w, op)
      BY <1>1, <1>5, <1>b, <2>1 DEF CommitMove, Ready, AtPhase, Fresh
    <3>2. Act(b, t.w, op)
      BY <1>5, <1>b, <3>1 DEF CommitMove, Act
    <3> QED
      BY <2>1, <3>1, <3>2 DEF Next
  <2>2. CASE op = "cancel"
    <3>1. Allowed("cancel", booking[b].status)
      BY <1>1, <1>5, <1>b, <2>2 DEF CommitMove, Ready, AtPhase, Fresh
    <3>2. Cancel(b)
      BY <1>5, <1>b, <2>2, <3>1 DEF CommitMove, Cancel
    <3> QED
      BY <3>2 DEF Next
  <2> QED
    BY <1>5, <2>1, <2>2
<1>6. CASE CommitComplete(r)
  <2>1. /\ t.w \in WorkerIds /\ MayMove(booking[b], t.w, "complete")
        /\ t.closes = IsSettled(payment[b], t.cash) /\ t.jobs = jobs_completed[t.w]
        /\ t.cash \in BOOLEAN
    BY <1>1, <1>6, <1>b DEF CommitComplete, Ready, AtPhase, Fresh, Request
  <2>2. CompleteBooking(b, t.w, t.cash)
    BY <1>6, <1>b, <2>1 DEF CommitComplete, CompleteBooking
  <2> QED
    BY <2>1, <2>2 DEF Next
<1>7. CASE CommitReview(r)
  <2>1. /\ Reviewable(booking[b]) /\ review[b] = None
        /\ t.w = booking[b].worker_id /\ t.stats = Recomputed(b, t.w)
        /\ t.closes = (booking[b].status = "completed")
    BY <1>1, <1>7, <1>b DEF CommitReview, Ready, AtPhase, Promise, Fresh
  <2>2. SubmitReview(b)
    BY <1>7, <1>b, <2>1 DEF CommitReview, SubmitReview
  <2> QED
    BY <2>2 DEF Next
<1> QED
  BY <1>2, <1>3, <1>4, <1>5, <1>6, <1>7 DEF Commit

(***************************************************************************)
(* Everything else the server does with a request changes no table.        *)
(***************************************************************************)
LEMMA ReadsRefine ==
  ASSUME NEW r \in Requests, Load(r) \/ Check(r) \/ TakeTurn(r) \/ Abort(r)
  PROVE  UNCHANGED vars
BY DEF Load, CancelLoad, ReviewLoad, AssignLoad, ClaimCheckProfile, ActLoad, CompleteLoad,
       Begin, Check, AssignCheckRoster, ReviewInsert, TakeTurn, ClaimLock, ClaimRefused,
       Abort, Rollback

LEMMA StepRefines ==
  ASSUME IInv, Serial, [TxnNext]_allVars
  PROVE  [Next]_vars
<1>1. CASE CreateOne
  BY <1>1 DEF CreateOne, Next
<1>2. CASE ChangeRoster
  BY <1>2 DEF ChangeRoster, Next
<1>3. CASE UNCHANGED allVars
  BY <1>3 DEF allVars
<1> QED
  BY <1>1, <1>2, <1>3, CommitRefines, ReadsRefine DEF TxnNext

-----------------------------------------------------------------------------
(***************************************************************************)
(* An empty slot has decided nothing.                                      *)
(***************************************************************************)
LEMMA IdleIsFresh ==
  ASSUME NEW t, t.phase = "idle"
  PROVE  Fresh(t) /\ Fresh(t)'
BY DEF Fresh

(***************************************************************************)
(* A request that writes nothing leaves the decisions of the others true.  *)
(***************************************************************************)
LEMMA QuietKeepsSerial ==
  ASSUME IInv, Serial, UNCHANGED vars, NEW r \in Requests, NEW t,
         txn' = [txn EXCEPT ![r] = t], Fresh(t),
         t.phase # "idle" =>
            \A q \in Requests \ {r} : Idle(q) \/ {t.op, txn[q].op} \subseteq Overlapping
  PROVE  Serial'
<1>1. txn \in [Requests -> Request]
  BY DEF IInv, TxnTypeOK
<1>2. BooksInv'
  <2>1. [Next]_vars
    OBVIOUS
  <2> QED
    BY <2>1, NextKeepsBooks DEF Serial
<1>3. \A u : Fresh(u) => Fresh(u)'
  BY DEF Fresh, Recomputed, Reviews, IsAssignable, vars, rosterVars, tableVars
<1>4. \A q \in Requests : txn'[q] = IF q = r THEN t ELSE txn[q]
  BY <1>1
<1>5. \A q \in Requests : Fresh(txn[q])'
  <2> SUFFICES ASSUME NEW q \in Requests PROVE Fresh(txn[q])'
    OBVIOUS
  <2>1. CASE q = r
    <3>1. Fresh(t)'
      BY <1>3
    <3> QED
      BY <1>4, <2>1, <3>1
  <2>2. CASE q # r
    <3>1. Fresh(txn[q])
      BY DEF Serial
    <3> QED
      BY <1>3, <1>4, <2>2, <3>1
  <2> QED
    BY <2>1, <2>2
<1>6. Exclusive'
  BY <1>4 DEF Serial, Exclusive, Idle
<1> QED
  BY <1>2, <1>5, <1>6 DEF Serial

\* The request that goes on has been let in already.
LEMMA GoesOn ==
  ASSUME Serial, NEW r \in Requests, ~Idle(r)
  PROVE  \A q \in Requests \ {r} : Idle(q) \/ {txn[r].op, txn[q].op} \subseteq Overlapping
BY DEF Serial, Exclusive

(***************************************************************************)
(* Loading: the guards were evaluated on the row as it is.                 *)
(***************************************************************************)
LEMMA BeginKeepsSerial ==
  ASSUME IInv, Serial, NEW r \in Requests, NEW op, NEW phase, NEW b \in BookingIds, NEW w,
         Begin(r, op, phase, b, w), op # "complete", op # "review",
         phase \in {"loaded", "ready"} /\ op = "assign"
            => phase = "loaded" /\ Allowed("assign", booking[b].status),
         op = "claim" => IsAssignable(w),
         op \in WORKER_MOVES => w \in WorkerIds /\ MayMove(booking[b], w, op),
         op = "cancel" => Allowed("cancel", booking[b].status)
  PROVE  Serial'
<1> DEFINE t == [IdleRequest EXCEPT !.phase = phase, !.op = op, !.b = b, !.w = w]
<1>1. t.phase = phase /\ t.op = op /\ t.b = b /\ t.w = w
  BY DEF IdleRequest
<1>2. txn' = [txn EXCEPT ![r] = t] /\ UNCHANGED vars /\ MayOverlap(op)
  BY DEF Begin
<1> HIDE DEF t
<1>3. Fresh(t)
  BY <1>1 DEF Fresh
<1> QED
  BY <1>1, <1>2, <1>3, QuietKeepsSerial DEF MayOverlap

LEMMA LoadKeepsSerial ==
  ASSUME IInv, Serial, NEW r \in Requests, Load(r)
  PROVE  Serial'
<1>1. PICK b \in BookingIds :
        \/ CancelLoad(r, b)
        \/ ReviewLoad(r, b)
        \/ \E w \in WorkerIds :
             \/ AssignLoad(r, b, w)
             \/ ClaimCheckProfile(r, b, w)
             \/ \E action \in WORKER_MOVES : ActLoad(r, b, w, action)
             \/ \E cash \in BOOLEAN : CompleteLoad(r, b, w, cash)
  BY DEF Load
<1>2. CASE CancelLoad(r, b)
  BY <1>2, BeginKeepsSerial DEF CancelLoad, WORKER_MOVES
<1>3. CASE ReviewLoad(r, b)
  <2> DEFINE t == [IdleRequest EXCEPT !.phase = "loaded", !.op = "review", !.b = b,
                                      !.w = booking[b].worker_id,
                                      !.closes = booking[b].status = "completed"]
  <2>1. /\ t.phase = "loaded" /\ t.op = "review" /\ t.b = b
        /\ t.w = booking[b].worker_id
        /\ t.closes = (booking[b].status = "completed")
    BY DEF IdleRequest
  <2>2. /\ txn' = [txn EXCEPT ![r] = t] /\ UNCHANGED vars /\ MayOverlap("review")
        /\ Reviewable(booking[b])
    BY <1>3 DEF ReviewLoad
  <2> HIDE DEF t
  <2>3. Fresh(t)
    BY <2>1, <2>2 DEF Fresh, WORKER_MOVES
  <2> QED
    BY <2>1, <2>2, <2>3, QuietKeepsSerial DEF MayOverlap
<1>4. ASSUME NEW w \in WorkerIds, AssignLoad(r, b, w) PROVE Serial'
  BY <1>4, BeginKeepsSerial DEF AssignLoad, WORKER_MOVES
<1>5. ASSUME NEW w \in WorkerIds, ClaimCheckProfile(r, b, w) PROVE Serial'
  BY <1>5, BeginKeepsSerial DEF ClaimCheckProfile, WORKER_MOVES
<1>6. ASSUME NEW w \in WorkerIds, NEW action \in WORKER_MOVES, ActLoad(r, b, w, action)
      PROVE  Serial'
  BY <1>6, BeginKeepsSerial DEF ActLoad, WORKER_MOVES
<1>7. ASSUME NEW w \in WorkerIds, NEW cash \in BOOLEAN, CompleteLoad(r, b, w, cash)
      PROVE  Serial'
  <2> DEFINE t == [IdleRequest EXCEPT !.phase = "ready", !.op = "complete", !.b = b,
                                      !.w = w, !.closes = IsSettled(payment[b], cash),
                                      !.cash = cash, !.jobs = jobs_completed[w]]
  <2>1. /\ t.phase = "ready" /\ t.op = "complete" /\ t.b = b /\ t.w = w /\ t.cash = cash
        /\ t.closes = IsSettled(payment[b], cash) /\ t.jobs = jobs_completed[w]
    BY DEF IdleRequest
  <2>2. /\ txn' = [txn EXCEPT ![r] = t] /\ UNCHANGED vars /\ MayOverlap("complete")
        /\ MayMove(booking[b], w, "complete")
    BY <1>7 DEF CompleteLoad
  <2> HIDE DEF t
  <2>3. Fresh(t)
    BY <2>1, <2>2 DEF Fresh
  <2> QED
    BY <2>1, <2>2, <2>3, QuietKeepsSerial DEF MayOverlap
<1> QED
  BY <1>1, <1>2, <1>3, <1>4, <1>5, <1>6, <1>7

(***************************************************************************)
(* The later reads, and a rollback.                                        *)
(***************************************************************************)
LEMMA RollbackKeepsSerial ==
  ASSUME IInv, Serial, NEW r \in Requests, Rollback(r)
  PROVE  Serial'
BY IdleIsFresh, IdleRequestType, QuietKeepsSerial DEF Rollback, End

LEMMA TurnKeepsSerial ==
  ASSUME IInv, Serial, NEW r \in Requests, Check(r) \/ TakeTurn(r)
  PROVE  Serial'
<1>1. txn[r] \in Request /\ txn \in [Requests -> Request] /\ Fresh(txn[r])
  BY DEF IInv, TxnTypeOK, Serial
<1>2. CASE Rollback(r)
  BY <1>2, RollbackKeepsSerial
<1>3. CASE AssignCheckRoster(r) /\ ~Rollback(r)
  <2> DEFINE t == [txn[r] EXCEPT !.phase = "ready"]
  <2>1. /\ txn' = [txn EXCEPT ![r] = t] /\ UNCHANGED vars
        /\ txn[r].op = "assign" /\ txn[r].phase = "loaded" /\ IsAssignable(txn[r].w)
    BY <1>3 DEF AssignCheckRoster, AtPhase
  <2>2. t.phase = "ready" /\ t.op = "assign" /\ t.b = txn[r].b /\ t.w = txn[r].w
    BY <1>1, <2>1 DEF Request
  <2> HIDE DEF t
  <2>3. Fresh(t)
    BY <1>1, <2>1, <2>2 DEF Fresh, WORKER_MOVES
  <2> QED
    BY <2>1, <2>2, <2>3, GoesOn, QuietKeepsSerial DEF Idle
<1>4. CASE ReviewInsert(r) /\ ~Rollback(r)
  <2> DEFINE t == [[txn[r] EXCEPT !.phase = "ready"]
                      EXCEPT !.stats = Recomputed(txn[r].b, txn[r].w)]
  <2>1. /\ txn' = [txn EXCEPT ![r] = t] /\ UNCHANGED vars
        /\ txn[r].op = "review" /\ txn[r].phase = "loaded"
    BY <1>1, <1>4 DEF ReviewInsert, AtPhase
  <2>2. /\ t.phase = "ready" /\ t.op = "review" /\ t.b = txn[r].b /\ t.w = txn[r].w
        /\ t.closes = txn[r].closes /\ t.stats = Recomputed(t.b, t.w)
    BY <1>1, <2>1 DEF Request
  <2> HIDE DEF t
  <2>3. Fresh(t)
    BY <1>1, <2>1, <2>2 DEF Fresh, WORKER_MOVES
  <2> QED
    BY <2>1, <2>2, <2>3, GoesOn, QuietKeepsSerial DEF Idle
<1>5. CASE ClaimLock(r)
  <2> DEFINE t == [txn[r] EXCEPT !.phase = "ready"]
  <2>1. /\ txn' = [txn EXCEPT ![r] = t] /\ UNCHANGED vars
        /\ txn[r].op = "claim" /\ txn[r].phase = "eligible"
    BY <1>5 DEF ClaimLock, AtPhase
  <2>2. t.phase = "ready" /\ t.op = "claim" /\ t.b = txn[r].b /\ t.w = txn[r].w
    BY <1>1, <2>1 DEF Request
  <2> HIDE DEF t
  <2>3. Fresh(t)
    BY <1>1, <2>1, <2>2 DEF Fresh, WORKER_MOVES
  <2> QED
    BY <2>1, <2>2, <2>3, GoesOn, QuietKeepsSerial DEF Idle
<1>6. ClaimRefused(r) => Rollback(r)
  BY DEF ClaimRefused
<1> QED
  BY <1>2, <1>3, <1>4, <1>5, <1>6 DEF Check, TakeTurn

-----------------------------------------------------------------------------
(***************************************************************************)
(* A commit empties its slot; nothing else moves a request along.          *)
(***************************************************************************)
LEMMA CommitEnds ==
  ASSUME NEW r \in Requests, Commit(r)
  PROVE  ~Idle(r) /\ txn' = [txn EXCEPT ![r] = IdleRequest]
BY DEF Commit, CommitAttach, CommitMove, CommitComplete, CommitReview, End, Ready, AtPhase, Idle

(***************************************************************************)
(* Two requests in flight are a safe pair.                                 *)
(***************************************************************************)
LEMMA TogetherOnlyIfSafe ==
  ASSUME Serial, SafeOverlap, NEW r \in Requests, NEW q \in Requests \ {r},
         ~Idle(r), ~Idle(q)
  PROVE  /\ {txn[r].op, txn[q].op} \in SafePairs
         /\ "review" \in {txn[r].op, txn[q].op} => \A b, c \in BookingIds : b = c
<1>1. {txn[r].op, txn[q].op} \subseteq Overlapping
  BY DEF Serial, Exclusive
<1> QED
  BY <1>1 DEF SafeOverlap

(***************************************************************************)
(* What a claim, a move, a cancellation or a rating commits leaves what    *)
(* the others have decided true, if the two are safe together.             *)
(***************************************************************************)
LEMMA CommitKeepsFresh ==
  ASSUME IInv, Serial, NEW r \in Requests, Commit(r),
         NEW q \in Requests \ {r}, ~Idle(q),
         {txn[r].op, txn[q].op} \in SafePairs,
         "review" \in {txn[r].op, txn[q].op} => \A b, c \in BookingIds : b = c
  PROVE  Fresh(txn[q])'
<1> DEFINE t == txn[r]
           u == txn[q]
           row == booking[u.b]
           MOVING == WORKER_MOVES \cup {"cancel"}
<1>1. /\ txn \in [Requests -> Request] /\ t \in Request /\ u \in Request
      /\ t.b \in BookingIds /\ u.b \in BookingIds
      /\ booking \in [BookingIds -> Row] /\ row \in Row
      /\ review \in [BookingIds -> WorkerIds \cup {None}]
      /\ Fresh(t) /\ Fresh(u) /\ Promise(r) /\ OneInsert
  BY DEF IInv, TxnTypeOK, TypeOK, Request, Serial
<1>2. txn'[q] = u
  BY <1>1, CommitEnds
<1>3. UNCHANGED rosterVars
  BY DEF Commit, CommitAttach, CommitMove, CommitComplete, CommitReview
<1>4. /\ t.op \in MOVING \cup {"claim", "review"}
      /\ u.op \in MOVING \cup {"claim", "review"}
  <2>1. \A S \in SafePairs : S \subseteq MOVING \cup {"claim", "review", "roster"}
    BY DEF SafePairs, WORKER_MOVES
  <2>2. {t.op, u.op} \subseteq MOVING \cup {"claim", "review", "roster"}
    BY <2>1
  <2>3. t.op # "roster" /\ u.op # "roster"
    BY <1>1 DEF Request, OPERATIONS, WORKER_MOVES
  <2> QED
    BY <2>2, <2>3
<1>5. CASE u.op = "claim"
  BY <1>1, <1>2, <1>3, <1>5 DEF Fresh, WORKER_MOVES, IsAssignable, rosterVars
<1>6. ASSUME UNCHANGED review, booking'[u.b] = row, u.op # "claim" PROVE Fresh(u)'
  BY <1>1, <1>2, <1>4, <1>6 DEF Fresh, WORKER_MOVES, Recomputed, Reviews
<1>7. CASE CommitAttach(r, "claim")
  <2>1. /\ booking' = [booking EXCEPT ![t.b] = Attach(@, t.w, "claim")]
        /\ UNCHANGED review
        /\ booking[t.b].status = "pending" /\ t.op = "claim"
    BY <1>1, <1>7 DEF CommitAttach, Ready, AtPhase, Promise, Open
  <2>2. CASE u.b # t.b
    BY <1>1, <1>2, <1>5, <1>6, <2>1, <2>2
  <2>3. CASE u.b = t.b /\ u.op \in MOVING /\ u.phase = "ready"
    <3>1. u.op \in {"accept", "start_travel", "start_work", "cancel"}
      BY <1>1, <2>1, <2>3 DEF SafePairs, WORKER_MOVES
    <3>2. u.op = "cancel"
      BY <1>1, <2>1, <2>3, <3>1, WhereItCanBe
    <3>3. booking'[u.b].status = "accepted"
      BY <1>1, <2>1, <2>3 DEF Attach, Transition, BOOKING_TRANSITIONS
    <3>4. Allowed("cancel", booking'[u.b].status)
      BY <3>3 DEF Allowed, BOOKING_TRANSITIONS
    <3> QED
      BY <1>2, <3>2, <3>4 DEF Fresh, WORKER_MOVES
  <2>4. CASE u.op \in MOVING /\ u.phase # "ready"
    BY <1>2, <2>4 DEF Fresh, WORKER_MOVES
  <2>5. ~(u.b = t.b /\ u.op = "review")
    BY <1>1, <2>1 DEF Fresh, Idle, Reviewable, REVIEWABLE_STATUSES
  <2> QED
    BY <1>2, <1>4, <1>5, <2>2, <2>3, <2>4, <2>5
<1>8. ASSUME NEW op \in MOVING, CommitMove(r, op) PROVE Fresh(txn[q])'
  <2>1. /\ booking' = [booking EXCEPT ![t.b] = Transition(@, op)]
        /\ UNCHANGED review
        /\ t.op = op /\ t.phase = "ready"
    BY <1>1, <1>8 DEF CommitMove, Ready, AtPhase
  <2>2. CASE u.b # t.b
    BY <1>1, <1>2, <1>5, <1>6, <2>1, <2>2
  <2>3. CASE u.b = t.b /\ u.op = op
    <3>1. booking'[u.b] = Transition(row, op)
      BY <1>1, <2>1, <2>3
    <3>2. Made(booking'[u.b], op)
      BY <1>1, <1>8, <3>1, MovesAreIdempotent
    <3> QED
      BY <1>2, <1>8, <2>3, <3>2 DEF Fresh, WORKER_MOVES
  <2>4. CASE u.op \in MOVING /\ u.phase # "ready"
    BY <1>2, <2>4 DEF Fresh, WORKER_MOVES
  <2>5. ~(u.b = t.b /\ u.op = "review")
    <3>1. u.op = "review" => row.status \in REVIEWABLE_STATUSES
      BY <1>1 DEF Fresh, Idle, Reviewable
    <3>2. booking[t.b].status \notin REVIEWABLE_STATUSES
      BY <1>1, <1>8, <2>1, WhereItCanBe DEF REVIEWABLE_STATUSES, WORKER_MOVES
    <3> QED
      BY <3>1, <3>2
  <2>6. ~(u.b = t.b /\ u.op \in MOVING /\ u.op # op /\ u.phase = "ready")
    <3>1. SUFFICES ASSUME u.b = t.b, u.op \in MOVING, u.op # op, u.phase = "ready"
                   PROVE  FALSE
      OBVIOUS
    <3>2. \/ op = "reject" /\ u.op \in {"start_travel", "start_work"}
          \/ u.op = "reject" /\ op \in {"start_travel", "start_work"}
      BY <1>8, <2>1, <3>1 DEF SafePairs, WORKER_MOVES
    <3> QED
      BY <1>1, <2>1, <3>1, <3>2, WhereItCanBe
  <2> QED
    BY <1>4, <1>5, <2>2, <2>3, <2>4, <2>5, <2>6
<1>9. CASE CommitReview(r)
  <2>1. /\ booking' = [booking EXCEPT ![t.b] =
                         IF t.closes THEN Transition(@, "close") ELSE @]
        /\ review' = [review EXCEPT ![t.b] = t.w]
        /\ AtPhase(r, "review", "ready")
        /\ Reviewable(booking[t.b]) /\ t.w \in WorkerIds
        /\ u.b = t.b
    BY <1>1, <1>9 DEF CommitReview, Ready, AtPhase, Fresh, Promise
  <2>2. /\ Reviewable(booking'[u.b])
        /\ booking'[u.b].worker_id = booking[u.b].worker_id
    BY <1>1, <2>1 DEF Reviewable, REVIEWABLE_STATUSES, Transition, BOOKING_TRANSITIONS,
                      WorkerAfter
  <2>3. review'[u.b] # None
    BY <1>1, <2>1, NoneAssumption
  <2>4. ~(u.op \in MOVING /\ u.phase = "ready")
    BY <1>1, <2>1, WhereItCanBe DEF Reviewable, REVIEWABLE_STATUSES, WORKER_MOVES
  <2>5. ~(u.op = "review" /\ u.phase = "ready")
    BY <1>1, <2>1 DEF OneInsert, AtPhase
  <2>6. u.op = "review" => u.w = booking[u.b].worker_id
    BY <1>1 DEF Fresh, Idle
  <2>7. CASE u.op # "claim"
    BY <1>2, <1>4, <2>2, <2>3, <2>4, <2>5, <2>6, <2>7 DEF Fresh, WORKER_MOVES
  <2> QED
    BY <1>5, <2>7
<1>10. \/ CommitAttach(r, "claim")
       \/ \E op \in MOVING : CommitMove(r, op)
       \/ CommitReview(r)
  BY <1>4 DEF Commit, CommitAttach, CommitMove, CommitComplete, CommitReview,
              Ready, AtPhase, WORKER_MOVES
<1> QED
  BY <1>7, <1>8, <1>9, <1>10

LEMMA CommitKeepsSerial ==
  ASSUME IInv, Serial, SafeOverlap, NEW r \in Requests, Commit(r)
  PROVE  Serial'
<1>1. /\ txn \in [Requests -> Request]
      /\ txn' = [txn EXCEPT ![r] = IdleRequest]
      /\ ~Idle(r)
  BY DEF IInv, TxnTypeOK, Commit, CommitAttach, CommitMove, CommitComplete, CommitReview,
         End, Ready, AtPhase, Idle
<1>2. BooksInv'
  <2>1. [Next]_vars
    BY CommitRefines
  <2> QED
    BY <2>1, NextKeepsBooks DEF Serial
<1>3. Exclusive'
  BY <1>1, IdleRequestType DEF Serial, Exclusive, Idle
<1>4. ASSUME NEW q \in Requests PROVE Fresh(txn[q])'
  <2>1. CASE q = r
    <3>1. txn'[q] = IdleRequest
      BY <1>1, <2>1
    <3>2. Fresh(IdleRequest)'
      BY IdleRequestType, IdleIsFresh
    <3> QED
      BY <3>1, <3>2
  <2>2. CASE q # r /\ Idle(q)
    <3>1. txn'[q] = txn[q]
      BY <1>1, <2>2
    <3>2. Fresh(txn[q])'
      BY <2>2, <3>1, IdleIsFresh DEF Fresh, Idle
    <3> QED
      BY <3>2
  <2>3. CASE q # r /\ ~Idle(q)
    <3>1. /\ {txn[r].op, txn[q].op} \in SafePairs
          /\ "review" \in {txn[r].op, txn[q].op} => \A b, c \in BookingIds : b = c
      BY <1>1, <2>3, TogetherOnlyIfSafe
    <3> QED
      BY <2>3, <3>1, CommitKeepsFresh
  <2> QED
    BY <2>1, <2>2, <2>3
<1> QED
  BY <1>2, <1>3, <1>4 DEF Serial

(***************************************************************************)
(* A new booking is one that no request in flight can have decided about;  *)
(* the roster changes while none is in flight.                             *)
(***************************************************************************)
LEMMA CreateKeepsSerial ==
  ASSUME IInv, Serial, CreateOne
  PROVE  Serial'
<1>1. PICK b \in BookingIds :
        /\ booking[b] = AbsentRow
        /\ booking' = [booking EXCEPT ![b] = NewRow]
        /\ UNCHANGED <<rosterVars, payment, review, jobs_completed, rated, txn, lock>>
  BY DEF CreateOne, CreateBooking, txnVars
<1>2. BooksInv'
  <2>1. [Next]_vars
    BY StepRefines DEF TxnNext
  <2> QED
    BY <2>1, NextKeepsBooks DEF Serial
<1>3. Exclusive'
  BY <1>1 DEF Serial, Exclusive, Idle
<1>4. ASSUME NEW q \in Requests PROVE Fresh(txn[q])'
  <2> DEFINE u == txn[q]
  <2>1. u \in Request /\ u.b \in BookingIds /\ Fresh(u) /\ booking \in [BookingIds -> Row]
    BY DEF IInv, TxnTypeOK, TypeOK, Request, Serial
  <2>2. CASE u.b # b
    <3>1. booking'[u.b] = booking[u.b] /\ txn'[q] = u
      BY <1>1, <2>1, <2>2
    <3> QED
      BY <1>1, <2>1, <3>1 DEF Fresh, Recomputed, Reviews, IsAssignable, rosterVars
  <2>3. CASE u.b = b
    <3>1. booking[u.b].status = "absent"
      BY <1>1, <2>3 DEF AbsentRow
    <3>2. /\ ~(u.phase \in {"loaded", "ready"} /\ u.op = "assign")
          /\ ~(u.phase = "ready" /\ u.op \in WORKER_MOVES \cup {"complete"})
          /\ ~(u.phase = "ready" /\ u.op = "cancel")
          /\ ~(u.phase # "idle" /\ u.op = "review")
      BY <2>1, <3>1, WhereItCanBe DEF Fresh, MayMove, Allowed, BOOKING_TRANSITIONS,
                                      WORKER_MOVES, Reviewable, REVIEWABLE_STATUSES
    <3>3. u.phase # "idle" /\ u.op = "claim" => IsAssignable(u.w)'
      BY <1>1, <2>1 DEF Fresh, IsAssignable, rosterVars
    <3>4. txn'[q] = u
      BY <1>1
    <3> QED
      BY <3>2, <3>3, <3>4 DEF Fresh
  <2> QED
    BY <2>2, <2>3
<1> QED
  BY <1>2, <1>3, <1>4 DEF Serial

LEMMA RosterKeepsSerial ==
  ASSUME IInv, Serial, SafeOverlap, ChangeRoster
  PROVE  Serial'
<1>1. ASSUME NEW q \in Requests, ~Idle(q) PROVE txn[q].op \notin {"assign", "claim"}
  <2>1. {"roster", txn[q].op} \subseteq Overlapping
    BY <1>1 DEF ChangeRoster, MayOverlap
  <2>2. {"roster", txn[q].op} \in SafePairs
    BY <2>1 DEF SafeOverlap
  <2> QED
    BY <2>2 DEF SafePairs, WORKER_MOVES
<1>2. UNCHANGED <<tableVars, txn>>
  BY DEF ChangeRoster, txnVars
<1>3. BooksInv'
  <2>1. [Next]_vars
    BY StepRefines DEF TxnNext
  <2> QED
    BY <2>1, NextKeepsBooks DEF Serial
<1>4. Exclusive'
  BY <1>2 DEF Serial, Exclusive, Idle
<1>5. ASSUME NEW q \in Requests PROVE Fresh(txn[q])'
  <2>1. Fresh(txn[q])
    BY DEF Serial
  <2>2. txn[q].phase = "idle" \/ txn[q].op \notin {"assign", "claim"}
    BY <1>1 DEF Idle
  <2> QED
    BY <1>2, <2>1, <2>2 DEF Fresh, Recomputed, Reviews, tableVars
<1> QED
  BY <1>3, <1>4, <1>5 DEF Serial

LEMMA NextSerial ==
  ASSUME IInv, Serial, SafeOverlap, [TxnNext]_allVars
  PROVE  Serial'
<1>1. CASE UNCHANGED allVars
  <2>1. BooksInv'
    BY <1>1, NextKeepsBooks DEF Serial, allVars
  <2>2. Exclusive'
    BY <1>1 DEF Serial, Exclusive, Idle, allVars, txnVars
  <2>3. \A q \in Requests : Fresh(txn[q])'
    BY <1>1 DEF Serial, Fresh, Recomputed, Reviews, IsAssignable,
                allVars, vars, rosterVars, tableVars, txnVars
  <2> QED
    BY <2>1, <2>2, <2>3 DEF Serial
<1>2. ASSUME NEW r \in Requests, Load(r) PROVE Serial'
  BY <1>2, LoadKeepsSerial
<1>3. ASSUME NEW r \in Requests, Check(r) \/ TakeTurn(r) PROVE Serial'
  BY <1>3, TurnKeepsSerial
<1>4. ASSUME NEW r \in Requests, Commit(r) PROVE Serial'
  BY <1>4, CommitKeepsSerial
<1>5. ASSUME NEW r \in Requests, Abort(r) PROVE Serial'
  BY <1>5, RollbackKeepsSerial DEF Abort
<1> QED
  BY <1>1, <1>2, <1>3, <1>4, <1>5, CreateKeepsSerial, RosterKeepsSerial DEF TxnNext

LEMMA SerialAlways ==
  ASSUME SafeOverlap
  PROVE  TxnSpec => [](IInv /\ Serial)
<1>1. TxnInit => IInv /\ Serial
  <2> SUFFICES ASSUME TxnInit PROVE IInv /\ Serial
    OBVIOUS
  <2>1. \A r \in Requests : txn[r].phase = "idle"
    BY IdleRequestType DEF TxnInit
  <2>2. BooksInv
    BY InitBooks DEF TxnInit
  <2> QED
    BY <2>1, <2>2, InitIInv, IdleIsFresh DEF Serial, Exclusive, Idle
<1>2. IInv /\ Serial /\ [TxnNext]_allVars => (IInv /\ Serial)'
  BY NextIInv, NextSerial
<1> QED
  BY <1>1, <1>2, PTL DEF TxnSpec

(***************************************************************************)
(* Where only safe pairs overlap, what the server commits is a behaviour   *)
(* of Bookings: the refinement.                                            *)
(***************************************************************************)
THEOREM ClaimsAreSerializable ==
  ASSUME SafeOverlap
  PROVE  TxnSpec => Serializable
<1>1. TxnInit => Init
  BY DEF TxnInit
<1>2. IInv /\ Serial /\ [TxnNext]_allVars => [Next]_vars
  BY StepRefines
<1> QED
  BY <1>1, <1>2, SerialAlways, PTL DEF TxnSpec, Spec, Serializable

(***************************************************************************)
(* So the books stay as straight as they are when operations happen at     *)
(* once: the timeline, the money, the ratings and the counters.            *)
(***************************************************************************)
THEOREM BooksStayTrue ==
  ASSUME SafeOverlap
  PROVE  TxnSpec => [](/\ Timeline /\ MoneyMatchesStatus
                       /\ AggregateIsTrue /\ JobsCompletedIsTrue)
<1>1. Serial => Timeline /\ MoneyMatchesStatus /\ AggregateIsTrue /\ JobsCompletedIsTrue
  BY DEF Serial, BooksInv
<1> QED
  BY <1>1, SerialAlways, PTL

-----------------------------------------------------------------------------
(***************************************************************************)
(* A step of a request that does not commit: it is let in with what it has *)
(* read, it goes on with the same operation, or it ends.                   *)
(***************************************************************************)
LetIn(t) ==
  /\ MayOverlap(t.op)
  /\ t.op = "assign" => Allowed("assign", booking[t.b].status)
  /\ ~(t.op = "review" /\ t.phase = "ready")

GoneOn(r, t) ==
  /\ ~Idle(r)
  /\ t.op = txn[r].op /\ t.b = txn[r].b
  /\ t.op = "assign" => txn[r].phase = "loaded"
  /\ t.op = "review" => t.stats = Recomputed(t.b, t.w)

LEMMA RequestMoves ==
  ASSUME IInv, NEW r \in Requests, Load(r) \/ Check(r) \/ TakeTurn(r) \/ Abort(r)
  PROVE  /\ UNCHANGED vars
         /\ \E t : /\ txn' = [txn EXCEPT ![r] = t]
                   /\ t.phase = "idle" \/ LetIn(t) \/ GoneOn(r, t)
<1>1. UNCHANGED vars
  BY ReadsRefine
<1>2. txn[r] \in Request
  BY DEF IInv, TxnTypeOK
<1> DEFINE Moves(t) == /\ txn' = [txn EXCEPT ![r] = t]
                       /\ t.phase = "idle" \/ LetIn(t) \/ GoneOn(r, t)
<1>3. CASE Rollback(r)
  <2>1. Moves(IdleRequest)
    BY <1>3, IdleRequestType DEF Rollback, End
  <2> QED
    BY <1>1, <2>1
<1>4. ASSUME NEW op, NEW phase, NEW b \in BookingIds, NEW w, Begin(r, op, phase, b, w),
             op = "assign" => Allowed("assign", booking[b].status), op # "review"
      PROVE  \E t : Moves(t)
  <2> DEFINE t == [IdleRequest EXCEPT !.phase = phase, !.op = op, !.b = b, !.w = w]
  <2>1. t.phase = phase /\ t.op = op /\ t.b = b
    BY DEF IdleRequest
  <2>2. txn' = [txn EXCEPT ![r] = t] /\ MayOverlap(op)
    BY <1>4 DEF Begin
  <2> HIDE DEF t
  <2>3. Moves(t)
    BY <1>4, <2>1, <2>2 DEF LetIn
  <2> QED
    BY <2>3
<1>5. ASSUME NEW b \in BookingIds, CancelLoad(r, b) PROVE \E t : Moves(t)
  BY <1>4, <1>5 DEF CancelLoad
<1>6. ASSUME NEW b \in BookingIds, ReviewLoad(r, b) PROVE \E t : Moves(t)
  <2> DEFINE t == [IdleRequest EXCEPT !.phase = "loaded", !.op = "review", !.b = b,
                                      !.w = booking[b].worker_id,
                                      !.closes = booking[b].status = "completed"]
  <2>1. t.phase = "loaded" /\ t.op = "review"
    BY DEF IdleRequest
  <2>2. txn' = [txn EXCEPT ![r] = t] /\ MayOverlap("review")
    BY <1>6 DEF ReviewLoad
  <2> HIDE DEF t
  <2>3. Moves(t)
    BY <2>1, <2>2 DEF LetIn
  <2> QED
    BY <2>3
<1>7. ASSUME NEW b \in BookingIds, NEW w \in WorkerIds,
             AssignLoad(r, b, w) \/ ClaimCheckProfile(r, b, w)
      PROVE  \E t : Moves(t)
  BY <1>4, <1>7 DEF AssignLoad, ClaimCheckProfile
<1>8. ASSUME NEW b \in BookingIds, NEW w \in WorkerIds, NEW action \in WORKER_MOVES,
             ActLoad(r, b, w, action)
      PROVE  \E t : Moves(t)
  BY <1>4, <1>8 DEF ActLoad, WORKER_MOVES
<1>9. ASSUME NEW b \in BookingIds, NEW w \in WorkerIds, NEW cash \in BOOLEAN,
             CompleteLoad(r, b, w, cash)
      PROVE  \E t : Moves(t)
  <2> DEFINE t == [IdleRequest EXCEPT !.phase = "ready", !.op = "complete", !.b = b,
                                      !.w = w, !.closes = IsSettled(payment[b], cash),
                                      !.cash = cash, !.jobs = jobs_completed[w]]
  <2>1. t.op = "complete"
    BY DEF IdleRequest
  <2>2. txn' = [txn EXCEPT ![r] = t] /\ MayOverlap("complete")
    BY <1>9 DEF CompleteLoad
  <2> HIDE DEF t
  <2>3. Moves(t)
    BY <2>1, <2>2 DEF LetIn
  <2> QED
    BY <2>3
<1>10. CASE Load(r)
  <2> HIDE DEF Moves
  <2>1. \E t : Moves(t)
    BY <1>5, <1>6, <1>7, <1>8, <1>9, <1>10 DEF Load
  <2> QED
    BY <1>1, <2>1 DEF Moves
<1>11. CASE AssignCheckRoster(r) /\ ~Rollback(r)
  <2> DEFINE t == [txn[r] EXCEPT !.phase = "ready"]
  <2>1. txn' = [txn EXCEPT ![r] = t] /\ txn[r].op = "assign" /\ txn[r].phase = "loaded"
    BY <1>11 DEF AssignCheckRoster, AtPhase
  <2>2. t.op = txn[r].op /\ t.b = txn[r].b
    BY <1>2 DEF Request
  <2> HIDE DEF t
  <2>3. Moves(t)
    BY <2>1, <2>2 DEF GoneOn, Idle
  <2> QED
    BY <1>1, <2>3
<1>12. CASE ReviewInsert(r) /\ ~Rollback(r)
  <2> DEFINE t == [[txn[r] EXCEPT !.phase = "ready"]
                      EXCEPT !.stats = Recomputed(txn[r].b, txn[r].w)]
  <2>1. txn' = [txn EXCEPT ![r] = t] /\ txn[r].op = "review" /\ txn[r].phase = "loaded"
    BY <1>2, <1>12 DEF ReviewInsert, AtPhase
  <2>2. t.op = txn[r].op /\ t.b = txn[r].b /\ t.stats = Recomputed(t.b, t.w)
    BY <1>2 DEF Request
  <2> HIDE DEF t
  <2>3. Moves(t)
    BY <2>1, <2>2 DEF GoneOn, Idle
  <2> QED
    BY <1>1, <2>3
<1>13. CASE ClaimLock(r)
  <2> DEFINE t == [txn[r] EXCEPT !.phase = "ready"]
  <2>1. txn' = [txn EXCEPT ![r] = t] /\ txn[r].op = "claim" /\ txn[r].phase = "eligible"
    BY <1>13 DEF ClaimLock, AtPhase
  <2>2. t.op = txn[r].op /\ t.b = txn[r].b
    BY <1>2 DEF Request
  <2> HIDE DEF t
  <2>3. Moves(t)
    BY <2>1, <2>2 DEF GoneOn, Idle
  <2> QED
    BY <1>1, <2>3
<1> QED
  BY <1>3, <1>10, <1>11, <1>12, <1>13 DEF Check, TakeTurn, ClaimRefused, Abort

(***************************************************************************)
(* Only operations of Overlapping are ever in flight together.             *)
(***************************************************************************)
LEMMA NextExclusive ==
  ASSUME IInv, Exclusive, [TxnNext]_allVars
  PROVE  Exclusive'
<1>1. txn \in [Requests -> Request]
  BY DEF IInv, TxnTypeOK
<1>2. ASSUME NEW r \in Requests, NEW t, txn' = [txn EXCEPT ![r] = t],
             t.phase = "idle" \/ LetIn(t) \/ GoneOn(r, t)
      PROVE  Exclusive'
  <2>1. \A q \in Requests : txn'[q] = IF q = r THEN t ELSE txn[q]
    BY <1>1, <1>2
  <2>2. t.phase = "idle" \/ \A q \in Requests \ {r} :
                               Idle(q) \/ {t.op, txn[q].op} \subseteq Overlapping
    BY <1>2 DEF LetIn, GoneOn, MayOverlap, Exclusive
  <2> QED
    BY <2>1, <2>2 DEF Exclusive, Idle
<1>3. ASSUME NEW r \in Requests, Load(r) \/ Check(r) \/ TakeTurn(r) \/ Abort(r)
      PROVE  Exclusive'
  BY <1>2, <1>3, RequestMoves
<1>4. ASSUME NEW r \in Requests, Commit(r) PROVE Exclusive'
  BY <1>2, <1>4, CommitEnds, IdleRequestType
<1>5. CreateOne \/ ChangeRoster \/ UNCHANGED allVars => UNCHANGED txn
  BY DEF CreateOne, ChangeRoster, allVars, txnVars
<1>6. UNCHANGED txn => Exclusive'
  BY DEF Exclusive, Idle
<1> QED
  BY <1>3, <1>4, <1>5, <1>6 DEF TxnNext

LEMMA InitExclusive == TxnInit => Exclusive
BY IdleRequestType DEF TxnInit, Exclusive, Idle

-----------------------------------------------------------------------------
(***************************************************************************)
(* Whose fault a double booking is.  While an assignment is in flight with *)
(* nothing else, the job it was decided for stays open.                    *)
(***************************************************************************)
OfferStands ==
  \A r \in Requests :
     ~Idle(r) /\ txn[r].op = "assign" => Allowed("assign", booking[txn[r].b].status)

LEMMA NextOfferStands ==
  ASSUME "assign" \notin Overlapping, IInv, Exclusive, OfferStands, [TxnNext]_allVars
  PROVE  OfferStands'
<1>1. txn \in [Requests -> Request] /\ booking \in [BookingIds -> Row]
  BY DEF IInv, TxnTypeOK, TypeOK
<1>2. ASSUME NEW r \in Requests, Load(r) \/ Check(r) \/ TakeTurn(r) \/ Abort(r)
      PROVE  OfferStands'
  <2>1. PICK t : /\ txn' = [txn EXCEPT ![r] = t]
                 /\ t.phase = "idle" \/ LetIn(t) \/ GoneOn(r, t)
    BY <1>2, RequestMoves
  <2>2. UNCHANGED booking
    BY <1>2, RequestMoves DEF vars, tableVars
  <2>3. \A q \in Requests : txn'[q] = IF q = r THEN t ELSE txn[q]
    BY <1>1, <2>1
  <2>4. t.phase # "idle" /\ t.op = "assign" => Allowed("assign", booking[t.b].status)
    BY <2>1 DEF LetIn, GoneOn, OfferStands
  <2> QED
    BY <2>2, <2>3, <2>4 DEF OfferStands, Idle
<1>3. ASSUME NEW r \in Requests, Commit(r) PROVE OfferStands'
  <2>1. /\ ~Idle(r)
        /\ \A q \in Requests : txn'[q] = IF q = r THEN IdleRequest ELSE txn[q]
    BY <1>1, <1>3, CommitEnds
  <2>2. \A q \in Requests \ {r} : ~(~Idle(q) /\ txn[q].op = "assign")
    BY <2>1 DEF Exclusive
  <2> QED
    BY <2>1, <2>2, IdleRequestType DEF OfferStands, Idle
<1>4. CASE CreateOne
  <2>1. PICK b \in BookingIds : /\ booking[b] = AbsentRow
                                /\ booking' = [booking EXCEPT ![b] = NewRow]
                                /\ UNCHANGED txn
    BY <1>4 DEF CreateOne, CreateBooking, txnVars
  <2> SUFFICES ASSUME NEW r \in Requests, ~Idle(r)', txn'[r].op = "assign"
               PROVE  Allowed("assign", booking'[txn'[r].b].status)
    BY DEF OfferStands
  <2>2. Allowed("assign", booking[txn[r].b].status)
    BY <2>1 DEF OfferStands, Idle
  <2>3. txn[r].b # b
    BY <2>1, <2>2 DEF AbsentRow, Allowed, BOOKING_TRANSITIONS
  <2>4. txn[r].b \in BookingIds
    BY <1>1 DEF Request
  <2> QED
    BY <1>1, <2>1, <2>2, <2>3, <2>4
<1>5. ChangeRoster \/ UNCHANGED allVars => UNCHANGED <<booking, txn>>
  BY DEF ChangeRoster, allVars, vars, tableVars, txnVars
<1>6. UNCHANGED <<booking, txn>> => OfferStands'
  BY DEF OfferStands, Idle
<1> QED
  BY <1>2, <1>3, <1>4, <1>5, <1>6 DEF TxnNext

(***************************************************************************)
(* Nobody else puts a second worker on a job that was taken.               *)
(***************************************************************************)
LEMMA WorkerStays ==
  ASSUME IInv, OfferStands, [TxnNext]_allVars,
         NEW b \in BookingIds, booking[b].status = "accepted"
  PROVE  booking'[b].worker_id \in {None, booking[b].worker_id}
<1> DEFINE Stays == booking'[b].worker_id \in {None, booking[b].worker_id}
<1>1. booking \in [BookingIds -> Row] /\ booking[b] \in Row
  BY DEF IInv, TxnTypeOK, TypeOK
<1>2. ASSUME NEW r \in Requests, Commit(r) PROVE Stays
  <2>1. txn[r] \in Request /\ Promise(r)
    BY DEF IInv, TxnTypeOK
  <2>2. CASE txn[r].b # b
    BY <1>1, <1>2, <2>2 DEF Commit, CommitAttach, CommitMove, CommitComplete, CommitReview
  <2>3. CASE txn[r].b = b
    <3>1. ~CommitAttach(r, "assign")
      BY <2>3 DEF CommitAttach, Ready, AtPhase, OfferStands, Idle, Allowed, BOOKING_TRANSITIONS
    <3>2. ~CommitAttach(r, "claim")
      BY <2>1, <2>3 DEF CommitAttach, Ready, AtPhase, Promise, Open
    <3>3. ASSUME NEW op \in WORKER_MOVES \cup {"cancel"}, CommitMove(r, op) PROVE Stays
      BY <1>1, <2>3, <3>3 DEF CommitMove, Transition, WorkerAfter
    <3>4. CASE CommitComplete(r)
      BY <1>1, <2>1, <2>3, <3>4, FinishColumns DEF CommitComplete, Request
    <3>5. CASE CommitReview(r)
      BY <1>1, <2>3, <3>5 DEF CommitReview, Transition, WorkerAfter
    <3> QED
      BY <1>2, <3>1, <3>2, <3>3, <3>4, <3>5 DEF Commit
  <2> QED
    BY <2>2, <2>3
<1>3. CASE CreateOne
  <2>1. PICK c \in BookingIds : booking[c] = AbsentRow /\ booking' = [booking EXCEPT ![c] = NewRow]
    BY <1>3 DEF CreateOne, CreateBooking
  <2>2. c # b
    BY <2>1 DEF AbsentRow
  <2> QED
    BY <1>1, <2>1, <2>2
<1>4. ASSUME NEW r \in Requests, Load(r) \/ Check(r) \/ TakeTurn(r) \/ Abort(r)
      PROVE  UNCHANGED booking
  BY <1>4, ReadsRefine DEF vars, tableVars
<1>5. ChangeRoster \/ UNCHANGED allVars => UNCHANGED booking
  BY DEF ChangeRoster, allVars, vars, tableVars
<1> QED
  BY <1>2, <1>3, <1>4, <1>5 DEF TxnNext

(***************************************************************************)
(* "Never a double booking" is true whatever overlaps with whatever, as    *)
(* long as no assignment by an admin overlaps with anything: assign_worker *)
(* is the one operation that puts a worker on a row it has not locked.     *)
(***************************************************************************)
THEOREM OnlyAssignmentsDoubleBook ==
  ASSUME "assign" \notin Overlapping
  PROVE  TxnSpec => NoDoubleBooking
<1> DEFINE Kept == \A b \in BookingIds :
                      booking[b].status = "accepted" =>
                        booking'[b].worker_id \in {None, booking[b].worker_id}
<1>1. TxnInit => Exclusive /\ OfferStands
  BY InitExclusive, IdleRequestType DEF TxnInit, OfferStands, Idle
<1>2. IInv /\ Exclusive /\ OfferStands /\ [TxnNext]_allVars => Exclusive' /\ OfferStands'
  BY NextExclusive, NextOfferStands
<1>3. IInv /\ OfferStands /\ [TxnNext]_allVars => Kept
  BY WorkerStays
<1> HIDE DEF Kept
<1>4. TxnSpec => [][Kept]_allVars
  BY <1>1, <1>2, <1>3, Invariance, PTL DEF TxnSpec
<1> QED
  BY <1>4 DEF NoDoubleBooking, Kept

-----------------------------------------------------------------------------
(***************************************************************************)
(* Whose fault a wrong rating is.  An aggregate that was computed is still *)
(* right when it is stored, unless another rating commits in between.      *)
(***************************************************************************)
LoneReviews == "review" \in Overlapping => \A b, c \in BookingIds : b = c

StatsStand ==
  \A r \in Requests :
     AtPhase(r, "review", "ready") => txn[r].stats = Recomputed(txn[r].b, txn[r].w)

LEMMA NextStatsStand ==
  ASSUME LoneReviews, IInv, Exclusive, RatingCountIsTrue, StatsStand, [TxnNext]_allVars
  PROVE  RatingCountIsTrue' /\ StatsStand'
<1>1. /\ txn \in [Requests -> Request]
      /\ \A r \in Requests : txn[r].b \in BookingIds
      /\ review \in [BookingIds -> WorkerIds \cup {None}]
      /\ rated \in [WorkerIds -> SUBSET BookingIds]
      /\ OneInsert
  BY DEF IInv, TxnTypeOK, TypeOK, Request
<1>2. ASSUME NEW r \in Requests, Load(r) \/ Check(r) \/ TakeTurn(r) \/ Abort(r)
      PROVE  RatingCountIsTrue' /\ StatsStand'
  <2>1. PICK t : /\ txn' = [txn EXCEPT ![r] = t]
                 /\ t.phase = "idle" \/ LetIn(t) \/ GoneOn(r, t)
    BY <1>2, RequestMoves
  <2>2. UNCHANGED <<review, rated>>
    BY <1>2, RequestMoves DEF vars, tableVars
  <2>3. \A q \in Requests : txn'[q] = IF q = r THEN t ELSE txn[q]
    BY <1>1, <2>1
  <2>4. t.phase = "ready" /\ t.op = "review" => t.stats = Recomputed(t.b, t.w)
    BY <2>1 DEF LetIn, GoneOn
  <2> QED
    BY <2>2, <2>3, <2>4 DEF StatsStand, AtPhase, RatingCountIsTrue, Recomputed, Reviews
<1>3. ASSUME NEW r \in Requests, CommitReview(r)
      PROVE  RatingCountIsTrue' /\ StatsStand'
  <2>1. PICK b \in BookingIds, w \in WorkerIds : b = txn[r].b /\ w = txn[r].w
    BY <1>1, <1>3 DEF IInv, Promise, CommitReview, Ready, AtPhase
  <2>2. /\ AtPhase(r, "review", "ready")
        /\ review[b] = None
        /\ review' = [review EXCEPT ![b] = w]
        /\ rated' = [rated EXCEPT ![w] = Reviews(w) \cup {b}]
        /\ \A q \in Requests : txn'[q] = IF q = r THEN IdleRequest ELSE txn[q]
    BY <1>1, <1>3, <2>1 DEF IInv, Promise, CommitReview, Ready, AtPhase, End,
                            StatsStand, Recomputed
  <2>3. \A v \in WorkerIds : Reviews(v)' = IF v = w THEN Reviews(v) \cup {b} ELSE Reviews(v)
    BY <1>1, <2>2, NoneAssumption DEF Reviews
  <2>4. RatingCountIsTrue'
    BY <1>1, <2>2, <2>3 DEF RatingCountIsTrue
  <2>5. \A q \in Requests \ {r} : ~AtPhase(q, "review", "ready")
    BY <1>1, <2>2 DEF LoneReviews, Exclusive, OneInsert, AtPhase, Idle
  <2>6. StatsStand'
    BY <2>2, <2>5, IdleRequestType DEF StatsStand, AtPhase
  <2> QED
    BY <2>4, <2>6
<1>4. ASSUME NEW r \in Requests, Commit(r), ~CommitReview(r)
      PROVE  RatingCountIsTrue' /\ StatsStand'
  <2>1. UNCHANGED <<review, rated>>
    BY <1>4 DEF Commit, CommitAttach, CommitMove, CommitComplete
  <2>2. \A q \in Requests : txn'[q] = IF q = r THEN IdleRequest ELSE txn[q]
    BY <1>1, <1>4, CommitEnds
  <2> QED
    BY <2>1, <2>2, IdleRequestType
       DEF StatsStand, AtPhase, RatingCountIsTrue, Recomputed, Reviews
<1>5. CreateOne \/ ChangeRoster \/ UNCHANGED allVars => UNCHANGED <<review, rated, txn>>
  BY DEF CreateOne, CreateBooking, ChangeRoster, allVars, vars, tableVars, txnVars
<1>6. UNCHANGED <<review, rated, txn>> => RatingCountIsTrue' /\ StatsStand'
  BY DEF StatsStand, AtPhase, RatingCountIsTrue, Recomputed, Reviews
<1> QED
  BY <1>2, <1>3, <1>4, <1>5, <1>6 DEF TxnNext

(***************************************************************************)
(* The stored rating of every worker is what the reviews table says,       *)
(* whatever overlaps with whatever, as long as no two ratings of different *)
(* jobs overlap: _refresh_rating loses nothing to any other operation.     *)
(***************************************************************************)
THEOREM OnlyRatingsLoseRatings ==
  ASSUME LoneReviews
  PROVE  TxnSpec => []RatingCountIsTrue
<1>1. TxnInit => Exclusive /\ RatingCountIsTrue /\ StatsStand
  <2> SUFFICES ASSUME TxnInit PROVE RatingCountIsTrue /\ StatsStand
    BY InitExclusive
  <2>1. RatingCountIsTrue
    BY NoneAssumption DEF TxnInit, Init, TablesInit, RatingCountIsTrue, Reviews
  <2>2. StatsStand
    BY IdleRequestType DEF TxnInit, StatsStand, AtPhase
  <2> QED
    BY <2>1, <2>2
<1>2. IInv /\ Exclusive /\ RatingCountIsTrue /\ StatsStand /\ [TxnNext]_allVars
        => Exclusive' /\ RatingCountIsTrue' /\ StatsStand'
  BY NextExclusive, NextStatsStand
<1> QED
  BY <1>1, <1>2, Invariance, PTL DEF TxnSpec

-----------------------------------------------------------------------------
(***************************************************************************)
(* A transition whose guard was true of the row moves along the table.     *)
(***************************************************************************)
LEMMA TransitionIsLegal ==
  ASSUME NEW row, NEW action \in MOVES, Allowed(action, row.status)
  PROVE  <<row.status, Transition(row, action).status>> \in LegalMoves
<1>1. MOVES = DOMAIN BOOKING_TRANSITIONS
  BY DEF MOVES, BOOKING_TRANSITIONS
<1>2. Transition(row, action).status = BOOKING_TRANSITIONS[action].to
  BY DEF Transition
<1>3. row.status \in BOOKING_TRANSITIONS[action].from
  BY DEF Allowed
<1> HIDE DEF BOOKING_TRANSITIONS
<1>4. <<row.status, BOOKING_TRANSITIONS[action].to>>
        \in BOOKING_TRANSITIONS[action].from \X {BOOKING_TRANSITIONS[action].to}
  BY <1>3
<1> QED
  BY <1>1, <1>2, <1>4 DEF LegalMoves

(***************************************************************************)
(* So does every step of the abstract marketplace.                         *)
(***************************************************************************)
LEMMA JumpsAreLegal ==
  ASSUME TypeOK, [Next]_vars, NEW b \in BookingIds,
         booking[b].status \notin {"absent", booking'[b].status}
  PROVE  <<booking[b].status, booking'[b].status>> \in LegalMoves
<1>1. booking \in [BookingIds -> Row] /\ booking[b] \in Row
  BY DEF TypeOK
<1>2. ASSUME NEW action \in MOVES, Allowed(action, booking[b].status),
             booking'[b].status = Transition(booking[b], action).status
      PROVE  <<booking[b].status, booking'[b].status>> \in LegalMoves
  BY <1>2, TransitionIsLegal
<1>3. ASSUME NEW c \in BookingIds, NEW row, booking' = [booking EXCEPT ![c] = row]
      PROVE  c = b /\ booking'[b] = row
  BY <1>1, <1>3
<1>4. ASSUME NEW c \in BookingIds, CreateBooking(c) PROVE FALSE
  BY <1>3, <1>4 DEF CreateBooking, AbsentRow
<1>5. ASSUME NEW c \in BookingIds, Cancel(c) PROVE \E action \in MOVES :
         /\ Allowed(action, booking[b].status)
         /\ booking'[b].status = Transition(booking[b], action).status
  <2>1. "cancel" \in MOVES
    BY DEF MOVES
  <2> QED
    BY <1>3, <1>5, <2>1 DEF Cancel
<1>6. ASSUME NEW c \in BookingIds, SubmitReview(c) PROVE \E action \in MOVES :
         /\ Allowed(action, booking[b].status)
         /\ booking'[b].status = Transition(booking[b], action).status
  <2>1. "close" \in MOVES /\ Allowed("close", "completed")
    BY DEF MOVES, Allowed, BOOKING_TRANSITIONS
  <2>2. c = b /\ booking'[b] = IF booking[b].status = "completed"
                                 THEN Transition(booking[b], "close") ELSE booking[b]
    BY <1>3, <1>6 DEF SubmitReview
  <2>3. booking[b].status = "completed"
    BY <2>2
  <2> QED
    BY <2>1, <2>2, <2>3
<1>7. ASSUME NEW c \in BookingIds, NEW w \in WorkerIds,
             AssignWorker(c, w) \/ ClaimBooking(c, w)
      PROVE \E action \in MOVES :
         /\ Allowed(action, booking[b].status)
         /\ booking'[b].status = Transition(booking[b], action).status
  <2>1. /\ "assign" \in MOVES /\ "claim" \in MOVES
        /\ Open(booking[b]) => Allowed("claim", booking[b].status)
    BY DEF MOVES, Open, Allowed, BOOKING_TRANSITIONS
  <2>2. \A action \in MOVES : Attach(booking[b], w, action).status
                                = Transition(booking[b], action).status
    BY DEF Attach, Transition
  <2> QED
    BY <1>3, <1>7, <2>1, <2>2 DEF AssignWorker, ClaimBooking
<1>8. ASSUME NEW c \in BookingIds, NEW w \in WorkerIds, NEW move \in WORKER_MOVES,
             Act(c, w, move)
      PROVE \E action \in MOVES :
         /\ Allowed(action, booking[b].status)
         /\ booking'[b].status = Transition(booking[b], action).status
  <2>1. move \in MOVES
    BY DEF MOVES, WORKER_MOVES
  <2> QED
    BY <1>3, <1>8, <2>1 DEF Act, MayMove
<1>9. ASSUME NEW c \in BookingIds, NEW w \in WorkerIds, NEW cash \in BOOLEAN,
             CompleteBooking(c, w, cash)
      PROVE  <<booking[b].status, booking'[b].status>> \in LegalMoves
  <2> DEFINE settled == IsSettled(payment[b], cash)
  <2>1. /\ Allowed("complete", booking[b].status)
        /\ booking'[b] = Finish(booking[b], settled)
    BY <1>3, <1>9 DEF CompleteBooking, MayMove
  <2>2. booking[b].status = "in_progress"
    BY <2>1 DEF Allowed, BOOKING_TRANSITIONS
  <2>3. CASE settled
    <3>1. booking'[b].status = "closed"
      BY <2>1, <2>3 DEF Finish, Transition, BOOKING_TRANSITIONS
    <3> QED
      BY <2>2, <3>1 DEF LegalMoves
  <2>4. CASE ~settled
    <3>1. "complete" \in MOVES
      BY DEF MOVES
    <3> QED
      BY <1>2, <2>1, <2>4, <3>1 DEF Finish
  <2> QED
    BY <2>3, <2>4
<1>10. CASE UNCHANGED booking
  BY <1>10
<1>11. RosterNext /\ UNCHANGED tableVars => UNCHANGED booking
  BY DEF tableVars
<1>12. UNCHANGED vars => UNCHANGED booking
  BY DEF vars, tableVars
<1> QED
  BY <1>2, <1>4, <1>5, <1>6, <1>7, <1>8, <1>9, <1>10, <1>11, <1>12 DEF Next

(***************************************************************************)
(* "An illegal jump is impossible": the status moves along the transition  *)
(* table, while only safe pairs overlap.                                   *)
(***************************************************************************)
THEOREM JumpsAreImpossible ==
  ASSUME SafeOverlap
  PROVE  TxnSpec => NoIllegalJump
<1> DEFINE Legal == \A b \in BookingIds :
                      booking[b].status \notin {"absent", booking'[b].status} =>
                        <<booking[b].status, booking'[b].status>> \in LegalMoves
<1>1. IInv /\ Serial /\ [TxnNext]_allVars => Legal
  <2> SUFFICES ASSUME IInv, Serial, [TxnNext]_allVars, NEW b \in BookingIds,
                      booking[b].status \notin {"absent", booking'[b].status}
               PROVE  <<booking[b].status, booking'[b].status>> \in LegalMoves
    BY DEF Legal
  <2>1. TypeOK /\ [Next]_vars
    BY StepRefines DEF Serial, BooksInv
  <2> QED
    BY <2>1, JumpsAreLegal
<1> HIDE DEF Legal
<1>2. TxnSpec => [][Legal]_allVars
  BY <1>1, SerialAlways, PTL DEF TxnSpec
<1> QED
  BY <1>2 DEF NoIllegalJump, Legal
=============================================================================
