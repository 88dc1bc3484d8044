-------------------------------- MODULE Views --------------------------------
(***************************************************************************)
(* What the API shows of the bookings: the workers' pool and job list, the *)
(* dispatcher's candidates, one booking as each party may see it, and the  *)
(* totals of /worker/earnings and /admin/stats.                            *)
(*                                                                         *)
(* Each view is a query of its own, written apart from the operations      *)
(* whose outcome it announces.  Views change nothing: these are state      *)
(* functions of Bookings.                                                  *)
(***************************************************************************)
EXTENDS Bookings, Pricing, Functions

CONSTANTS Orders,   \* the price, commission rate and quantity of each booking
          Contacts  \* the bookings at an address that was saved with a contact's number

ASSUME OrdersAssumption ==
  Orders \in [BookingIds -> [price : Nat, rate : 0..1000, quantity : Nat]]

ASSUME ContactsAssumption == Contacts \subseteq BookingIds

\* A worker is neither an admin nor a customer: a user has one role.
ASSUME ViewersAssumption == {"admin", "customer"} \cap WorkerIds = {}

\* The dashboard adds up over the users there are.
ASSUME WorkersAssumption == IsFiniteSet(WorkerIds)

TERMINAL_BOOKING_STATUSES == {"closed", "cancelled"}

Rows == {b \in BookingIds : booking[b] # AbsentRow}

\* Mutant: the pool is the same for everybody.
OpenJobs_AnyTrade(w) == {b \in BookingIds : Open(booking[b])}

\* open_jobs_for_worker
OpenJobs(w) ==
  {b \in BookingIds : /\ booking[b].status = "pending" /\ booking[b].worker_id = None
                      /\ <<w, ServiceOf[b]>> \in cleared}

\* GET /worker/available-jobs: empty when the worker may not take work.
AvailableJobs(w) == IF verified[w] /\ is_available[w] THEN OpenJobs(w) ELSE {}

\* GET /worker/jobs, and GET /bookings for a worker.
Jobs(w) == {b \in Rows : booking[b].worker_id = w}

\* GET /worker/jobs?active_only=true
ActiveJobs(w) == {b \in Jobs(w) : booking[b].status \notin TERMINAL_BOOKING_STATUSES}

\* GET /admin/bookings/{id}/candidates, for a booking in whatever status.
Candidates(b) ==
  {w \in WorkerIds : <<w, ServiceOf[b]>> \in cleared /\ verified[w] /\ is_available[w]}

-----------------------------------------------------------------------------
\* An admin, the customer whose booking it is, or a worker.
Viewers == {"admin", "customer"} \cup WorkerIds

\* assert_can_view
CanView(b, viewer) ==
  b \in Rows /\ (viewer \in {"admin", "customer"} \/ booking[b].worker_id = viewer)

\* The bookings that some GET shows to a worker.
ShownTo(w) == AvailableJobs(w) \cup Jobs(w) \cup {b \in BookingIds : CanView(b, w)}

\* Mutant: a job that is done counts as over, though nobody has paid yet.
CONTACT_VISIBLE_STATUSES_NotCompleted == {"assigned", "accepted", "en_route", "in_progress"}

CONTACT_VISIBLE_STATUSES ==
  {"assigned", "accepted", "en_route", "in_progress", "completed"}

SharesContacts(b, viewer) ==
  viewer = "admin" \/ booking[b].status \in CONTACT_VISIBLE_STATUSES

\* serialize: which of the sensitive fields are filled in.  The numbers of the
\* two accounts are filtered; the address comes as it was saved.
Serialize(b, viewer) ==
  [customer_phone |-> SharesContacts(b, viewer),
   worker_phone   |-> booking[b].worker_id # None /\ SharesContacts(b, viewer),
   contact_phone  |-> b \in Contacts,
   commission     |-> viewer # "customer"]

-----------------------------------------------------------------------------
MoneyOf(b) == Quote(Orders[b].price, Orders[b].rate, Orders[b].quantity)

Total == [b \in BookingIds |-> MoneyOf(b).total_amount]
CommissionOf == [b \in BookingIds |-> MoneyOf(b).commission_amount]
PayoutOf == [b \in BookingIds |-> MoneyOf(b).worker_payout]

\* Mutant: a job counts for the worker once it is paid for.
Earned_WhenClosed(w) == {b \in Jobs(w) : booking[b].status = "closed"}

\* The jobs GET /worker/earnings sums over.
Earned(w) == {b \in Jobs(w) : booking[b].status \in {"completed", "closed"}}

Earnings(w) ==
  [jobs_completed      |-> Cardinality(Earned(w)),
   gross_amount        |-> SumFunctionOnSet(Total, Earned(w)),
   commission_deducted |-> SumFunctionOnSet(CommissionOf, Earned(w)),
   net_earnings        |-> SumFunctionOnSet(PayoutOf, Earned(w))]

\* The bookings GET /admin/stats sums over.
Done == {b \in Rows : booking[b].status \in {"completed", "closed"}}

\* GET /admin/stats
Stats ==
  [bookings_by_status  |-> [s \in BookingStatus |->
                             Cardinality({b \in Rows : booking[b].status = s})],
   gross_booking_value |-> SumFunctionOnSet(Total, Done),
   commission_revenue  |-> SumFunctionOnSet(CommissionOf, Done)]

-----------------------------------------------------------------------------
(***************************************************************************)
(* "A worker never sees a job they could not legally take", and no job     *)
(* falls between the lists: one that nobody is on is shown to exactly the  *)
(* workers who can claim it, who are also those a dispatcher is offered;   *)
(* one that is under way is on one worker's active list and in no pool.    *)
(***************************************************************************)
EveryJobIsSomewhere ==
  \A b \in Rows :
    LET pools == {w \in WorkerIds : b \in AvailableJobs(w)}
        lists == {w \in WorkerIds : b \in ActiveJobs(w)}
    IN  CASE booking[b].status = "pending" ->
               /\ lists = {} /\ pools = Candidates(b)
               /\ pools = {w \in WorkerIds : IsAssignable(w) /\ MayTake(w, b)}
          [] booking[b].status \in TERMINAL_BOOKING_STATUSES -> lists = {} /\ pools = {}
          [] OTHER -> Cardinality(lists) = 1 /\ pools = {}

(***************************************************************************)
(* The parties of a job can call each other exactly while it is live: over *)
(* everything a worker can be shown, the number of the customer's account  *)
(* is there for the jobs the worker is on that are not over, and that of   *)
(* the worker's account is there for the customer exactly then too.  It is *)
(* about the accounts (`customer` and `worker` of the response) only.      *)
(***************************************************************************)
AccountPhonesAreForLiveJobs ==
  \A b \in Rows :
    /\ \A w \in WorkerIds :
         (b \in ShownTo(w) /\ Serialize(b, w).customer_phone) <=> b \in ActiveJobs(w)
    /\ Serialize(b, "customer").worker_phone <=> \E w \in WorkerIds : b \in ActiveJobs(w)

(***************************************************************************)
(* "Phone numbers are exchanged only while a job is actually live", which  *)
(* is the comment on the filter: of a job that a worker is not on, or that *)
(* is over, the worker is shown no number to call.  The address breaks it. *)
(***************************************************************************)
PhonesAreForLiveJobs ==
  \A w \in WorkerIds : \A b \in ShownTo(w) :
    Serialize(b, w).customer_phone \/ Serialize(b, w).contact_phone
      => b \in ActiveJobs(w)

(***************************************************************************)
(* The books balance: what the workers are told they earned and what the   *)
(* dashboard calls commission make up its gross value, and each worker's   *)
(* earnings are for as many jobs as the public profile counts.             *)
(***************************************************************************)
BooksBalance ==
  /\ SumFunction([w \in WorkerIds |-> Earnings(w).net_earnings])
       + Stats.commission_revenue = Stats.gross_booking_value
  /\ \A w \in WorkerIds :
       /\ Earnings(w).jobs_completed = jobs_completed[w]
       /\ Earnings(w).net_earnings
            = Earnings(w).gross_amount - Earnings(w).commission_deducted
=============================================================================
