----------------------------- MODULE WorkerTrades -----------------------------
(***************************************************************************)
(* How a worker comes to be given work: verification, the availability     *)
(* switch, the trades declared at onboarding and the requests for more     *)
(* trades that support decides (app/api/v1/worker.py, app/api/v1/admin.py, *)
(* app/models/worker.py).                                                  *)
(*                                                                         *)
(* A call of the API is one READ COMMITTED transaction: it reads, decides  *)
(* on what it read, and commits; nothing here takes a row lock before it   *)
(* reads.  The unique index on worker_services and the partial unique      *)
(* index on pending requests are checked by the database at the commit.    *)
(***************************************************************************)
EXTENDS Marketplace

CONSTANTS RequestIds,  \* ids of worker_service_requests rows
          Calls        \* slots: API calls being served at a time

ASSUME RequestIdsAssumption == RequestIds # {}

VARIABLES verification_status,
          is_available,
          cleared,   \* worker_services
          request,   \* worker_service_requests
          call,      \* what each call in flight has read
          raced      \* for the properties: the workers for whom two calls
                     \* that write what they decided on have overlapped

profileVars == <<verification_status, is_available>>
vars == <<profileVars, cleared, request, call, raced>>

WorkerVerificationStatus == {"pending", "under_review", "verified", "rejected"}
ServiceRequestStatus == {"pending", "approved", "rejected", "withdrawn"}

Pairs == WorkerIds \X ServiceIds
NoPair == <<None, None>>

\* A row of the table of requests; "absent": the id is not used yet.
RequestRow == [pair   : Pairs \cup {NoPair},
               status : ServiceRequestStatus \cup {"absent"}]

AbsentRequest == [pair |-> NoPair, status |-> "absent"]

(***************************************************************************)
(* A call in flight: the pairs it will insert into worker_services and     *)
(* delete there, the request it will write, and what it will write there.  *)
(***************************************************************************)
Call == [phase : {"idle", "loaded", "ready"},
         op    : {"declare", "request", "withdraw", "decide"},
         adds  : SUBSET Pairs,
         drops : SUBSET Pairs,
         q     : RequestIds,
         row   : RequestRow]

IdleCall == [phase |-> "idle", op |-> "declare", adds |-> {}, drops |-> {},
             q |-> CHOOSE q \in RequestIds : TRUE, row |-> AbsentRequest]

TradesTypeOK ==
  /\ verification_status \in [WorkerIds -> WorkerVerificationStatus]
  /\ is_available \in [WorkerIds -> BOOLEAN]
  /\ cleared \subseteq Pairs
  /\ request \in [RequestIds -> RequestRow]
  /\ call \in [Calls -> Call]
  /\ raced \subseteq WorkerIds

\* get_or_create_user gives a new worker a profile with these defaults.
TradesInit ==
  /\ verification_status = [w \in WorkerIds |-> "pending"]
  /\ is_available = [w \in WorkerIds |-> TRUE]
  /\ cleared = {}
  /\ request = [q \in RequestIds |-> AbsentRequest]
  /\ call = [c \in Calls |-> IdleCall]
  /\ raced = {}

-----------------------------------------------------------------------------
TradesOf(w) == {s \in ServiceIds : <<w, s>> \in cleared}

\* Mutant: trades freeze at verification, as they used to.
IsLocked_AtVerification(w) == verification_status[w] = "verified"

\* Trades freeze the moment the worker declares them.
IsLocked(w) == TradesOf(w) # {}

IdleAt(c) == call[c].phase = "idle"

\* The workers whose trades, or requests, a call in flight is about.
About(c) == {pair[1] : pair \in call[c].adds \cup {call[c].row.pair}}

\* Another declaration, withdrawal or decision that is about w is in flight.
Contended(w) ==
  \E d \in Calls : ~IdleAt(d) /\ call[d].op # "request" /\ w \in About(d)

\* A call has read what it needs about w and decided what to do.
Start(c, w, loaded) ==
  /\ IdleAt(c)
  /\ call' = [call EXCEPT ![c] = loaded]
  /\ raced' = IF loaded.op # "request" /\ Contended(w) THEN raced \cup {w} ELSE raced
  /\ UNCHANGED <<profileVars, cleared, request>>

Finish(c) == call' = [call EXCEPT ![c] = IdleCall] /\ UNCHANGED raced

\* An error response, a constraint violation, a lost client: rollback.
Rollback(c) == Finish(c) /\ UNCHANGED <<profileVars, cleared, request>>

\* A call that is ready to write a row of the table of requests.
Writing(op, q, row) ==
  [IdleCall EXCEPT !.phase = "ready", !.op = op, !.q = q, !.row = row]

At(c, op, phase) == call[c].op = op /\ call[c].phase = phase

-----------------------------------------------------------------------------
\* PUT /worker/services: the worker declares a trade list, onboarding's last
\* step.  The handler is written to replace a list; the lock leaves it nothing
\* to drop.
DeclareLoad(c, w, S) ==
  /\ S # {} /\ ~IsLocked(w)
  /\ Start(c, w, [IdleCall EXCEPT !.phase = "ready",
                    !.adds = {w} \X (S \ TradesOf(w)),
                    !.drops = {w} \X (TradesOf(w) \ S)])

\* uq_worker_services_pair refuses a pair somebody else has committed.
DeclareCommit(c) ==
  /\ At(c, "declare", "ready")
  /\ IF call[c].adds \cap cleared = {}
       THEN /\ cleared' = (cleared \ call[c].drops) \cup call[c].adds
            /\ UNCHANGED <<profileVars, request>>
            /\ Finish(c)
       ELSE Rollback(c)

\* A pending request for the trade.
LiveRequest(pair) ==
  \E q \in RequestIds : request[q] = [pair |-> pair, status |-> "pending"]

\* POST /worker/service-requests
RequestLoad(c, w, s) ==
  /\ <<w, s>> \notin cleared
  /\ ~LiveRequest(<<w, s>>)
  /\ \E q \in RequestIds :
       /\ request[q] = AbsentRequest
       /\ \A d \in Calls : ~IdleAt(d) => call[d].q # q \/ call[d].op # "request"
       /\ Start(c, w, Writing("request", q, [pair |-> <<w, s>>, status |-> "pending"]))

\* Mutant: there is no partial unique index on pending requests.
IndexAllows_Anything(row) == TRUE

\* uq_worker_service_requests_pending: one pending row for a pair.
IndexAllows(row) == row.status = "pending" => ~LiveRequest(row.pair)

RequestCommit(c) ==
  /\ At(c, "request", "ready")
  /\ IF IndexAllows(call[c].row)
       THEN /\ request' = [request EXCEPT ![call[c].q] = call[c].row]
            /\ UNCHANGED <<profileVars, cleared>>
            /\ Finish(c)
       ELSE Rollback(c)

\* Mutant: a decided request can be decided, or withdrawn, again.
Undecided_Always(q) == request[q].status # "absent"

Undecided(q) == request[q].status = "pending"

\* POST /worker/service-requests/{id}/withdraw, by the worker whose it is.
WithdrawLoad(c, q) ==
  /\ Undecided(q)
  /\ Start(c, request[q].pair[1],
           Writing("withdraw", q, [request[q] EXCEPT !.status = "withdrawn"]))

WithdrawCommit(c) ==
  /\ At(c, "withdraw", "ready")
  /\ request' = [request EXCEPT ![call[c].q] = call[c].row]
  /\ UNCHANGED <<profileVars, cleared>>
  /\ Finish(c)

\* Mutant: the decision's own word is written to the status column.
Decision_AsSent(approve) == IF approve THEN "approve" ELSE "reject"

Decision(approve) == IF approve THEN "approved" ELSE "rejected"

\* POST /admin/service-requests/{id}/decide
DecideLoad(c, q, approve) ==
  /\ Undecided(q)
  /\ Start(c, request[q].pair[1],
           [Writing("decide", q, [request[q] EXCEPT !.status = Decision(approve)])
              EXCEPT !.phase = IF approve THEN "loaded" ELSE "ready"])

\* Mutant: the decision is committed and the clearance is left for later.
Clearance_Forgotten(pair) == {}

\* What an approval has to insert, unless the worker has been cleared already.
Clearance(pair) == {pair} \ cleared

DecideCheckExisting(c) ==
  /\ At(c, "decide", "loaded")
  /\ call' = [call EXCEPT ![c].phase = "ready", ![c].adds = Clearance(call[c].row.pair)]
  /\ UNCHANGED <<profileVars, cleared, request, raced>>

DecideCommit(c) ==
  /\ At(c, "decide", "ready")
  /\ IF call[c].adds \cap cleared = {}
       THEN /\ request' = [request EXCEPT ![call[c].q] = call[c].row]
            /\ cleared' = cleared \cup call[c].adds
            /\ UNCHANGED profileVars
            /\ Finish(c)
       ELSE Rollback(c)

Abort(c) == ~IdleAt(c) /\ Rollback(c)

-----------------------------------------------------------------------------
\* POST /admin/workers/{id}/verify: one blind write of the decision.
VerifyWorker(w, decision) ==
  /\ verification_status' = [verification_status EXCEPT ![w] = decision]
  /\ UNCHANGED <<is_available, cleared, request, call, raced>>

\* PATCH /worker/profile, the availability switch.
UpdateProfile(w, v) ==
  /\ is_available' = [is_available EXCEPT ![w] = v]
  /\ UNCHANGED <<verification_status, cleared, request, call, raced>>

TradesNext ==
  \/ \E c \in Calls :
       \/ \E w \in WorkerIds, S \in SUBSET ServiceIds : DeclareLoad(c, w, S)
       \/ \E w \in WorkerIds, s \in ServiceIds : RequestLoad(c, w, s)
       \/ \E q \in RequestIds :
            \/ WithdrawLoad(c, q)
            \/ \E approve \in BOOLEAN : DecideLoad(c, q, approve)
       \/ DecideCheckExisting(c)
       \/ DeclareCommit(c)
       \/ RequestCommit(c)
       \/ WithdrawCommit(c)
       \/ DecideCommit(c)
       \/ Abort(c)
  \/ \E w \in WorkerIds :
       \/ \E decision \in WorkerVerificationStatus : VerifyWorker(w, decision)
       \/ \E v \in BOOLEAN : UpdateProfile(w, v)

TradesSpec == TradesInit /\ [][TradesNext]_vars

-----------------------------------------------------------------------------
(***************************************************************************)
(* "There is no window where a request reads approved while the worker     *)
(* still cannot see those jobs" (decide_service_request).                  *)
(***************************************************************************)
ApprovedMeansCleared ==
  \A q \in RequestIds : request[q].status = "approved" => request[q].pair \in cleared

(***************************************************************************)
(* One live request per worker and trade, however many are sent at once    *)
(* (request_service and the partial index).                                *)
(***************************************************************************)
OneLiveRequest ==
  \A p, q \in RequestIds :
     /\ request[p].status = "pending" /\ request[q].status = "pending"
     /\ request[p].pair = request[q].pair
     => p = q

\* What dispatching a booking relies on.
R == INSTANCE Roster WITH verified <- [w \in WorkerIds |-> verification_status[w] = "verified"]

(***************************************************************************)
(* Trades, requests and decisions implement the roster that bookings read: *)
(* in particular a clearance, once given, is never taken away again.       *)
(***************************************************************************)
ImplementsRoster == R!RosterSpec

(***************************************************************************)
(* "Trades are declared once, and frozen from that moment": a worker who   *)
(* has trades only gets another through an approved request.  A second     *)
(* set_services, or a request that was turned down, never widens the list, *)
(* until two calls about the worker race: two declarations that overlap    *)
(* both find the list empty, and both are kept.                            *)
(***************************************************************************)
TradesFrozen ==
  [][\A w \in WorkerIds \ raced : TradesOf(w) # {} =>
        \A s \in TradesOf(w)' \ TradesOf(w) :
           \E q \in RequestIds :
              request'[q] = [pair |-> <<w, s>>, status |-> "approved"]]_vars

(***************************************************************************)
(* "That request has already been decided": a decided or withdrawn request *)
(* never changes again, until two calls about its worker race: a decision  *)
(* and a withdrawal that overlap both find it pending, and the later one   *)
(* stays.                                                                  *)
(***************************************************************************)
DecisionsAreFinal ==
  [][\A q \in RequestIds :
        request[q].status \notin {"absent", "pending"}
          /\ request[q].pair[1] \notin raced => request'[q] = request[q]]_vars
=============================================================================
