-------------------------- MODULE WorkerTradesProofs --------------------------
(***************************************************************************)
(* What holds of trades, requests and decisions for any numbers of         *)
(* workers, trades, requests and calls in flight.                          *)
(*                                                                         *)
(* A call commits what it decided on rows it read a while ago, and takes   *)
(* no lock.  Promise is what still holds of those rows when it commits:    *)
(* some of it unconditionally (clearances are never dropped, ids of new    *)
(* requests are its own), the rest unless another call about the worker    *)
(* was in flight with it, which NoSecretRace says is on record in raced.   *)
(***************************************************************************)
EXTENDS WorkerTrades, TLAPS

InFlight(c, ops) == ~IdleAt(c) /\ call[c].op \in ops

\* The list a declaration will insert, and that it was the worker's first.
DeclarePromise(c) ==
  InFlight(c, {"declare"}) =>
    \E w \in WorkerIds, S \in SUBSET ServiceIds :
       /\ call[c].adds = {w} \X S /\ S # {}
       /\ w \notin raced => TradesOf(w) = {}

RequestPromise(c) ==
  InFlight(c, {"request"}) =>
    /\ call[c].row.pair \in Pairs /\ call[c].row.status = "pending"
    /\ request[call[c].q].status = "absent"

\* A withdrawal or a decision is about the request it read.
OutcomePromise(c) ==
  InFlight(c, {"withdraw", "decide"}) =>
    /\ call[c].row.pair \in Pairs
    /\ call[c].row.status \in {"approved", "rejected", "withdrawn"}
    /\ request[call[c].q].status # "absent"
    /\ request[call[c].q].pair = call[c].row.pair
    /\ call[c].row.pair[1] \notin raced => request[call[c].q].status = "pending"

ClearancePromise(c) ==
  /\ call[c].phase = "loaded" => call[c].op = "decide"
  /\ InFlight(c, {"withdraw"}) => call[c].row.status = "withdrawn"
  /\ InFlight(c, {"decide"}) =>
       /\ call[c].adds \subseteq {call[c].row.pair}
       /\ call[c].phase = "loaded" => call[c].row.status = "approved"
       /\ call[c].adds # {} => call[c].row.status = "approved"
       /\ call[c].phase = "ready" /\ call[c].row.status = "approved" =>
            call[c].row.pair \in cleared \cup call[c].adds

Promise(c) ==
  /\ call[c].drops = {}
  /\ DeclarePromise(c) /\ RequestPromise(c) /\ OutcomePromise(c) /\ ClearancePromise(c)

\* Calls that write what they decided on.
Writers == {"declare", "withdraw", "decide"}

NoSecretRace ==
  \A c, d \in Calls, w \in WorkerIds :
     InFlight(c, Writers) /\ InFlight(d, Writers) /\ w \in About(c) \cap About(d)
       => c = d \/ w \in raced

OwnIds ==
  \A c, d \in Calls :
     InFlight(c, {"request"}) /\ InFlight(d, {"request"}) /\ call[c].q = call[d].q
       => c = d

RequestsNamePairs ==
  \A q \in RequestIds : request[q].status # "absent" => request[q].pair \in Pairs

TradesInv ==
  /\ TradesTypeOK
  /\ ApprovedMeansCleared
  /\ OneLiveRequest
  /\ RequestsNamePairs
  /\ \A c \in Calls : Promise(c)
  /\ NoSecretRace
  /\ OwnIds

-----------------------------------------------------------------------------
(***************************************************************************)
(* A slot with nothing in it, and what a call that writes one row carries. *)
(***************************************************************************)
LEMMA IdleCallType ==
  /\ IdleCall \in Call
  /\ IdleCall.phase = "idle" /\ IdleCall.op = "declare"
  /\ IdleCall.adds = {} /\ IdleCall.drops = {}
  /\ IdleCall.row = AbsentRequest
<1>1. (CHOOSE q \in RequestIds : TRUE) \in RequestIds
  BY RequestIdsAssumption
<1>2. AbsentRequest \in RequestRow
  BY DEF AbsentRequest, RequestRow
<1> QED
  BY <1>1, <1>2 DEF IdleCall, Call

LEMMA WritingType ==
  ASSUME NEW op \in {"request", "withdraw", "decide"}, NEW q \in RequestIds,
         NEW row \in RequestRow
  PROVE  LET k == Writing(op, q, row) IN
           /\ k \in Call
           /\ k.phase = "ready" /\ k.op = op /\ k.q = q /\ k.row = row
           /\ k.adds = {} /\ k.drops = {}
<1> QED
  BY IdleCallType DEF Writing, Call

(***************************************************************************)
(* The promise of a call outlives a step of somebody else, unless that     *)
(* step writes its worker's trades or its request behind its back.         *)
(***************************************************************************)
LEMMA PromiseFrame ==
  ASSUME TradesInv, NEW d \in Calls, call'[d] = call[d],
         raced \subseteq raced', cleared \subseteq cleared',
         \A w \in WorkerIds \ raced' :
            InFlight(d, {"declare"}) /\ w \in About(d) => TradesOf(w)' \subseteq TradesOf(w),
         InFlight(d, {"request"}) => request'[call[d].q] = request[call[d].q],
         InFlight(d, {"withdraw", "decide"}) =>
            LET q == call[d].q IN
              /\ request[q].status # "absent" => request'[q].status # "absent"
              /\ request'[q].pair = request[q].pair
              /\ call[d].row.pair[1] \in raced' \/ request'[q] = request[q]
  PROVE  Promise(d)'
<1> DEFINE k == call[d]
<1>1. Promise(d)
  BY DEF TradesInv
<1>2. DeclarePromise(d)'
  <2> SUFFICES ASSUME InFlight(d, {"declare"})
               PROVE  \E w \in WorkerIds, S \in SUBSET ServiceIds :
                         /\ k.adds = {w} \X S /\ S # {}
                         /\ w \notin raced' => TradesOf(w)' = {}
    BY DEF DeclarePromise, InFlight, IdleAt
  <2>1. PICK w \in WorkerIds, S \in SUBSET ServiceIds :
           /\ k.adds = {w} \X S /\ S # {}
           /\ w \notin raced => TradesOf(w) = {}
    BY <1>1 DEF Promise, DeclarePromise
  <2>2. w \in About(d)
    <3>1. PICK s \in S : TRUE
      BY <2>1
    <3>2. <<w, s>> \in k.adds /\ <<w, s>>[1] = w
      BY <2>1, <3>1
    <3> QED
      BY <3>2 DEF About
  <2>3. w \notin raced' => TradesOf(w)' = {}
    BY <2>1, <2>2
  <2> QED
    BY <2>1, <2>3
<1>3. RequestPromise(d)' /\ OutcomePromise(d)'
  BY <1>1 DEF Promise, RequestPromise, OutcomePromise, InFlight, IdleAt
<1>4. ClearancePromise(d)'
  BY <1>1 DEF Promise, ClearancePromise, InFlight, IdleAt
<1> QED
  BY <1>1, <1>2, <1>3, <1>4 DEF Promise

(***************************************************************************)
(* A call that has just read: nothing is written, and if another call is   *)
(* about the same worker the race is recorded.                             *)
(***************************************************************************)
LEMMA StartStep ==
  ASSUME TradesInv, NEW c \in Calls, NEW w \in WorkerIds, NEW loaded \in Call,
         Start(c, w, loaded),
         loaded.phase # "idle",
         \A pair \in loaded.adds \cup {loaded.row.pair} : pair[1] \in {w, None},
         loaded.op = "request" =>
            \A d \in Calls : InFlight(d, {"request"}) => call[d].q # loaded.q,
         Promise(c)'
  PROVE  TradesInv'
<1>1. /\ call \in [Calls -> Call] /\ raced \subseteq WorkerIds
      /\ TradesTypeOK
  BY DEF TradesInv, TradesTypeOK
<1>2. /\ call' = [call EXCEPT ![c] = loaded]
      /\ raced \subseteq raced' /\ raced' \subseteq WorkerIds
      /\ loaded.op # "request" /\ Contended(w) => w \in raced'
      /\ UNCHANGED <<profileVars, cleared, request>>
      /\ IdleAt(c)
  BY <1>1 DEF Start
<1>3. call'[c] = loaded /\ \A d \in Calls \ {c} : call'[d] = call[d]
  BY <1>1, <1>2
<1>4. TradesTypeOK'
  BY <1>1, <1>2 DEF TradesTypeOK, profileVars
<1>5. ApprovedMeansCleared' /\ OneLiveRequest' /\ RequestsNamePairs'
  BY <1>2 DEF TradesInv, ApprovedMeansCleared, OneLiveRequest, RequestsNamePairs
<1>6. ASSUME NEW d \in Calls PROVE Promise(d)'
  <2>1. CASE d = c
    BY <2>1
  <2>2. CASE d # c
    <3>1. \A v \in WorkerIds : TradesOf(v)' = TradesOf(v)
      BY <1>2 DEF TradesOf
    <3>2. call'[d] = call[d]
      BY <1>3, <2>2
    <3> QED
      BY <1>2, <3>1, <3>2, PromiseFrame
  <2> QED
    BY <2>1, <2>2
<1>7. NoSecretRace'
  <2>1. \A d \in Calls \ {c} : \A ops : InFlight(d, ops)' = InFlight(d, ops)
    BY <1>3 DEF InFlight, IdleAt
  <2>2. \A d \in Calls \ {c} : About(d)' = About(d)
    BY <1>3 DEF About
  <2>3. \A v \in WorkerIds : v \in About(c)' => v = w
    BY <1>3, NoneAssumption DEF About
  <2>4. ASSUME NEW d \in Calls \ {c}, InFlight(c, Writers)', InFlight(d, Writers),
               w \in About(d)
        PROVE  w \in raced'
    <3>1. loaded.op # "request"
      BY <1>3, <2>4 DEF InFlight, Writers
    <3>2. Contended(w)
      BY <2>4 DEF Contended, InFlight, Writers
    <3> QED
      BY <1>2, <3>1, <3>2
  <2>5. NoSecretRace
    BY DEF TradesInv
  <2> QED
    BY <1>2, <2>1, <2>2, <2>3, <2>4, <2>5 DEF NoSecretRace
<1>8. OwnIds'
  BY <1>3 DEF TradesInv, OwnIds, InFlight, IdleAt
<1> QED
  BY <1>4, <1>5, <1>6, <1>7, <1>8 DEF TradesInv

(***************************************************************************)
(* A declaration has read that the worker has no trade yet, so that it has *)
(* nothing to drop.                                                        *)
(***************************************************************************)
LEMMA DeclareLoadStep ==
  ASSUME TradesInv, NEW c \in Calls, NEW w \in WorkerIds, NEW S \in SUBSET ServiceIds,
         DeclareLoad(c, w, S)
  PROVE  TradesInv'
<1> DEFINE loaded == [IdleCall EXCEPT !.phase = "ready",
                        !.adds = {w} \X (S \ TradesOf(w)),
                        !.drops = {w} \X (TradesOf(w) \ S)]
<1>1. TradesOf(w) = {} /\ S # {}
  BY DEF DeclareLoad, IsLocked
<1>2. /\ loaded \in Call
      /\ loaded.phase = "ready" /\ loaded.op = "declare"
      /\ loaded.adds = {w} \X S /\ loaded.drops = {}
      /\ loaded.row.pair = <<None, None>>
  <2>1. {w} \X (S \ TradesOf(w)) = {w} \X S /\ {w} \X (TradesOf(w) \ S) = {}
    BY <1>1
  <2>2. {w} \X S \in SUBSET Pairs /\ {} \in SUBSET Pairs
    BY DEF Pairs
  <2>3. IdleCall.row.pair = <<None, None>>
    BY IdleCallType DEF AbsentRequest, NoPair
  <2>4. loaded = [IdleCall EXCEPT !.phase = "ready", !.adds = {w} \X S, !.drops = {}]
    BY <2>1
  <2> QED
    BY <2>2, <2>3, <2>4, IdleCallType DEF Call
<1>3. Start(c, w, loaded)
  BY DEF DeclareLoad
<1> HIDE DEF loaded
<1>4. \A pair \in loaded.adds \cup {loaded.row.pair} : pair[1] \in {w, None}
  BY <1>2
<1>5. Promise(c)'
  <2>1. call'[c] = loaded /\ TradesOf(w)' = {}
    BY <1>1, <1>3 DEF Start, TradesInv, TradesTypeOK, TradesOf
  <2>2. DeclarePromise(c)'
    BY <1>1, <1>2, <2>1 DEF DeclarePromise
  <2> QED
    BY <1>2, <2>1, <2>2 DEF Promise, RequestPromise, OutcomePromise, ClearancePromise,
                            InFlight
<1> QED
  BY <1>2, <1>3, <1>4, <1>5, StartStep

(***************************************************************************)
(* A request has picked an id that no row and no other request has.        *)
(***************************************************************************)
LEMMA RequestLoadStep ==
  ASSUME TradesInv, NEW c \in Calls, NEW w \in WorkerIds, NEW s \in ServiceIds,
         RequestLoad(c, w, s)
  PROVE  TradesInv'
<1> DEFINE row == [pair |-> <<w, s>>, status |-> "pending"]
<1>1. PICK q \in RequestIds :
        /\ request[q] = AbsentRequest
        /\ \A d \in Calls : ~IdleAt(d) => call[d].q # q \/ call[d].op # "request"
        /\ Start(c, w, Writing("request", q, row))
  BY DEF RequestLoad
<1> DEFINE loaded == Writing("request", q, row)
<1>2. row \in RequestRow /\ row.pair \in Pairs
  BY DEF RequestRow, Pairs, ServiceRequestStatus
<1>3. /\ loaded \in Call
      /\ loaded.phase = "ready" /\ loaded.op = "request" /\ loaded.q = q
      /\ loaded.row = row /\ loaded.adds = {} /\ loaded.drops = {}
  BY <1>2, WritingType
<1>4. row.pair[1] = w /\ row.status = "pending"
  OBVIOUS
<1>5. Start(c, w, loaded)
  BY <1>1
<1> HIDE DEF loaded, row
<1>6. \A pair \in loaded.adds \cup {loaded.row.pair} : pair[1] \in {w, None}
  BY <1>3, <1>4
<1>7. \A d \in Calls : InFlight(d, {"request"}) => call[d].q # loaded.q
  BY <1>1, <1>3 DEF InFlight
<1>8. Promise(c)'
  <2>1. call'[c] = loaded /\ request' = request
    BY <1>5 DEF Start, TradesInv, TradesTypeOK
  <2>2. RequestPromise(c)'
    BY <1>1, <1>2, <1>3, <1>4, <2>1 DEF RequestPromise, AbsentRequest
  <2> QED
    BY <1>3, <2>1, <2>2 DEF Promise, DeclarePromise, OutcomePromise, ClearancePromise,
                            InFlight
<1> QED
  BY <1>3, <1>5, <1>6, <1>7, <1>8, StartStep

(***************************************************************************)
(* A withdrawal or a decision has read a pending request.                  *)
(***************************************************************************)
LEMMA OutcomeLoadStep ==
  ASSUME TradesInv, NEW c \in Calls, NEW q \in RequestIds, NEW loaded \in Call,
         Undecided(q),
         Start(c, request[q].pair[1], loaded),
         loaded.phase \in {"loaded", "ready"}, loaded.op \in {"withdraw", "decide"},
         loaded.q = q, loaded.adds = {}, loaded.drops = {},
         loaded.row.pair = request[q].pair,
         loaded.op = "withdraw" =>
            loaded.phase = "ready" /\ loaded.row.status = "withdrawn",
         loaded.op = "decide" =>
            loaded.row.status = IF loaded.phase = "loaded" THEN "approved" ELSE "rejected"
  PROVE  TradesInv'
<1> DEFINE w == request[q].pair[1]
<1>1. request[q].status = "pending" /\ request[q].pair \in Pairs
  BY DEF Undecided, TradesInv, RequestsNamePairs
<1>2. w \in WorkerIds
  BY <1>1 DEF Pairs
<1>3. \A pair \in loaded.adds \cup {loaded.row.pair} : pair[1] \in {w, None}
  OBVIOUS
<1>4. Promise(c)'
  <2>1. call'[c] = loaded /\ request' = request
    BY DEF Start, TradesInv, TradesTypeOK
  <2>2. OutcomePromise(c)'
    BY <1>1, <2>1 DEF OutcomePromise
  <2>3. ClearancePromise(c)'
    BY <2>1 DEF ClearancePromise, InFlight
  <2> QED
    BY <2>1, <2>2, <2>3 DEF Promise, DeclarePromise, RequestPromise, InFlight
<1> QED
  BY <1>2, <1>3, <1>4, StartStep

LEMMA WithdrawLoadStep ==
  ASSUME TradesInv, NEW c \in Calls, NEW q \in RequestIds, WithdrawLoad(c, q)
  PROVE  TradesInv'
<1> DEFINE row == [request[q] EXCEPT !.status = "withdrawn"]
           loaded == Writing("withdraw", q, row)
<1>1. row \in RequestRow /\ row.status = "withdrawn" /\ row.pair = request[q].pair
  BY DEF TradesInv, TradesTypeOK, RequestRow, ServiceRequestStatus
<1>2. Undecided(q) /\ Start(c, request[q].pair[1], loaded)
  BY DEF WithdrawLoad
<1> HIDE DEF row
<1>3. /\ loaded \in Call
      /\ loaded.phase = "ready" /\ loaded.op = "withdraw" /\ loaded.q = q
      /\ loaded.row = row /\ loaded.adds = {} /\ loaded.drops = {}
  BY <1>1, WritingType
<1> HIDE DEF loaded
<1> QED
  BY <1>1, <1>2, <1>3, OutcomeLoadStep

LEMMA DecideLoadStep ==
  ASSUME TradesInv, NEW c \in Calls, NEW q \in RequestIds, NEW approve \in BOOLEAN,
         DecideLoad(c, q, approve)
  PROVE  TradesInv'
<1> DEFINE row == [request[q] EXCEPT !.status = Decision(approve)]
           writing == Writing("decide", q, row)
           loaded == [writing EXCEPT !.phase = IF approve THEN "loaded" ELSE "ready"]
<1>1. /\ row \in RequestRow /\ row.pair = request[q].pair
      /\ row.status = IF approve THEN "approved" ELSE "rejected"
  BY DEF TradesInv, TradesTypeOK, RequestRow, ServiceRequestStatus, Decision
<1>2. Undecided(q) /\ Start(c, request[q].pair[1], loaded)
  BY DEF DecideLoad
<1> HIDE DEF row
<1>3. /\ writing \in Call
      /\ writing.op = "decide" /\ writing.q = q
      /\ writing.row = row /\ writing.adds = {} /\ writing.drops = {}
  BY <1>1, WritingType
<1> HIDE DEF writing
<1>4. /\ loaded \in Call
      /\ loaded.phase = IF approve THEN "loaded" ELSE "ready"
      /\ loaded.op = "decide" /\ loaded.q = q
      /\ loaded.row = row /\ loaded.adds = {} /\ loaded.drops = {}
  BY <1>3 DEF Call
<1> HIDE DEF loaded
<1> QED
  BY <1>1, <1>2, <1>4, OutcomeLoadStep

(***************************************************************************)
(* An approval looks up whether the worker has been cleared meanwhile.     *)
(***************************************************************************)
LEMMA CheckExistingStep ==
  ASSUME TradesInv, NEW c \in Calls, DecideCheckExisting(c)
  PROVE  TradesInv'
<1> DEFINE pair == call[c].row.pair
<1>1. call \in [Calls -> Call] /\ TradesTypeOK /\ Promise(c)
  BY DEF TradesInv, TradesTypeOK
<1>2. /\ call[c].op = "decide" /\ call[c].phase = "loaded"
      /\ call' = [call EXCEPT ![c].phase = "ready", ![c].adds = {pair} \ cleared]
      /\ UNCHANGED <<profileVars, cleared, request, raced>>
  BY DEF DecideCheckExisting, At, Clearance
<1>3. pair \in Pairs /\ call[c].row.status = "approved"
  BY <1>1, <1>2 DEF Promise, OutcomePromise, ClearancePromise, InFlight, IdleAt
<1>4. /\ call'[c] \in Call
      /\ call'[c].phase = "ready" /\ call'[c].op = "decide"
      /\ call'[c].q = call[c].q /\ call'[c].row = call[c].row
      /\ call'[c].adds = {pair} \ cleared /\ call'[c].drops = call[c].drops
      /\ \A d \in Calls \ {c} : call'[d] = call[d]
  BY <1>1, <1>2, <1>3 DEF Call
<1>5. TradesTypeOK'
  BY <1>1, <1>2, <1>4 DEF TradesTypeOK, profileVars
<1>6. ApprovedMeansCleared' /\ OneLiveRequest' /\ RequestsNamePairs'
  BY <1>2 DEF TradesInv, ApprovedMeansCleared, OneLiveRequest, RequestsNamePairs
<1>7. Promise(c)'
  BY <1>1, <1>2, <1>3, <1>4 DEF Promise, DeclarePromise, RequestPromise, OutcomePromise,
                                ClearancePromise, InFlight, IdleAt
<1>8. ASSUME NEW d \in Calls PROVE Promise(d)'
  <2>1. CASE d = c
    BY <1>7, <2>1
  <2>2. CASE d # c
    <3>1. \A v \in WorkerIds : TradesOf(v)' = TradesOf(v)
      BY <1>2 DEF TradesOf
    <3> QED
      BY <1>2, <1>4, <2>2, <3>1, PromiseFrame
  <2> QED
    BY <2>1, <2>2
<1>9. /\ \A d \in Calls : \A ops : InFlight(d, ops)' = InFlight(d, ops)
      /\ \A d \in Calls : call'[d].q = call[d].q /\ About(d)' \subseteq About(d)
  BY <1>2, <1>4 DEF InFlight, IdleAt, About
<1>10. NoSecretRace' /\ OwnIds'
  BY <1>2, <1>9 DEF TradesInv, NoSecretRace, OwnIds
<1> QED
  BY <1>5, <1>6, <1>8, <1>10 DEF TradesInv

-----------------------------------------------------------------------------
(***************************************************************************)
(* A call ends, having written at most what keeps the tables right and the *)
(* promises of the others.                                                 *)
(***************************************************************************)
LEMMA EndStep ==
  ASSUME TradesInv, NEW c \in Calls, Finish(c), UNCHANGED profileVars,
         cleared \subseteq cleared', cleared' \subseteq Pairs,
         request' \in [RequestIds -> RequestRow],
         ApprovedMeansCleared', OneLiveRequest', RequestsNamePairs',
         \A d \in Calls \ {c} :
           /\ \A w \in WorkerIds \ raced' :
                InFlight(d, {"declare"}) /\ w \in About(d) => TradesOf(w)' \subseteq TradesOf(w)
           /\ InFlight(d, {"request"}) => request'[call[d].q] = request[call[d].q]
           /\ InFlight(d, {"withdraw", "decide"}) =>
                LET q == call[d].q IN
                  /\ request[q].status # "absent" => request'[q].status # "absent"
                  /\ request'[q].pair = request[q].pair
                  /\ call[d].row.pair[1] \in raced' \/ request'[q] = request[q]
  PROVE  TradesInv'
<1>1. call \in [Calls -> Call] /\ TradesTypeOK
  BY DEF TradesInv, TradesTypeOK
<1>2. /\ call' = [call EXCEPT ![c] = IdleCall] /\ raced' = raced
      /\ call'[c] = IdleCall
      /\ \A d \in Calls \ {c} : call'[d] = call[d]
  BY <1>1 DEF Finish
<1>3. TradesTypeOK'
  BY <1>1, <1>2, IdleCallType DEF TradesTypeOK, profileVars
<1>4. ~InFlight(c, Writers)' /\ ~InFlight(c, {"request"})'
  BY <1>2, IdleCallType DEF InFlight, IdleAt
<1>5. Promise(c)'
  BY <1>2, IdleCallType DEF Promise, DeclarePromise, RequestPromise, OutcomePromise,
                            ClearancePromise, InFlight, IdleAt
<1>6. ASSUME NEW d \in Calls PROVE Promise(d)'
  <2>1. CASE d # c
    BY <1>2, <2>1, PromiseFrame
  <2> QED
    BY <1>5, <2>1
<1>7. \A d \in Calls \ {c} : (\A ops : InFlight(d, ops)' = InFlight(d, ops))
                             /\ About(d)' = About(d)
  BY <1>2 DEF InFlight, IdleAt, About
<1>8. NoSecretRace'
  BY <1>2, <1>4, <1>7 DEF TradesInv, NoSecretRace
<1>9. OwnIds'
  BY <1>2, <1>4, <1>7 DEF TradesInv, OwnIds
<1> QED
  BY <1>3, <1>6, <1>8, <1>9 DEF TradesInv

LEMMA RollbackStep ==
  ASSUME TradesInv, NEW c \in Calls, Rollback(c)
  PROVE  TradesInv'
<1>1. Finish(c) /\ UNCHANGED <<profileVars, cleared, request>>
  BY DEF Rollback
<1>2. ApprovedMeansCleared' /\ OneLiveRequest' /\ RequestsNamePairs'
  BY <1>1 DEF TradesInv, ApprovedMeansCleared, OneLiveRequest, RequestsNamePairs
<1>3. cleared' \subseteq Pairs /\ request' \in [RequestIds -> RequestRow]
  BY <1>1 DEF TradesInv, TradesTypeOK
<1>4. \A w \in WorkerIds : TradesOf(w)' = TradesOf(w)
  BY <1>1 DEF TradesOf
<1> QED
  BY <1>1, <1>2, <1>3, <1>4, EndStep

(***************************************************************************)
(* A declaration that commits gives its worker trades; any other           *)
(* declaration of that worker's is in a race with it.                      *)
(***************************************************************************)
LEMMA DeclareCommitStep ==
  ASSUME TradesInv, NEW c \in Calls, DeclareCommit(c)
  PROVE  TradesInv'
<1>1. InFlight(c, {"declare"}) /\ InFlight(c, Writers)
  BY DEF DeclareCommit, At, InFlight, IdleAt, Writers
<1>2. CASE Rollback(c)
  BY <1>2, RollbackStep
<1>3. CASE ~Rollback(c)
  <2>1. call[c].drops = {}
    BY DEF TradesInv, Promise
  <2>2. /\ cleared' = cleared \cup call[c].adds
        /\ UNCHANGED <<profileVars, request>> /\ Finish(c)
    BY <1>3, <2>1 DEF DeclareCommit
  <2>3. PICK w \in WorkerIds, S \in SUBSET ServiceIds : call[c].adds = {w} \X S /\ S # {}
    BY <1>1 DEF TradesInv, Promise, DeclarePromise
  <2>4. w \in About(c)
    <3>1. PICK s \in S : TRUE
      BY <2>3
    <3>2. <<w, s>> \in call[c].adds /\ <<w, s>>[1] = w
      BY <2>3, <3>1
    <3> QED
      BY <3>2 DEF About
  <2>5. cleared' \subseteq Pairs /\ request' \in [RequestIds -> RequestRow]
    BY <2>2, <2>3 DEF TradesInv, TradesTypeOK, Pairs
  <2>6. ApprovedMeansCleared' /\ OneLiveRequest' /\ RequestsNamePairs'
    BY <2>2 DEF TradesInv, ApprovedMeansCleared, OneLiveRequest, RequestsNamePairs
  <2>7. ASSUME NEW d \in Calls \ {c}, NEW v \in WorkerIds \ raced',
               InFlight(d, {"declare"}), v \in About(d)
        PROVE  TradesOf(v)' \subseteq TradesOf(v)
    <3>1. InFlight(d, Writers) /\ raced' = raced
      BY <2>2, <2>7 DEF InFlight, Writers, Finish
    <3>2. v # w
      BY <1>1, <2>4, <2>7, <3>1 DEF TradesInv, NoSecretRace
    <3> QED
      BY <2>2, <2>3, <3>2 DEF TradesOf
  <2> QED
    BY <2>2, <2>5, <2>6, <2>7, EndStep
<1> QED
  BY <1>2, <1>3

(***************************************************************************)
(* The index lets a request in when there is no other for its pair.        *)
(***************************************************************************)
LEMMA RequestCommitStep ==
  ASSUME TradesInv, NEW c \in Calls, RequestCommit(c)
  PROVE  TradesInv'
<1> DEFINE q == call[c].q
           row == call[c].row
<1>1. InFlight(c, {"request"})
  BY DEF RequestCommit, At, InFlight, IdleAt
<1>2. /\ q \in RequestIds /\ row \in RequestRow
      /\ request \in [RequestIds -> RequestRow]
  BY DEF TradesInv, TradesTypeOK, Call
<1>3. row.pair \in Pairs /\ row.status = "pending" /\ request[q].status = "absent"
  BY <1>1 DEF TradesInv, Promise, RequestPromise
<1>4. CASE Rollback(c)
  BY <1>4, RollbackStep
<1>5. CASE ~Rollback(c)
  <2>1. /\ request' = [request EXCEPT ![q] = row] /\ ~LiveRequest(row.pair)
        /\ UNCHANGED <<profileVars, cleared>> /\ Finish(c)
    BY <1>3, <1>5 DEF RequestCommit, IndexAllows
  <2> HIDE DEF q, row
  <2>2. \A p \in RequestIds :
           request[p].status = "pending" => request[p].pair # row.pair
    <3> SUFFICES ASSUME NEW p \in RequestIds, request[p].status = "pending",
                        request[p].pair = row.pair
                 PROVE  FALSE
      OBVIOUS
    <3>1. request[p] = [pair |-> row.pair, status |-> "pending"]
      BY <1>2 DEF RequestRow
    <3> QED
      BY <2>1, <3>1 DEF LiveRequest
  <2>3. ApprovedMeansCleared' /\ RequestsNamePairs'
    BY <1>2, <1>3, <2>1 DEF TradesInv, ApprovedMeansCleared, RequestsNamePairs
  <2>4. OneLiveRequest'
    BY <1>2, <1>3, <2>1, <2>2 DEF TradesInv, OneLiveRequest
  <2>5. cleared' \subseteq Pairs /\ request' \in [RequestIds -> RequestRow]
    BY <1>2, <2>1 DEF TradesInv, TradesTypeOK
  <2>6. \A w \in WorkerIds : TradesOf(w)' = TradesOf(w)
    BY <2>1 DEF TradesOf
  <2>7. ASSUME NEW d \in Calls \ {c},
               InFlight(d, {"request"}) \/ InFlight(d, {"withdraw", "decide"})
        PROVE  request'[call[d].q] = request[call[d].q]
    <3>1. call[d].q # q
      BY <1>1, <1>3, <2>7 DEF TradesInv, OwnIds, Promise, OutcomePromise, q
    <3>2. call[d].q \in RequestIds
      BY DEF TradesInv, TradesTypeOK, Call
    <3> QED
      BY <1>2, <2>1, <3>1, <3>2
  <2> QED
    BY <2>1, <2>3, <2>4, <2>5, <2>6, <2>7, EndStep
<1> QED
  BY <1>4, <1>5

(***************************************************************************)
(* A withdrawal, or a decision with the clearance it gives, is written to  *)
(* its request; what else is being decided about that request is in a race *)
(* with it.                                                                *)
(***************************************************************************)
LEMMA OutcomeCommitStep ==
  ASSUME TradesInv, NEW c \in Calls,
         InFlight(c, {"withdraw", "decide"}),
         NEW given \in SUBSET {call[c].row.pair},
         request' = [request EXCEPT ![call[c].q] = call[c].row],
         cleared' = cleared \cup given,
         call[c].row.status = "approved" => call[c].row.pair \in cleared',
         UNCHANGED profileVars, Finish(c)
  PROVE  TradesInv'
<1> DEFINE q == call[c].q
           row == call[c].row
           w == row.pair[1]
<1>1. /\ q \in RequestIds /\ row \in RequestRow
      /\ request \in [RequestIds -> RequestRow]
  BY DEF TradesInv, TradesTypeOK, Call
<1>2. /\ row.pair \in Pairs
      /\ row.status \in {"approved", "rejected", "withdrawn"}
      /\ request[q].status # "absent" /\ request[q].pair = row.pair
  BY DEF TradesInv, Promise, OutcomePromise
<1>3. w \in WorkerIds /\ w \in About(c) /\ InFlight(c, Writers)
  BY <1>2 DEF Pairs, About, InFlight, Writers
<1>4. raced' = raced
  BY DEF Finish
<1>5. cleared' \subseteq Pairs /\ request' \in [RequestIds -> RequestRow]
  BY <1>1, <1>2 DEF TradesInv, TradesTypeOK
<1>6. ApprovedMeansCleared'
  BY <1>1 DEF TradesInv, ApprovedMeansCleared
<1>7. OneLiveRequest'
  BY <1>1, <1>2 DEF TradesInv, OneLiveRequest
<1>8. RequestsNamePairs'
  BY <1>1, <1>2 DEF TradesInv, RequestsNamePairs
<1>9. ASSUME NEW d \in Calls \ {c}, InFlight(d, Writers), w \in About(d)
      PROVE  w \in raced'
  BY <1>3, <1>4, <1>9 DEF TradesInv, NoSecretRace
<1>10. ASSUME NEW d \in Calls \ {c}, NEW v \in WorkerIds \ raced',
              InFlight(d, {"declare"}), v \in About(d)
       PROVE  TradesOf(v)' \subseteq TradesOf(v)
  <2>1. v # w
    BY <1>9, <1>10 DEF InFlight, Writers
  <2>2. \A s \in ServiceIds : <<v, s>> # row.pair
    BY <2>1
  <2> QED
    BY <2>2 DEF TradesOf
<1>11. ASSUME NEW d \in Calls \ {c}, InFlight(d, {"request"})
       PROVE  request'[call[d].q] = request[call[d].q]
  <2>1. call[d].q # q
    BY <1>2, <1>11 DEF TradesInv, Promise, RequestPromise
  <2>2. call[d].q \in RequestIds
    BY DEF TradesInv, TradesTypeOK, Call
  <2> QED
    BY <1>1, <2>1, <2>2
<1>12. ASSUME NEW d \in Calls \ {c}, InFlight(d, {"withdraw", "decide"})
       PROVE  LET p == call[d].q IN
                /\ request[p].status # "absent" => request'[p].status # "absent"
                /\ request'[p].pair = request[p].pair
                /\ call[d].row.pair[1] \in raced' \/ request'[p] = request[p]
  <2>1. call[d].q \in RequestIds
    BY DEF TradesInv, TradesTypeOK, Call
  <2>2. CASE call[d].q = q
    <3>1. call[d].row.pair = row.pair
      BY <1>2, <1>12, <2>2 DEF TradesInv, Promise, OutcomePromise
    <3>2. w \in About(d) /\ InFlight(d, Writers)
      BY <1>12, <3>1 DEF About, InFlight, Writers
    <3> QED
      BY <1>1, <1>2, <1>9, <2>2, <3>1, <3>2
  <2>3. CASE call[d].q # q
    BY <1>1, <2>1, <2>3
  <2> QED
    BY <2>2, <2>3
<1> QED
  BY <1>5, <1>6, <1>7, <1>8, <1>10, <1>11, <1>12, EndStep

LEMMA WithdrawCommitStep ==
  ASSUME TradesInv, NEW c \in Calls, WithdrawCommit(c)
  PROVE  TradesInv'
<1>1. /\ InFlight(c, {"withdraw", "decide"}) /\ InFlight(c, {"withdraw"})
      /\ request' = [request EXCEPT ![call[c].q] = call[c].row]
      /\ UNCHANGED <<profileVars, cleared>> /\ Finish(c)
  BY DEF WithdrawCommit, At, InFlight, IdleAt
<1>2. call[c].row.status = "withdrawn"
  BY <1>1 DEF TradesInv, Promise, ClearancePromise
<1>3. cleared' = cleared \cup {}
  BY <1>1
<1> QED
  BY <1>1, <1>2, <1>3, OutcomeCommitStep

LEMMA DecideCommitStep ==
  ASSUME TradesInv, NEW c \in Calls, DecideCommit(c)
  PROVE  TradesInv'
<1>1. CASE Rollback(c)
  BY <1>1, RollbackStep
<1>2. CASE ~Rollback(c)
  <2>1. /\ InFlight(c, {"withdraw", "decide"}) /\ InFlight(c, {"decide"})
        /\ call[c].phase = "ready"
        /\ request' = [request EXCEPT ![call[c].q] = call[c].row]
        /\ cleared' = cleared \cup call[c].adds
        /\ UNCHANGED profileVars /\ Finish(c)
    BY <1>2 DEF DecideCommit, At, InFlight, IdleAt
  <2>2. /\ call[c].adds \in SUBSET {call[c].row.pair}
        /\ call[c].row.status = "approved" => call[c].row.pair \in cleared'
    BY <2>1 DEF TradesInv, Promise, ClearancePromise
  <2> QED
    BY <2>1, <2>2, OutcomeCommitStep
<1> QED
  BY <1>1, <1>2

-----------------------------------------------------------------------------
LEMMA InitTrades == TradesInit => TradesInv
<1> SUFFICES ASSUME TradesInit PROVE TradesInv
  OBVIOUS
<1>1. AbsentRequest \in RequestRow /\ AbsentRequest.status = "absent"
  BY DEF AbsentRequest, RequestRow
<1>2. TradesTypeOK
  BY <1>1, IdleCallType DEF TradesInit, TradesTypeOK, WorkerVerificationStatus
<1>3. \A c \in Calls : call[c] = IdleCall /\ IdleAt(c) /\ \A ops : ~InFlight(c, ops)
  BY IdleCallType DEF TradesInit, IdleAt, InFlight
<1>4. ApprovedMeansCleared /\ OneLiveRequest /\ RequestsNamePairs
  BY <1>1 DEF TradesInit, ApprovedMeansCleared, OneLiveRequest, RequestsNamePairs
<1>5. \A c \in Calls : Promise(c)
  BY <1>3, IdleCallType DEF Promise, DeclarePromise, RequestPromise, OutcomePromise,
                            ClearancePromise
<1> QED
  BY <1>2, <1>3, <1>4, <1>5 DEF TradesInv, NoSecretRace, OwnIds

(***************************************************************************)
(* Support's verdict on a worker and the worker's own switch touch neither *)
(* trades nor requests.                                                    *)
(***************************************************************************)
LEMMA ProfileStep ==
  ASSUME TradesInv, NEW w \in WorkerIds,
         \/ \E decision \in WorkerVerificationStatus : VerifyWorker(w, decision)
         \/ \E v \in BOOLEAN : UpdateProfile(w, v)
  PROVE  TradesInv'
<1>1. UNCHANGED <<cleared, request, call, raced>>
  BY DEF VerifyWorker, UpdateProfile
<1>2. TradesTypeOK'
  BY <1>1 DEF TradesInv, TradesTypeOK, VerifyWorker, UpdateProfile
<1>3. /\ ApprovedMeansCleared' /\ OneLiveRequest' /\ RequestsNamePairs'
      /\ NoSecretRace' /\ OwnIds'
  BY <1>1 DEF TradesInv, ApprovedMeansCleared, OneLiveRequest, RequestsNamePairs,
              NoSecretRace, OwnIds, InFlight, IdleAt, About
<1>4. \A c \in Calls : Promise(c)'
  BY <1>1 DEF TradesInv, Promise, DeclarePromise, RequestPromise, OutcomePromise,
              ClearancePromise, InFlight, IdleAt, TradesOf
<1> QED
  BY <1>2, <1>3, <1>4 DEF TradesInv

LEMMA NextTrades ==
  ASSUME TradesInv, [TradesNext]_vars
  PROVE  TradesInv'
<1>1. CASE UNCHANGED vars
  BY <1>1 DEF TradesInv, TradesTypeOK, ApprovedMeansCleared, OneLiveRequest,
              RequestsNamePairs, NoSecretRace, OwnIds, Promise, DeclarePromise,
              RequestPromise, OutcomePromise, ClearancePromise, InFlight, IdleAt,
              About, TradesOf, vars, profileVars
<1>2. ASSUME NEW c \in Calls, NEW w \in WorkerIds, NEW S \in SUBSET ServiceIds,
             DeclareLoad(c, w, S)
      PROVE  TradesInv'
  BY <1>2, DeclareLoadStep
<1>3. ASSUME NEW c \in Calls, NEW w \in WorkerIds, NEW s \in ServiceIds,
             RequestLoad(c, w, s)
      PROVE  TradesInv'
  BY <1>3, RequestLoadStep
<1>4. ASSUME NEW c \in Calls, NEW q \in RequestIds, WithdrawLoad(c, q)
      PROVE  TradesInv'
  BY <1>4, WithdrawLoadStep
<1>5. ASSUME NEW c \in Calls, NEW q \in RequestIds, NEW approve \in BOOLEAN,
             DecideLoad(c, q, approve)
      PROVE  TradesInv'
  BY <1>5, DecideLoadStep
<1>6. ASSUME NEW c \in Calls,
             \/ DecideCheckExisting(c) \/ DeclareCommit(c) \/ RequestCommit(c)
             \/ WithdrawCommit(c) \/ DecideCommit(c) \/ Abort(c)
      PROVE  TradesInv'
  BY <1>6, CheckExistingStep, DeclareCommitStep, RequestCommitStep, WithdrawCommitStep,
     DecideCommitStep, RollbackStep DEF Abort
<1>7. ASSUME NEW w \in WorkerIds,
             \/ \E decision \in WorkerVerificationStatus : VerifyWorker(w, decision)
             \/ \E v \in BOOLEAN : UpdateProfile(w, v)
      PROVE  TradesInv'
  BY <1>7, ProfileStep
<1> QED
  BY <1>1, <1>2, <1>3, <1>4, <1>5, <1>6, <1>7 DEF TradesNext

LEMMA TradesAlways == TradesSpec => []TradesInv
<1>1. TradesInv /\ [TradesNext]_vars => TradesInv'
  BY NextTrades
<1> QED
  BY <1>1, InitTrades, PTL DEF TradesSpec

-----------------------------------------------------------------------------
(***************************************************************************)
(* Profiles, clearances, requests and calls are always well typed.         *)
(***************************************************************************)
THEOREM TradesTypeCorrect == TradesSpec => []TradesTypeOK
<1>1. TradesInv => TradesTypeOK
  BY DEF TradesInv
<1> QED
  BY <1>1, TradesAlways, PTL

(***************************************************************************)
(* A request that reads approved has its worker cleared.                   *)
(***************************************************************************)
THEOREM ApprovalsClear == TradesSpec => []ApprovedMeansCleared
<1>1. TradesInv => ApprovedMeansCleared
  BY DEF TradesInv
<1> QED
  BY <1>1, TradesAlways, PTL

(***************************************************************************)
(* No two live requests for one worker and trade.                          *)
(***************************************************************************)
THEOREM RequestsAreUnique == TradesSpec => []OneLiveRequest
<1>1. TradesInv => OneLiveRequest
  BY DEF TradesInv
<1> QED
  BY <1>1, TradesAlways, PTL

(***************************************************************************)
(* Which steps write the two tables, and what.                             *)
(***************************************************************************)
LEMMA ClearedOnlyBy ==
  ASSUME TradesInv, [TradesNext]_vars, cleared' # cleared
  PROVE  \E c \in Calls :
           /\ cleared' = cleared \cup call[c].adds
           /\ InFlight(c, {"declare"}) \/ InFlight(c, {"decide"})
           /\ InFlight(c, {"decide"}) =>
                request' = [request EXCEPT ![call[c].q] = call[c].row]
<1>1. PICK c \in Calls : DeclareCommit(c) \/ DecideCommit(c)
  BY DEF TradesNext, vars, profileVars, DeclareLoad, RequestLoad, WithdrawLoad, DecideLoad,
         Start, DecideCheckExisting, RequestCommit, WithdrawCommit, Abort, Rollback,
         VerifyWorker, UpdateProfile
<1>2. ~Rollback(c) /\ call[c].drops = {}
  BY DEF Rollback, TradesInv, Promise
<1> QED
  BY <1>1, <1>2 DEF DeclareCommit, DecideCommit, At, InFlight, IdleAt

LEMMA RequestOnlyBy ==
  ASSUME [TradesNext]_vars, request' # request
  PROVE  \E c \in Calls :
           /\ request' = [request EXCEPT ![call[c].q] = call[c].row]
           /\ InFlight(c, {"request"}) \/ InFlight(c, {"withdraw", "decide"})
<1>1. PICK c \in Calls : RequestCommit(c) \/ WithdrawCommit(c) \/ DecideCommit(c)
  BY DEF TradesNext, vars, profileVars, DeclareLoad, RequestLoad, WithdrawLoad, DecideLoad,
         Start, DecideCheckExisting, DeclareCommit, Abort, Rollback, VerifyWorker,
         UpdateProfile
<1>2. ~Rollback(c)
  BY DEF Rollback
<1> QED
  BY <1>1, <1>2 DEF RequestCommit, WithdrawCommit, DecideCommit, At, InFlight, IdleAt

(***************************************************************************)
(* Trades stay frozen until two calls about the worker race: a declaration *)
(* that no other raced has found, and still finds, no trade there.         *)
(***************************************************************************)
THEOREM TradesStayFrozen == TradesSpec => TradesFrozen
<1> DEFINE Frozen ==
      \A w \in WorkerIds \ raced : TradesOf(w) # {} =>
        \A s \in TradesOf(w)' \ TradesOf(w) :
           \E q \in RequestIds :
              request'[q] = [pair |-> <<w, s>>, status |-> "approved"]
<1>1. ASSUME TradesInv, [TradesNext]_vars PROVE Frozen
  <2> SUFFICES ASSUME NEW w \in WorkerIds \ raced, TradesOf(w) # {},
                      NEW s \in TradesOf(w)' \ TradesOf(w)
               PROVE  \E q \in RequestIds :
                         request'[q] = [pair |-> <<w, s>>, status |-> "approved"]
    OBVIOUS
  <2>1. <<w, s>> \in cleared' /\ <<w, s>> \notin cleared
    BY DEF TradesOf
  <2>2. PICK c \in Calls :
          /\ cleared' = cleared \cup call[c].adds
          /\ InFlight(c, {"declare"}) \/ InFlight(c, {"decide"})
          /\ InFlight(c, {"decide"}) =>
               request' = [request EXCEPT ![call[c].q] = call[c].row]
    BY <1>1, <2>1, ClearedOnlyBy
  <2>3. <<w, s>> \in call[c].adds
    BY <2>1, <2>2
  <2>4. ~InFlight(c, {"declare"})
    BY <1>1, <2>3 DEF TradesInv, Promise, DeclarePromise
  <2>5. InFlight(c, {"decide"})
    BY <2>2, <2>4
  <2>6. call[c].row.pair = <<w, s>> /\ call[c].row.status = "approved"
    BY <1>1, <2>3, <2>5 DEF TradesInv, Promise, ClearancePromise
  <2>7. /\ call[c].q \in RequestIds /\ call[c].row \in RequestRow
        /\ request \in [RequestIds -> RequestRow]
    BY <1>1 DEF TradesInv, TradesTypeOK, Call
  <2>8. call[c].row = [pair |-> <<w, s>>, status |-> "approved"]
    BY <2>6, <2>7 DEF RequestRow
  <2>9. request'[call[c].q] = call[c].row
    BY <2>2, <2>5, <2>7
  <2> QED
    BY <2>7, <2>8, <2>9
<1> HIDE DEF Frozen
<1>2. TradesSpec => [][Frozen]_vars
  BY <1>1, TradesAlways, PTL DEF TradesSpec
<1> QED
  BY <1>2 DEF TradesFrozen, Frozen

(***************************************************************************)
(* Decisions are final until two calls about the worker race: who writes a *)
(* request has found it pending, or its id unused, and still does.         *)
(***************************************************************************)
THEOREM DecisionsStay == TradesSpec => DecisionsAreFinal
<1> DEFINE Final ==
      \A q \in RequestIds :
        request[q].status \notin {"absent", "pending"}
          /\ request[q].pair[1] \notin raced => request'[q] = request[q]
<1>1. ASSUME TradesInv, [TradesNext]_vars PROVE Final
  <2> SUFFICES ASSUME NEW q \in RequestIds,
                      request[q].status \notin {"absent", "pending"},
                      request[q].pair[1] \notin raced,
                      request'[q] # request[q]
               PROVE  FALSE
    OBVIOUS
  <2>1. PICK c \in Calls :
          /\ request' = [request EXCEPT ![call[c].q] = call[c].row]
          /\ InFlight(c, {"request"}) \/ InFlight(c, {"withdraw", "decide"})
    BY <1>1, RequestOnlyBy
  <2>2. call[c].q = q
    BY <1>1, <2>1 DEF TradesInv, TradesTypeOK
  <2>3. ~InFlight(c, {"request"})
    BY <1>1, <2>2 DEF TradesInv, Promise, RequestPromise
  <2>4. request[q].status = "pending"
    BY <1>1, <2>1, <2>2, <2>3 DEF TradesInv, Promise, OutcomePromise
  <2> QED
    BY <2>4
<1> HIDE DEF Final
<1>2. TradesSpec => [][Final]_vars
  BY <1>1, TradesAlways, PTL DEF TradesSpec
<1> QED
  BY <1>2 DEF DecisionsAreFinal, Final

-----------------------------------------------------------------------------
(***************************************************************************)
(* The roster that bookings read is implemented: a commit clears a worker  *)
(* for some trades or leaves the roster alone, and a clearance is never    *)
(* taken back.                                                             *)
(***************************************************************************)
THEOREM RosterImplemented == TradesSpec => ImplementsRoster
<1> DEFINE verified == [w \in WorkerIds |-> verification_status[w] = "verified"]
<1>1. TradesInit => R!RosterInit
  BY DEF TradesInit, R!RosterInit
<1>2. ASSUME TradesInv, [TradesNext]_vars
      PROVE  [R!RosterNext]_(R!rosterVars)
  <2>1. ASSUME NEW w \in WorkerIds, NEW decision \in WorkerVerificationStatus,
               VerifyWorker(w, decision)
        PROVE  R!RosterNext
    <3>1. verified' = [verified EXCEPT ![w] = decision = "verified"]
      BY <1>2, <2>1 DEF VerifyWorker, TradesInv, TradesTypeOK
    <3>2. R!VerifyWorker(w, decision = "verified")
      BY <2>1, <3>1 DEF VerifyWorker, R!VerifyWorker
    <3> QED
      BY <3>2 DEF R!RosterNext
  <2>2. ASSUME NEW w \in WorkerIds, NEW v \in BOOLEAN, UpdateProfile(w, v)
        PROVE  R!RosterNext
    <3>1. R!UpdateAvailability(w, v)
      BY <2>2 DEF UpdateProfile, R!UpdateAvailability
    <3> QED
      BY <3>1 DEF R!RosterNext
  <2>3. CASE UNCHANGED <<profileVars, cleared>>
    BY <2>3 DEF profileVars, R!rosterVars
  <2>4. CASE UNCHANGED profileVars /\ cleared' # cleared
    <3>1. PICK c \in Calls :
            /\ cleared' = cleared \cup call[c].adds
            /\ InFlight(c, {"declare"}) \/ InFlight(c, {"decide"})
      BY <1>2, <2>4, ClearedOnlyBy
    <3>2. \E w \in WorkerIds, S \in SUBSET ServiceIds : cleared' = cleared \cup ({w} \X S)
      <4>1. CASE InFlight(c, {"declare"})
        BY <1>2, <3>1, <4>1 DEF TradesInv, Promise, DeclarePromise
      <4>2. CASE InFlight(c, {"decide"})
        <5>1. call[c].row.pair \in Pairs /\ call[c].adds \subseteq {call[c].row.pair}
          BY <1>2, <4>2 DEF TradesInv, Promise, OutcomePromise, ClearancePromise, InFlight
        <5>2. PICK w \in WorkerIds, s \in ServiceIds : call[c].row.pair = <<w, s>>
          BY <5>1 DEF Pairs
        <5>3. cleared' = cleared \cup ({w} \X {s})
          BY <2>4, <3>1, <5>1, <5>2
        <5> QED
          BY <5>3
      <4> QED
        BY <3>1, <4>1, <4>2
    <3>3. PICK w \in WorkerIds, S \in SUBSET ServiceIds :
            cleared' = cleared \cup ({w} \X S)
      BY <3>2
    <3>4. R!ClearFor(w, S)
      BY <2>4, <3>3 DEF R!ClearFor, profileVars
    <3> QED
      BY <3>4 DEF R!RosterNext
  <2>5. \/ UNCHANGED profileVars
        \/ \E w \in WorkerIds :
             \/ \E decision \in WorkerVerificationStatus : VerifyWorker(w, decision)
             \/ \E v \in BOOLEAN : UpdateProfile(w, v)
    BY <1>2 DEF TradesNext, vars, DeclareLoad, RequestLoad, WithdrawLoad, DecideLoad,
                Start, DecideCheckExisting, DeclareCommit, RequestCommit, WithdrawCommit,
                DecideCommit, Abort, Rollback
  <2> QED
    BY <2>1, <2>2, <2>3, <2>4, <2>5
<1>3. TradesSpec => R!RosterSpec
  BY <1>1, <1>2, TradesAlways, PTL DEF TradesSpec, R!RosterSpec
<1> QED
  BY <1>3 DEF ImplementsRoster
=============================================================================
