------------------------------ MODULE ViewsProofs ------------------------------
(***************************************************************************)
(* What the marketplace shows of a booking, for any numbers of workers,    *)
(* services and bookings.                                                  *)
(*                                                                         *)
(* The views are queries by status and worker, each with its own words;    *)
(* that they agree rests on the timeline of the rows they select from, so  *)
(* that everything here follows from the invariant of BookingsProofs.      *)
(*                                                                         *)
(* That the totals add up takes lemmas about sums over finite sets, which  *)
(* are proved by looking at a smallest counterexample.                     *)
(***************************************************************************)
EXTENDS Views, BookingsProofs

Live == {"assigned", "accepted", "en_route", "in_progress", "completed"}

\* What the timeline says of a row that is there.
LEMMA RowsOnShow ==
  ASSUME BooksInv, NEW b \in Rows
  PROVE  /\ booking[b].status \in BookingStatus
         /\ booking[b].worker_id \in WorkerIds \cup {None}
         /\ booking[b].status = "pending" => booking[b].worker_id = None
         /\ booking[b].status \in Live => booking[b].worker_id \in WorkerIds
<1> DEFINE row == booking[b]
<1>1. row \in Row /\ row # AbsentRow /\ b \in BookingIds
  BY DEF BooksInv, TypeOK, Rows
<1>2. Coherent(row)
  BY <1>1 DEF BooksInv, Timeline, Coherent
<1> HIDE DEF row
<1>3. row.status # "absent"
  <2> SUFFICES ASSUME row.status = "absent" PROVE row = AbsentRow
    BY <1>1
  <2>1. /\ row.worker_id = None /\ row.assigned_at = FALSE /\ row.accepted_at = FALSE
        /\ row.started_at = FALSE /\ row.completed_at = FALSE
        /\ row.closed_at = FALSE /\ row.cancelled_at = FALSE
    BY <1>1, <1>2 DEF Coherent, Row
  <2> QED
    BY <1>1, <2>1 DEF Row, AbsentRow
<1>4. row.status \in Live => row.assigned_at
  BY <1>2 DEF Coherent, Live
<1> QED
  BY <1>1, <1>2, <1>3, <1>4 DEF Coherent, Row, row

(***************************************************************************)
(* open_jobs_for_worker, list_worker_jobs, list_candidates: an open job is *)
(* in the pool of exactly the workers who may claim it, a live one on the  *)
(* list of exactly one worker, one that is over on nobody's.               *)
(***************************************************************************)
THEOREM JobsAreSomewhere == Spec => []EveryJobIsSomewhere
<1>1. BooksInv => EveryJobIsSomewhere
  <2> SUFFICES ASSUME BooksInv, NEW b \in Rows
               PROVE  LET pools == {w \in WorkerIds : b \in AvailableJobs(w)}
                          lists == {w \in WorkerIds : b \in ActiveJobs(w)}
                      IN  CASE booking[b].status = "pending" ->
                                 /\ lists = {} /\ pools = Candidates(b)
                                 /\ pools = {w \in WorkerIds : IsAssignable(w) /\ MayTake(w, b)}
                            [] booking[b].status \in TERMINAL_BOOKING_STATUSES ->
                                 lists = {} /\ pools = {}
                            [] OTHER -> Cardinality(lists) = 1 /\ pools = {}
    BY DEF EveryJobIsSomewhere
  <2> DEFINE pools == {w \in WorkerIds : b \in AvailableJobs(w)}
             lists == {w \in WorkerIds : b \in ActiveJobs(w)}
  <2>1. /\ b \in BookingIds
        /\ booking[b].status \in BookingStatus
        /\ booking[b].status = "pending" => booking[b].worker_id = None
        /\ booking[b].status \in Live => booking[b].worker_id \in WorkerIds
    BY RowsOnShow DEF Rows
  <2>2. \A w \in WorkerIds :
          /\ w \in pools <=> /\ verified[w] /\ is_available[w]
                             /\ booking[b].status = "pending" /\ booking[b].worker_id = None
                             /\ <<w, ServiceOf[b]>> \in cleared
          /\ w \in lists <=> /\ booking[b].worker_id = w
                             /\ booking[b].status \notin TERMINAL_BOOKING_STATUSES
    BY <2>1 DEF AvailableJobs, OpenJobs, ActiveJobs, Jobs
  <2>3. pools \subseteq WorkerIds /\ lists \subseteq WorkerIds
    OBVIOUS
  <2> HIDE DEF pools, lists
  <2>4. CASE booking[b].status = "pending"
    <3>1. lists = {}
      BY <2>1, <2>2, <2>3, <2>4, NoneAssumption
    <3>2. pools = Candidates(b)
      BY <2>1, <2>2, <2>3, <2>4 DEF Candidates
    <3>3. pools = {w \in WorkerIds : IsAssignable(w) /\ MayTake(w, b)}
      BY <2>1, <2>2, <2>3, <2>4 DEF IsAssignable, MayTake
    <3> QED
      BY <2>4, <3>1, <3>2, <3>3 DEF TERMINAL_BOOKING_STATUSES, pools, lists
  <2>5. CASE booking[b].status \in TERMINAL_BOOKING_STATUSES
    <3>1. lists = {} /\ pools = {} /\ booking[b].status # "pending"
      BY <2>2, <2>3, <2>5 DEF TERMINAL_BOOKING_STATUSES
    <3> QED
      BY <2>5, <3>1 DEF pools, lists
  <2>6. CASE booking[b].status \in Live
    <3>1. booking[b].status # "pending" /\ booking[b].status \notin TERMINAL_BOOKING_STATUSES
      BY <2>6 DEF Live, TERMINAL_BOOKING_STATUSES
    <3>2. pools = {} /\ lists = {booking[b].worker_id}
      BY <2>1, <2>2, <2>3, <2>6, <3>1
    <3>3. Cardinality(lists) = 1
      BY <3>2, FS_Singleton
    <3> QED
      BY <3>1, <3>2, <3>3 DEF pools, lists
  <2> QED
    BY <2>1, <2>4, <2>5, <2>6 DEF BookingStatus, Live, TERMINAL_BOOKING_STATUSES
<1> QED
  BY <1>1, BooksAlways, PTL

(***************************************************************************)
(* The statuses that share contacts are those of a job that has a worker   *)
(* and is not over, and a worker is shown the jobs of others while they    *)
(* are pending only.                                                       *)
(***************************************************************************)
LEMMA AccountPhones == BooksInv => AccountPhonesAreForLiveJobs
<1> SUFFICES ASSUME BooksInv, NEW b \in Rows
             PROVE  /\ \A w \in WorkerIds :
                         (b \in ShownTo(w) /\ Serialize(b, w).customer_phone)
                           <=> b \in ActiveJobs(w)
                    /\ Serialize(b, "customer").worker_phone
                         <=> \E w \in WorkerIds : b \in ActiveJobs(w)
  BY DEF AccountPhonesAreForLiveJobs
<1>1. /\ b \in BookingIds
      /\ booking[b].status \in BookingStatus
      /\ booking[b].worker_id \in WorkerIds \cup {None}
      /\ booking[b].status = "pending" => booking[b].worker_id = None
      /\ booking[b].status \in Live => booking[b].worker_id \in WorkerIds
  BY RowsOnShow DEF Rows
<1>2. \A w \in WorkerIds :
        b \in ActiveJobs(w) <=> /\ booking[b].worker_id = w
                                /\ booking[b].status \notin TERMINAL_BOOKING_STATUSES
  BY <1>1 DEF ActiveJobs, Jobs
<1>3. booking[b].worker_id # None =>
        (booking[b].status \notin TERMINAL_BOOKING_STATUSES
           <=> booking[b].status \in CONTACT_VISIBLE_STATUSES)
  BY <1>1 DEF BookingStatus, TERMINAL_BOOKING_STATUSES, CONTACT_VISIBLE_STATUSES
<1>4. ASSUME NEW w \in WorkerIds
      PROVE  /\ w # None /\ w # "admin" /\ w # "customer"
             /\ Serialize(b, w).customer_phone
                  <=> booking[b].status \in CONTACT_VISIBLE_STATUSES
  BY NoneAssumption, ViewersAssumption DEF Serialize, SharesContacts
<1>5. ASSUME NEW w \in WorkerIds, b \in ShownTo(w),
             booking[b].status \in CONTACT_VISIBLE_STATUSES
      PROVE  booking[b].worker_id = w
  <2>1. booking[b].status # "pending"
    BY <1>5 DEF CONTACT_VISIBLE_STATUSES
  <2>2. b \notin AvailableJobs(w)
    BY <2>1 DEF AvailableJobs, OpenJobs
  <2> QED
    BY <1>4, <1>5, <2>2 DEF ShownTo, Jobs, CanView
<1>6. ASSUME NEW w \in WorkerIds, booking[b].worker_id = w
      PROVE  b \in ShownTo(w)
  BY <1>6 DEF ShownTo, Jobs
<1>7. \A w \in WorkerIds :
        (b \in ShownTo(w) /\ Serialize(b, w).customer_phone) <=> b \in ActiveJobs(w)
  BY <1>2, <1>3, <1>4, <1>5, <1>6
<1>8. Serialize(b, "customer").worker_phone
        <=> booking[b].worker_id # None /\ booking[b].status \in CONTACT_VISIBLE_STATUSES
  BY DEF Serialize, SharesContacts
<1> QED
  BY <1>1, <1>2, <1>3, <1>4, <1>7, <1>8

(***************************************************************************)
(* serialize: the numbers of the two accounts are shown to the parties of  *)
(* a job while it is live, and to no other worker and at no other time.    *)
(***************************************************************************)
THEOREM AccountPhonesStayPrivate == Spec => []AccountPhonesAreForLiveJobs
BY AccountPhones, BooksAlways, PTL

(***************************************************************************)
(* serialize: no phone number at all is shown of a job that is not live to *)
(* the worker who looks at it, if no address was saved with a number: the  *)
(* address is the only way round the filter.                               *)
(***************************************************************************)
THEOREM OnlyContactsAreUnfiltered ==
  ASSUME Contacts = {}
  PROVE  Spec => []PhonesAreForLiveJobs
<1>1. BooksInv => PhonesAreForLiveJobs
  <2> SUFFICES ASSUME BooksInv, NEW w \in WorkerIds, NEW b \in ShownTo(w),
                      Serialize(b, w).customer_phone \/ Serialize(b, w).contact_phone
               PROVE  b \in ActiveJobs(w)
    BY DEF PhonesAreForLiveJobs
  <2>1. Serialize(b, w).customer_phone
    BY DEF Serialize
  <2>2. b \in Rows
    BY DEF ShownTo, AvailableJobs, OpenJobs, Jobs, CanView, Rows, AbsentRow
  <2> QED
    BY <2>1, <2>2, AccountPhones DEF AccountPhonesAreForLiveJobs
<1> QED
  BY <1>1, BooksAlways, PTL

-----------------------------------------------------------------------------
(***************************************************************************)
(* Sums over finite sets, as the totals of the earnings and of the         *)
(* dashboard are. The equation of the fold is not given with its           *)
(* definition: it is shown to have one solution.                           *)
(***************************************************************************)
Pick(s) == CHOOSE x \in s : TRUE

Solves(it, fun, S) ==
  it = [s \in SUBSET S |-> IF s = {} THEN 0 ELSE fun[Pick(s)] + it[s \ {Pick(s)}]]

(***************************************************************************)
(* SumFunctionOnSet is the value at S of a function that is computed one   *)
(* element at a time.                                                      *)
(***************************************************************************)
LEMMA SumIs ==
  ASSUME NEW fun, NEW S
  PROVE  SumFunctionOnSet(fun, S) = (CHOOSE it : Solves(it, fun, S))[S]
BY DEF SumFunctionOnSet, FoldFunctionOnSet, MapThenFoldSet, Solves, Pick

(***************************************************************************)
(* Among some subsets of a finite set there is one with none of the others *)
(* inside. The lemmas below look at a smallest set that fails them, which  *)
(* takes the place of an induction.                                        *)
(***************************************************************************)
LEMMA Smallest ==
  ASSUME NEW S, IsFiniteSet(S), NEW D, D \subseteq SUBSET S, D # {}
  PROVE  \E T \in D : \A U \in D : U \subseteq T => U = T
<1>1. IsWellFoundedOn(StrictSubsetOrdering(S), SUBSET S)
  BY FS_StrictSubsetOrderingWellFounded, FS_FiniteSubsetsOfFinite
<1>2. PICK T \in D : \A U \in D : ~(<<U, T>> \in StrictSubsetOrdering(S))
  BY <1>1, WFMin
<1>3. ASSUME NEW U \in D, U \subseteq T, U # T PROVE FALSE
  <2>1. <<U, T>> \in StrictSubsetOrdering(S)
    BY <1>3 DEF StrictSubsetOrdering
  <2> QED
    BY <1>2, <2>1
<1> QED
  BY <1>3

(***************************************************************************)
(* The recursion of the fold determines its function,                      *)
(***************************************************************************)
LEMMA OneSolution ==
  ASSUME NEW fun, NEW S, IsFiniteSet(S), NEW f, NEW g, Solves(f, fun, S), Solves(g, fun, S)
  PROVE  f = g
<1>1. /\ f = [s \in SUBSET S |-> f[s]] /\ g = [s \in SUBSET S |-> g[s]]
  BY DEF Solves
<1> DEFINE D == {s \in SUBSET S : f[s] # g[s]}
<1>2. SUFFICES ASSUME D # {} PROVE FALSE
  <2>1. \A s \in SUBSET S : f[s] = g[s]
    BY <1>2
  <2>2. [s \in SUBSET S |-> f[s]] = [s \in SUBSET S |-> g[s]]
    BY <2>1
  <2> QED
    BY <1>1, <2>2
<1>3. PICK T \in D : \A U \in D : U \subseteq T => U = T
  <2>1. D \subseteq SUBSET S
    OBVIOUS
  <2> HIDE DEF D
  <2> QED
    BY <1>2, <2>1, Smallest
<1>4. T # {} /\ T \subseteq S
  BY <1>3 DEF Solves
<1>5. Pick(T) \in T
  BY <1>4 DEF Pick
<1>6. T \ {Pick(T)} \notin D
  BY <1>3, <1>5
<1>7. f[T \ {Pick(T)}] = g[T \ {Pick(T)}]
  BY <1>4, <1>6
<1>8. f[T] = fun[Pick(T)] + f[T \ {Pick(T)}] /\ g[T] = fun[Pick(T)] + g[T \ {Pick(T)}]
  BY <1>4 DEF Solves
<1> QED
  BY <1>3, <1>7, <1>8

(***************************************************************************)
(* ... and has a solution, so that a sum satisfies its recursion.          *)
(***************************************************************************)
SumStep(fun, s) ==
  SumFunctionOnSet(fun, s) =
    IF s = {} THEN 0 ELSE fun[Pick(s)] + SumFunctionOnSet(fun, s \ {Pick(s)})

LEMMA SumEquation ==
  ASSUME NEW fun, NEW S, IsFiniteSet(S)
  PROVE  SumStep(fun, S)
<1> DEFINE D == {s \in SUBSET S : ~SumStep(fun, s)}
<1>1. SUFFICES ASSUME D # {} PROVE FALSE
  OBVIOUS
<1>2. PICK T \in D : \A U \in D : U \subseteq T => U = T
  <2>1. D \subseteq SUBSET S
    OBVIOUS
  <2> HIDE DEF D
  <2> QED
    BY <1>1, <2>1, Smallest
<1>3. /\ T \subseteq S /\ ~SumStep(fun, T)
      /\ \A s \in SUBSET T : s # T => SumStep(fun, s)
  BY <1>2
<1>4. IsFiniteSet(T)
  BY <1>3, FS_Subset
<1> HIDE DEF D
<1> DEFINE total == IF T = {} THEN 0
                    ELSE fun[Pick(T)] + SumFunctionOnSet(fun, T \ {Pick(T)})
           it == [s \in SUBSET T |-> IF s = T THEN total ELSE SumFunctionOnSet(fun, s)]
<1>5. ASSUME NEW s \in SUBSET T, s # {} PROVE Pick(s) \in s
  BY <1>5 DEF Pick
<1>6. Solves(it, fun, T)
  <2>1. ASSUME NEW s \in SUBSET T
        PROVE  it[s] = IF s = {} THEN 0 ELSE fun[Pick(s)] + it[s \ {Pick(s)}]
    <3>1. CASE s = {}
      BY <1>3, <3>1 DEF SumStep
    <3>2. CASE s # {}
      <4>1. s \ {Pick(s)} \in SUBSET T /\ s \ {Pick(s)} # T
        BY <1>5, <3>2
      <4>2. it[s \ {Pick(s)}] = SumFunctionOnSet(fun, s \ {Pick(s)})
        BY <4>1
      <4>3. it[s] = fun[Pick(s)] + SumFunctionOnSet(fun, s \ {Pick(s)})
        BY <1>3, <3>2 DEF SumStep
      <4> QED
        BY <3>2, <4>2, <4>3
    <3> QED
      BY <3>1, <3>2
  <2> DEFINE rhs == [s \in SUBSET T |-> IF s = {} THEN 0 ELSE fun[Pick(s)] + it[s \ {Pick(s)}]]
  <2>2. it = [s \in SUBSET T |-> it[s]]
    OBVIOUS
  <2> HIDE DEF it
  <2>3. it = rhs
    BY <2>1, <2>2
  <2> QED
    BY <2>3 DEF Solves
<1> HIDE DEF it
<1>7. Solves(CHOOSE g : Solves(g, fun, T), fun, T)
  BY <1>6
<1>8. (CHOOSE g : Solves(g, fun, T)) = it
  BY <1>4, <1>6, <1>7, OneSolution
<1>9. SumFunctionOnSet(fun, T) = total
  BY <1>8, SumIs DEF it
<1> QED
  BY <1>3, <1>9 DEF SumStep

LEMMA SumOfNothing ==
  ASSUME NEW fun
  PROVE  SumFunctionOnSet(fun, {}) = 0
BY SumEquation, FS_EmptySet DEF SumStep

(***************************************************************************)
(* Integers add up to an integer.                                          *)
(***************************************************************************)
LEMMA SumTyped ==
  ASSUME NEW fun, NEW S, IsFiniteSet(S), \A x \in S : fun[x] \in Int
  PROVE  SumFunctionOnSet(fun, S) \in Int
<1> DEFINE D == {s \in SUBSET S : SumFunctionOnSet(fun, s) \notin Int}
<1>1. SUFFICES ASSUME D # {} PROVE FALSE
  OBVIOUS
<1>2. PICK T \in D : \A U \in D : U \subseteq T => U = T
  <2>1. D \subseteq SUBSET S
    OBVIOUS
  <2> HIDE DEF D
  <2> QED
    BY <1>1, <2>1, Smallest
<1>3. T \subseteq S /\ IsFiniteSet(T)
  BY <1>2, FS_Subset
<1>4. SumStep(fun, T)
  BY <1>3, SumEquation
<1>5. CASE T = {}
  BY <1>2, <1>5, SumOfNothing
<1>6. CASE T # {}
  <2>1. Pick(T) \in T
    BY <1>6 DEF Pick
  <2>2. SumFunctionOnSet(fun, T \ {Pick(T)}) \in Int
    BY <1>2, <1>3, <2>1
  <2> QED
    BY <1>2, <1>3, <1>4, <1>6, <2>1, <2>2 DEF SumStep
<1> QED
  BY <1>5, <1>6

(***************************************************************************)
(* The order does not matter: any element may be added last.               *)
(***************************************************************************)
LEMMA SumTakeOut ==
  ASSUME NEW fun, NEW S, IsFiniteSet(S), \A x \in S : fun[x] \in Int, NEW a \in S
  PROVE  SumFunctionOnSet(fun, S) = fun[a] + SumFunctionOnSet(fun, S \ {a})
<1> DEFINE Sum(s) == SumFunctionOnSet(fun, s)
           D == {s \in SUBSET S : \E x \in s : Sum(s) # fun[x] + Sum(s \ {x})}
<1>1. SUFFICES ASSUME D # {} PROVE FALSE
  OBVIOUS
<1>2. PICK T \in D : \A U \in D : U \subseteq T => U = T
  <2>1. D \subseteq SUBSET S
    OBVIOUS
  <2> HIDE DEF D
  <2> QED
    BY <1>1, <2>1, Smallest
<1>3. /\ T \subseteq S
      /\ \E x \in T : Sum(T) # fun[x] + Sum(T \ {x})
      /\ \A s \in SUBSET T : s = T \/ \A x \in s : Sum(s) = fun[x] + Sum(s \ {x})
  BY <1>2
<1> HIDE DEF D
<1>4. PICK x \in T : Sum(T) # fun[x] + Sum(T \ {x})
  BY <1>3
<1>5. \A s \in SUBSET T : SumStep(fun, s) /\ Sum(s) \in Int
  <2> SUFFICES ASSUME NEW s \in SUBSET T PROVE SumStep(fun, s) /\ Sum(s) \in Int
    OBVIOUS
  <2>1. s \subseteq S /\ IsFiniteSet(s)
    BY <1>3, FS_Subset
  <2> QED
    BY <2>1, SumEquation, SumTyped
<1> DEFINE p == Pick(T)
           both == T \ {p, x}
<1>6. p \in T /\ T \in SUBSET T
  BY <1>4 DEF Pick
<1>7. Sum(T) = fun[p] + Sum(T \ {p})
  BY <1>4, <1>5, <1>6 DEF SumStep
<1> HIDE DEF Sum, p
<1>8. p # x
  BY <1>4, <1>7
<1>9. Sum(T \ {p}) = fun[x] + Sum(both)
  <2>1. T \ {p} \in SUBSET T /\ T \ {p} # T /\ x \in T \ {p} /\ (T \ {p}) \ {x} = both
    BY <1>6, <1>8
  <2> QED
    BY <1>3, <2>1
<1>10. Sum(T \ {x}) = fun[p] + Sum(both)
  <2>1. T \ {x} \in SUBSET T /\ T \ {x} # T /\ p \in T \ {x} /\ (T \ {x}) \ {p} = both
    BY <1>6, <1>8
  <2> QED
    BY <1>3, <2>1
<1>11. fun[p] \in Int /\ fun[x] \in Int /\ Sum(both) \in Int
  BY <1>3, <1>5, <1>6
<1> HIDE DEF both
<1> QED
  BY <1>4, <1>7, <1>9, <1>10, <1>11

(***************************************************************************)
(* A sum over two sets that have nothing in common.                        *)
(***************************************************************************)
LEMMA SumOfUnion ==
  ASSUME NEW fun, NEW A, IsFiniteSet(A), NEW B, IsFiniteSet(B), A \cap B = {},
         \A x \in A \cup B : fun[x] \in Int
  PROVE  SumFunctionOnSet(fun, A \cup B)
           = SumFunctionOnSet(fun, A) + SumFunctionOnSet(fun, B)
<1> DEFINE Sum(s) == SumFunctionOnSet(fun, s)
           D == {s \in SUBSET B : Sum(A \cup s) # Sum(A) + Sum(s)}
<1>1. SUFFICES ASSUME D # {} PROVE FALSE
  OBVIOUS
<1>2. PICK T \in D : \A U \in D : U \subseteq T => U = T
  <2>1. D \subseteq SUBSET B
    OBVIOUS
  <2> HIDE DEF D
  <2> QED
    BY <1>1, <2>1, Smallest
<1>3. /\ T \subseteq B /\ Sum(A \cup T) # Sum(A) + Sum(T)
      /\ \A s \in SUBSET T : s = T \/ Sum(A \cup s) = Sum(A) + Sum(s)
  BY <1>2
<1> HIDE DEF D
<1>4. ASSUME NEW s \in SUBSET T
      PROVE  /\ IsFiniteSet(s) /\ IsFiniteSet(A \cup s)
             /\ Sum(s) \in Int /\ Sum(A \cup s) \in Int /\ Sum(A) \in Int
  <2>1. s \subseteq B /\ IsFiniteSet(s)
    BY <1>3, FS_Subset
  <2>2. IsFiniteSet(A \cup s)
    BY <2>1, FS_Union
  <2> QED
    BY <2>1, <2>2, SumTyped
<1>5. T # {}
  <2> SUFFICES ASSUME T = {} PROVE FALSE
    OBVIOUS
  <2>1. A \cup T = A /\ T \in SUBSET T
    OBVIOUS
  <2>2. Sum(A \cup T) = Sum(A) /\ Sum(T) = 0 /\ Sum(A) \in Int
    BY <1>4, <2>1, SumOfNothing
  <2> HIDE DEF Sum
  <2> QED
    BY <1>3, <2>2
<1> PICK x : x \in T
  BY <1>5
<1> DEFINE rest == T \ {x}
<1>6. /\ rest \in SUBSET T /\ rest # T /\ T \in SUBSET T
      /\ (A \cup T) \ {x} = A \cup rest /\ x \in A \cup T
      /\ \A y \in A \cup T : fun[y] \in Int
  BY <1>3, <1>5
<1>7. Sum(T) = fun[x] + Sum(rest)
  BY <1>4, <1>5, <1>6, SumTakeOut
<1>8. Sum(A \cup T) = fun[x] + Sum((A \cup T) \ {x})
  <2> DEFINE all == A \cup T
  <2>1. IsFiniteSet(all) /\ x \in all /\ \A y \in all : fun[y] \in Int
    BY <1>4, <1>6
  <2> HIDE DEF all
  <2>2. Sum(all) = fun[x] + Sum(all \ {x})
    BY <2>1, SumTakeOut
  <2> QED
    BY <2>2 DEF all
<1>9. Sum(A \cup rest) = Sum(A) + Sum(rest)
  BY <1>3, <1>6
<1>10. Sum(A) \in Int /\ Sum(rest) \in Int /\ fun[x] \in Int
  BY <1>4, <1>6
<1> HIDE DEF Sum, rest
<1> QED
  BY <1>3, <1>6, <1>7, <1>8, <1>9, <1>10

(***************************************************************************)
(* A sum of sums, term by term.                                            *)
(***************************************************************************)
LEMMA SumOfSums ==
  ASSUME NEW f, NEW g, NEW h, NEW S, IsFiniteSet(S),
         \A x \in S : f[x] \in Int /\ g[x] \in Int /\ h[x] = f[x] + g[x]
  PROVE  SumFunctionOnSet(h, S) = SumFunctionOnSet(f, S) + SumFunctionOnSet(g, S)
<1> DEFINE F(s) == SumFunctionOnSet(f, s)
           G(s) == SumFunctionOnSet(g, s)
           H(s) == SumFunctionOnSet(h, s)
           D == {s \in SUBSET S : H(s) # F(s) + G(s)}
<1>1. SUFFICES ASSUME D # {} PROVE FALSE
  OBVIOUS
<1>2. PICK T \in D : \A U \in D : U \subseteq T => U = T
  <2>1. D \subseteq SUBSET S
    OBVIOUS
  <2> HIDE DEF D
  <2> QED
    BY <1>1, <2>1, Smallest
<1>3. /\ T \subseteq S /\ H(T) # F(T) + G(T)
      /\ \A s \in SUBSET T : s = T \/ H(s) = F(s) + G(s)
  BY <1>2
<1> HIDE DEF D
<1>4. T # {}
  <2> SUFFICES ASSUME T = {} PROVE FALSE
    OBVIOUS
  <2>1. F(T) = 0 /\ G(T) = 0 /\ H(T) = 0
    BY SumOfNothing
  <2> HIDE DEF F, G, H
  <2> QED
    BY <1>3, <2>1
<1> PICK x : x \in T
  BY <1>4
<1> DEFINE rest == T \ {x}
<1>5. rest \in SUBSET T /\ rest # T /\ IsFiniteSet(T) /\ IsFiniteSet(rest)
  BY <1>3, <1>4, FS_Subset
<1>6. /\ F(T) = f[x] + F(rest) /\ F(rest) \in Int /\ f[x] \in Int
      /\ G(T) = g[x] + G(rest) /\ G(rest) \in Int /\ g[x] \in Int
      /\ H(T) = h[x] + H(rest) /\ h[x] = f[x] + g[x]
  <2>1. \A y \in T : f[y] \in Int /\ g[y] \in Int /\ h[y] \in Int /\ h[y] = f[y] + g[y]
    BY <1>3
  <2>2. \A y \in rest : f[y] \in Int /\ g[y] \in Int
    BY <2>1
  <2> QED
    BY <1>4, <1>5, <2>1, <2>2, SumTakeOut, SumTyped
<1>7. H(rest) = F(rest) + G(rest)
  BY <1>3, <1>5
<1> HIDE DEF F, G, H, rest
<1> QED
  BY <1>3, <1>6, <1>7

(***************************************************************************)
(* A sum over disjoint parts is the sum of the sums of the parts.          *)
(***************************************************************************)
LEMMA SumByParts ==
  ASSUME NEW fun, NEW I, IsFiniteSet(I), NEW part,
         \A i \in I : IsFiniteSet(part[i]) /\ \A x \in part[i] : fun[x] \in Int,
         \A i, j \in I : i # j => part[i] \cap part[j] = {},
         NEW sums, \A i \in I : sums[i] = SumFunctionOnSet(fun, part[i]),
         NEW whole, whole = UNION {part[i] : i \in I}
  PROVE  IsFiniteSet(whole) /\ SumFunctionOnSet(fun, whole) = SumFunctionOnSet(sums, I)
<1> DEFINE Parts(s) == UNION {part[i] : i \in s}
           Good(s) == /\ IsFiniteSet(Parts(s))
                      /\ SumFunctionOnSet(fun, Parts(s)) = SumFunctionOnSet(sums, s)
           D == {s \in SUBSET I : ~Good(s)}
<1>1. SUFFICES ASSUME D # {} PROVE FALSE
  OBVIOUS
<1>2. PICK T \in D : \A U \in D : U \subseteq T => U = T
  <2>1. D \subseteq SUBSET I
    OBVIOUS
  <2> HIDE DEF D
  <2> QED
    BY <1>1, <2>1, Smallest
<1>3. T \subseteq I /\ ~Good(T) /\ \A s \in SUBSET T : s = T \/ Good(s)
  BY <1>2
<1> HIDE DEF D
<1>4. PICK a : a \in T
  <2>1. CASE T = {}
    <3>1. Parts(T) = {}
      BY <2>1
    <3> HIDE DEF Parts
    <3> QED
      BY <1>3, <2>1, <3>1, SumOfNothing, FS_EmptySet
  <2> QED
    BY <2>1
<1> DEFINE rest == T \ {a}
<1>5. rest \in SUBSET T /\ rest # T /\ IsFiniteSet(T) /\ T \subseteq I /\ a \in I
  BY <1>3, <1>4, FS_Subset
<1>6. Good(rest)
  BY <1>3, <1>5
<1>7. Parts(T) = Parts(rest) \cup part[a] /\ Parts(rest) \cap part[a] = {}
  BY <1>4, <1>5
<1>8. \A x \in Parts(rest) \cup part[a] : fun[x] \in Int
  BY <1>5
<1>9. \A i \in T : sums[i] \in Int
  BY <1>5, SumTyped
<1> HIDE DEF Parts
<1>10. IsFiniteSet(Parts(rest) \cup part[a])
  BY <1>5, <1>6, FS_Union
<1>11. SumFunctionOnSet(fun, Parts(T))
         = SumFunctionOnSet(fun, Parts(rest)) + SumFunctionOnSet(fun, part[a])
  <2> DEFINE old == Parts(rest)
             new == part[a]
  <2>1. IsFiniteSet(old) /\ IsFiniteSet(new) /\ old \cap new = {}
    BY <1>5, <1>6, <1>7
  <2>2. \A x \in old \cup new : fun[x] \in Int
    BY <1>8
  <2> HIDE DEF old, new
  <2>3. SumFunctionOnSet(fun, old \cup new)
          = SumFunctionOnSet(fun, old) + SumFunctionOnSet(fun, new)
    BY <2>1, <2>2, SumOfUnion
  <2> QED
    BY <1>7, <2>3 DEF old, new
<1>12. SumFunctionOnSet(sums, T) = sums[a] + SumFunctionOnSet(sums, rest)
  BY <1>4, <1>5, <1>9, SumTakeOut
<1>13. SumFunctionOnSet(sums, rest) \in Int /\ sums[a] \in Int
  <2>1. IsFiniteSet(rest) /\ \A i \in rest : sums[i] \in Int
    BY <1>5, <1>9, FS_Subset
  <2> QED
    BY <1>4, <1>9, <2>1, SumTyped
<1>14. sums[a] = SumFunctionOnSet(fun, part[a])
  BY <1>5
<1>15. IsFiniteSet(Parts(T))
  BY <1>7, <1>10
<1> HIDE DEF rest
<1>16. SumFunctionOnSet(fun, Parts(T)) = SumFunctionOnSet(sums, T)
  BY <1>6, <1>11, <1>12, <1>13, <1>14
<1> QED
  BY <1>3, <1>15, <1>16
-----------------------------------------------------------------------------
\* What a booking is worth is split exactly between the parties.
LEMMA MoneySplits ==
  ASSUME NEW b \in BookingIds
  PROVE  /\ Total[b] \in Int /\ CommissionOf[b] \in Int /\ PayoutOf[b] \in Int
         /\ Total[b] = PayoutOf[b] + CommissionOf[b]
<1> DEFINE total == Orders[b].price * Orders[b].quantity
           cut == Commission(total, Orders[b].rate)
<1>1. total \in Int /\ Orders[b].rate \in Int
  BY OrdersAssumption
<1>2. total * Orders[b].rate \in Int
  BY <1>1
<1>3. cut \in Int
  BY <1>2 DEF Commission, RoundHalfUp
<1>4. Total[b] = total /\ CommissionOf[b] = cut /\ PayoutOf[b] = total - cut
  BY DEF Total, CommissionOf, PayoutOf, MoneyOf, Quote, Payout
<1> HIDE DEF total, cut
<1> QED
  BY <1>1, <1>3, <1>4

\* The jobs a worker is paid for are the ones the profile counts.
LEMMA EarnedIsFinished ==
  ASSUME BooksInv, NEW w \in WorkerIds
  PROVE  /\ Earned(w) = Finished(w) /\ Earned(w) \subseteq BookingIds
         /\ IsFiniteSet(Earned(w)) /\ Cardinality(Earned(w)) = jobs_completed[w]
<1>1. \A b \in BookingIds : booking[b].status \in REVIEWABLE_STATUSES => b \in Rows
  BY DEF Rows, AbsentRow, REVIEWABLE_STATUSES
<1>2. Earned(w) = Finished(w) /\ Finished(w) \subseteq BookingIds
  BY <1>1 DEF Earned, Jobs, Finished, Rows, REVIEWABLE_STATUSES
<1> QED
  BY <1>2 DEF BooksInv, FinishedAreFinite, JobsCompletedIsTrue

(***************************************************************************)
(* Every job the dashboard counts is one worker's, and one's only.         *)
(***************************************************************************)
LEMMA DoneIsEarned ==
  ASSUME BooksInv
  PROVE  /\ Done = UNION {Earned(w) : w \in WorkerIds}
         /\ \A v, w \in WorkerIds : v # w => Earned(v) \cap Earned(w) = {}
<1>1. ASSUME NEW b \in Done PROVE \E w \in WorkerIds : b \in Earned(w)
  <2>1. b \in Rows /\ booking[b].status \in {"completed", "closed"}
    BY <1>1 DEF Done
  <2>2. booking[b].worker_id # None
    BY <2>1 DEF BooksInv, Timeline, Rows
  <2>3. booking[b].worker_id \in WorkerIds
    BY <2>1, <2>2, RowsOnShow
  <2> QED
    BY <2>1, <2>3 DEF Earned, Jobs
<1>2. \A w \in WorkerIds : Earned(w) \subseteq Done
  BY DEF Earned, Jobs, Done
<1>3. \A v, w \in WorkerIds : v # w => Earned(v) \cap Earned(w) = {}
  BY DEF Earned, Jobs
<1> QED
  BY <1>1, <1>2, <1>3

(***************************************************************************)
(* /worker/earnings and /admin/stats: the books balance, to the paisa, for *)
(* any prices, rates and numbers of jobs and workers.                      *)
(***************************************************************************)
THEOREM BooksDoBalance == Spec => []BooksBalance
<1>1. ASSUME BooksInv PROVE BooksBalance
  <2> DEFINE net == [w \in WorkerIds |-> Earnings(w).net_earnings]
             earned == [w \in WorkerIds |-> Earned(w)]
  <2>1. ASSUME NEW w \in WorkerIds
        PROVE  /\ IsFiniteSet(Earned(w)) /\ Cardinality(Earned(w)) = jobs_completed[w]
               /\ \A b \in Earned(w) : /\ Total[b] \in Int /\ CommissionOf[b] \in Int
                                       /\ PayoutOf[b] \in Int
                                       /\ Total[b] = PayoutOf[b] + CommissionOf[b]
    BY <1>1, EarnedIsFinished, MoneySplits
  <2>2. ASSUME NEW w \in WorkerIds
        PROVE  Earnings(w).net_earnings
                 = Earnings(w).gross_amount - Earnings(w).commission_deducted
    <3> DEFINE jobs == Earned(w)
    <3>1. /\ SumFunctionOnSet(PayoutOf, jobs) \in Int
          /\ SumFunctionOnSet(CommissionOf, jobs) \in Int
      BY <2>1, SumTyped
    <3>2. SumFunctionOnSet(Total, jobs)
            = SumFunctionOnSet(PayoutOf, jobs) + SumFunctionOnSet(CommissionOf, jobs)
      BY <2>1, SumOfSums
    <3> QED
      BY <3>1, <3>2 DEF Earnings
  <2>3. /\ IsFiniteSet(Done)
        /\ SumFunctionOnSet(PayoutOf, Done) = SumFunctionOnSet(net, WorkerIds)
    <3>1. \A w \in WorkerIds : /\ earned[w] = Earned(w)
                               /\ net[w] = SumFunctionOnSet(PayoutOf, earned[w])
      BY DEF Earnings
    <3>2. Done = UNION {earned[w] : w \in WorkerIds}
      BY <1>1, DoneIsEarned
    <3>3. \A v, w \in WorkerIds : v # w => earned[v] \cap earned[w] = {}
      BY <1>1, DoneIsEarned
    <3>4. \A w \in WorkerIds : IsFiniteSet(earned[w]) /\ \A b \in earned[w] : PayoutOf[b] \in Int
      BY <2>1
    <3>5. \A w \in WorkerIds : net[w] = SumFunctionOnSet(PayoutOf, earned[w])
      BY <3>1
    <3> HIDE DEF earned, net
    <3> QED
      BY <3>2, <3>3, <3>4, <3>5, WorkersAssumption, SumByParts
  <2>4. SumFunctionOnSet(Total, Done)
          = SumFunctionOnSet(PayoutOf, Done) + SumFunctionOnSet(CommissionOf, Done)
    <3>1. \A b \in Done : /\ Total[b] \in Int /\ CommissionOf[b] \in Int
                          /\ PayoutOf[b] \in Int
                          /\ Total[b] = PayoutOf[b] + CommissionOf[b]
      BY MoneySplits DEF Done, Rows
    <3> QED
      BY <2>3, <3>1, SumOfSums
  <2>5. SumFunction(net) = SumFunctionOnSet(net, WorkerIds)
    BY DEF SumFunction
  <2>6. \A w \in WorkerIds : Earnings(w).jobs_completed = jobs_completed[w]
    BY <2>1 DEF Earnings
  <2> HIDE DEF net
  <2>7. SumFunction(net) + Stats.commission_revenue = Stats.gross_booking_value
    BY <2>3, <2>4, <2>5 DEF Stats
  <2> QED
    BY <2>2, <2>6, <2>7 DEF BooksBalance, net
<1> QED
  BY <1>1, BooksAlways, PTL
=============================================================================
