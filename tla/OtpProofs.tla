------------------------------ MODULE OtpProofs ------------------------------
(***************************************************************************)
(* Codes, tries, daily messages and accounts, for any number of requests   *)
(* in flight and any limits.                                               *)
(*                                                                         *)
(* What bounds the guesses and the messages is how many requests stand     *)
(* between the counter they passed and what it lets them do, so that the   *)
(* invariant is about cardinalities: a step moves one request, and adds it *)
(* to or takes it from each of the sets that are counted.                  *)
(***************************************************************************)
EXTENDS Otp, FiniteSetTheorems, TLAPS

\* What a request in flight is counted as.
Asks(k) == k.op = "issue" /\ k.at # "idle"
Sends(k) == k.op = "issue" /\ k.at \in {"countArm", "act"}
Tries(k, n) == k.op = "verify" /\ k.at \in {"countArm", "act"} /\ k.stored = n
Holds(k, n) == k.stored = n

Sending == {c \in Calls : Sends(call[c])}
Trying(n) == {c \in Calls : Tries(call[c], n)}
Holding(n) == {c \in Calls : Holds(call[c], n)}

\* A code is only held by a sign-in that has yet to do something with it.
Shape(k) ==
  /\ k.op = "issue" => k.stored = 0 /\ k.at \notin {"burn", "lookup", "register"}
  /\ k.op = "verify" /\ k.at \in {"count", "countArm", "act", "burn"} => k.stored # 0
  /\ k.at \in {"idle", "limit", "limitArm", "look", "lookup", "register"} => k.stored = 0

RoomForCodes == issued + Cardinality(Asking) <= MaxCodes

CodesInOrder ==
  /\ code <= issued
  /\ \A c \in Calls : call[c].stored <= issued
  /\ \A n \in spent : n <= issued
  /\ \A n \in Codes : n > issued => guesses[n] = 0
  /\ code \notin spent

\* The guesses at a live code, made and admitted, have been counted.
TriesAreCounted ==
  \A n \in Codes : code = n =>
    /\ guesses[n] + Cardinality(Trying(n)) <= count["attempts"]
    /\ guesses[n] + Cardinality(Trying(n)) <= Limit["attempts"]

\* Whoever still holds a code may guess once more.
GuessesAreHeld ==
  \A n \in Codes :
    guesses[n] + Cardinality(Holding(n)) <= Limit["attempts"] + Cardinality(Calls)

\* The messages sent and admitted fit in the windows that have been begun, the
\* last of which has room for what its counter has not counted yet.
MessagesAreCounted ==
  LET messages == issued + Cardinality(Sending)
      room == Limit["daily"] * days IN
    /\ messages <= room
    /\ count["daily"] > 0 => messages + Limit["daily"] <= room + count["daily"]

OtpInv ==
  /\ OtpTypeOK
  /\ \A c \in Calls : Shape(call[c])
  /\ RoomForCodes
  /\ CodesInOrder
  /\ TriesAreCounted
  /\ GuessesAreHeld
  /\ MessagesAreCounted
  /\ OneRolePerNumber

-----------------------------------------------------------------------------
LEMMA Numbers ==
  ASSUME OtpTypeOK
  PROVE  /\ call \in [Calls -> Call] /\ issued \in Nat /\ days \in Nat
         /\ guesses \in [Codes -> Nat] /\ count \in [Keys -> Nat]
         /\ Codes \subseteq Nat \ {0} /\ MaxCodes \in Nat
         /\ count["attempts"] \in Nat /\ count["daily"] \in Nat
         /\ Limit["attempts"] \in Nat \ {0} /\ Limit["daily"] \in Nat \ {0}
         /\ Cardinality(Calls) \in Nat
<1>1. {"attempts", "daily"} \subseteq Keys
  BY DEF Keys
<1>2. Cardinality(Calls) \in Nat
  BY CallsAssumption, FS_CardinalityType
<1> QED
  BY <1>1, <1>2, LimitAssumption, BoundsAssumption DEF OtpTypeOK, Codes

(***************************************************************************)
(* Sets of requests, one of which may have moved.                          *)
(***************************************************************************)
LEMMA Counting ==
  ASSUME NEW S \in SUBSET Calls, NEW T \in SUBSET Calls, NEW c \in Calls
  PROVE  /\ Cardinality(S) \in Nat /\ Cardinality(T) \in Nat
         /\ Cardinality(T) <= Cardinality(Calls)
         /\ T \subseteq S => Cardinality(T) <= Cardinality(S)
         /\ T \subseteq S \cup {c} => Cardinality(T) <= Cardinality(S) + 1
         /\ c \in S /\ T \subseteq S \ {c} => Cardinality(T) + 1 <= Cardinality(S)
<1>1. IsFiniteSet(S) /\ IsFiniteSet(T) /\ IsFiniteSet(Calls)
  BY CallsAssumption, FS_Subset
<1>2. Cardinality(S) \in Nat /\ Cardinality(T) \in Nat /\ Cardinality(Calls) \in Nat
  BY <1>1, FS_CardinalityType
<1>3. Cardinality(T) <= Cardinality(Calls)
  BY <1>1, FS_Subset
<1>4. T \subseteq S => Cardinality(T) <= Cardinality(S)
  BY <1>1, FS_Subset
<1>5. ASSUME T \subseteq S \cup {c}
      PROVE  Cardinality(T) <= Cardinality(S) + 1
  <2>1. IsFiniteSet(S \cup {c}) /\ Cardinality(S \cup {c}) \in {Cardinality(S), Cardinality(S) + 1}
    BY <1>1, FS_AddElement
  <2>2. Cardinality(T) <= Cardinality(S \cup {c})
    BY <1>5, <2>1, FS_Subset
  <2> QED
    BY <1>2, <2>1, <2>2
<1>6. ASSUME c \in S, T \subseteq S \ {c}
      PROVE  Cardinality(T) + 1 <= Cardinality(S)
  <2>1. IsFiniteSet(S \ {c}) /\ Cardinality(S \ {c}) = Cardinality(S) - 1
    BY <1>1, <1>6, FS_RemoveElement
  <2>2. Cardinality(T) <= Cardinality(S \ {c})
    BY <1>6, <2>1, FS_Subset
  <2> QED
    BY <1>2, <2>1, <2>2
<1> QED
  BY <1>2, <1>3, <1>4, <1>5, <1>6

(***************************************************************************)
(* A step of request c, as each of the counts sees it: it never grows by   *)
(* more than one, and by none or less if the request allows.               *)
(***************************************************************************)
LEMMA CallAsks ==
  ASSUME call \in [Calls -> Call], NEW c \in Calls, NEW k \in Call,
         call' = [call EXCEPT ![c] = k]
  PROVE  /\ Cardinality(Asking) \in Nat /\ Cardinality(Asking') \in Nat
         /\ Cardinality(Asking') <= Cardinality(Asking) + 1
         /\ (Asks(k) => Asks(call[c])) => Cardinality(Asking') <= Cardinality(Asking)
         /\ Asks(call[c]) /\ ~Asks(k) => Cardinality(Asking') + 1 <= Cardinality(Asking)
<1>1. call'[c] = k /\ \A d \in Calls \ {c} : call'[d] = call[d]
  OBVIOUS
<1>2. /\ Asking \in SUBSET Calls /\ Asking' \in SUBSET Calls
      /\ Asking' \subseteq Asking \cup {c}
      /\ (Asks(k) => Asks(call[c])) => Asking' \subseteq Asking
      /\ Asks(call[c]) /\ ~Asks(k) => c \in Asking /\ Asking' \subseteq Asking \ {c}
  BY <1>1 DEF Asking, Asks
<1> QED
  BY <1>2, Counting

LEMMA CallSends ==
  ASSUME call \in [Calls -> Call], NEW c \in Calls, NEW k \in Call,
         call' = [call EXCEPT ![c] = k]
  PROVE  /\ Cardinality(Sending) \in Nat /\ Cardinality(Sending') \in Nat
         /\ Cardinality(Sending') <= Cardinality(Sending) + 1
         /\ (Sends(k) => Sends(call[c])) => Cardinality(Sending') <= Cardinality(Sending)
         /\ Sends(call[c]) /\ ~Sends(k) => Cardinality(Sending') + 1 <= Cardinality(Sending)
<1>1. call'[c] = k /\ \A d \in Calls \ {c} : call'[d] = call[d]
  OBVIOUS
<1>2. /\ Sending \in SUBSET Calls /\ Sending' \in SUBSET Calls
      /\ Sending' \subseteq Sending \cup {c}
      /\ (Sends(k) => Sends(call[c])) => Sending' \subseteq Sending
      /\ Sends(call[c]) /\ ~Sends(k) => c \in Sending /\ Sending' \subseteq Sending \ {c}
  BY <1>1 DEF Sending, Sends
<1> QED
  BY <1>2, Counting

LEMMA CallTries ==
  ASSUME call \in [Calls -> Call], NEW c \in Calls, NEW k \in Call,
         call' = [call EXCEPT ![c] = k], NEW n \in Codes
  PROVE  /\ Cardinality(Trying(n)) \in Nat /\ Cardinality(Trying(n)') \in Nat
         /\ Cardinality(Trying(n)') <= Cardinality(Trying(n)) + 1
         /\ (Tries(k, n) => Tries(call[c], n)) =>
              Cardinality(Trying(n)') <= Cardinality(Trying(n))
         /\ Tries(call[c], n) /\ ~Tries(k, n) =>
              Cardinality(Trying(n)') + 1 <= Cardinality(Trying(n))
<1>1. call'[c] = k /\ \A d \in Calls \ {c} : call'[d] = call[d]
  OBVIOUS
<1>2. /\ Trying(n) \in SUBSET Calls /\ Trying(n)' \in SUBSET Calls
      /\ Trying(n)' \subseteq Trying(n) \cup {c}
      /\ (Tries(k, n) => Tries(call[c], n)) => Trying(n)' \subseteq Trying(n)
      /\ Tries(call[c], n) /\ ~Tries(k, n) =>
           c \in Trying(n) /\ Trying(n)' \subseteq Trying(n) \ {c}
  BY <1>1 DEF Trying, Tries
<1> QED
  BY <1>2, Counting

LEMMA CallHolds ==
  ASSUME call \in [Calls -> Call], NEW c \in Calls, NEW k \in Call,
         call' = [call EXCEPT ![c] = k], NEW n \in Codes
  PROVE  /\ Cardinality(Holding(n)) \in Nat /\ Cardinality(Holding(n)') \in Nat
         /\ Cardinality(Holding(n)') <= Cardinality(Calls)
         /\ (Holds(k, n) => Holds(call[c], n)) =>
              Cardinality(Holding(n)') <= Cardinality(Holding(n))
         /\ Holds(call[c], n) /\ ~Holds(k, n) =>
              Cardinality(Holding(n)') + 1 <= Cardinality(Holding(n))
<1>1. call'[c] = k /\ \A d \in Calls \ {c} : call'[d] = call[d]
  OBVIOUS
<1>2. /\ Holding(n) \in SUBSET Calls /\ Holding(n)' \in SUBSET Calls
      /\ (Holds(k, n) => Holds(call[c], n)) => Holding(n)' \subseteq Holding(n)
      /\ Holds(call[c], n) /\ ~Holds(k, n) =>
           c \in Holding(n) /\ Holding(n)' \subseteq Holding(n) \ {c}
  BY <1>1 DEF Holding, Holds
<1> QED
  BY <1>2, Counting

-----------------------------------------------------------------------------
(***************************************************************************)
(* What each part of the invariant asks of a step of request c.            *)
(***************************************************************************)
LEMMA RoomKept ==
  ASSUME OtpInv, NEW c \in Calls, NEW k \in Call, call' = [call EXCEPT ![c] = k],
         (Asks(k) => Asks(call[c])) \/ issued + Cardinality(Asking) < MaxCodes,
         issued' = issued
  PROVE  RoomForCodes'
<1>1. OtpTypeOK /\ RoomForCodes
  BY DEF OtpInv
<1>2. /\ Cardinality(Asking) \in Nat /\ Cardinality(Asking') \in Nat
      /\ Cardinality(Asking') <= Cardinality(Asking) + 1
      /\ (Asks(k) => Asks(call[c])) => Cardinality(Asking') <= Cardinality(Asking)
  BY <1>1, Numbers, CallAsks
<1> QED
  BY <1>1, <1>2, Numbers DEF RoomForCodes

LEMMA OrderKept ==
  ASSUME OtpInv, NEW c \in Calls, NEW k \in Call, call' = [call EXCEPT ![c] = k],
         k.stored \in {0, call[c].stored, code}, code' \in {0, code},
         UNCHANGED <<issued, guesses, spent>>
  PROVE  CodesInOrder'
<1>1. OtpTypeOK /\ CodesInOrder
  BY DEF OtpInv
<1>2. \A d \in Calls : call'[d].stored <= issued
  BY <1>1, Numbers DEF CodesInOrder
<1>3. 0 \notin spent /\ 0 <= issued
  BY <1>1, Numbers DEF OtpTypeOK
<1> QED
  BY <1>1, <1>2, <1>3 DEF CodesInOrder

LEMMA TriesKept ==
  ASSUME OtpInv, NEW c \in Calls, NEW k \in Call, call' = [call EXCEPT ![c] = k],
         code' = 0 \/ (code' = code /\ count'["attempts"] = count["attempts"]),
         \A n \in Codes : Tries(k, n) => Tries(call[c], n),
         guesses' = guesses
  PROVE  TriesAreCounted'
<1> SUFFICES ASSUME NEW n \in Codes, code' = n
             PROVE  /\ guesses'[n] + Cardinality(Trying(n)') <= count'["attempts"]
                    /\ guesses'[n] + Cardinality(Trying(n)') <= Limit["attempts"]
  BY DEF TriesAreCounted
<1>1. OtpTypeOK
  BY DEF OtpInv
<1>2. code = n /\ count'["attempts"] = count["attempts"]
  BY <1>1, Numbers
<1>3. /\ guesses[n] + Cardinality(Trying(n)) <= count["attempts"]
      /\ guesses[n] + Cardinality(Trying(n)) <= Limit["attempts"]
  BY <1>2 DEF OtpInv, TriesAreCounted
<1>4. /\ Cardinality(Trying(n)) \in Nat /\ Cardinality(Trying(n)') \in Nat
      /\ Cardinality(Trying(n)') <= Cardinality(Trying(n))
  BY <1>1, Numbers, CallTries
<1>5. guesses'[n] = guesses[n] /\ guesses[n] \in Nat
  BY <1>1, Numbers
<1> QED
  BY <1>1, <1>2, <1>3, <1>4, <1>5, Numbers

LEMMA HeldKept ==
  ASSUME OtpInv, NEW c \in Calls, NEW k \in Call, call' = [call EXCEPT ![c] = k],
         k.stored \in {0, call[c].stored}, guesses' = guesses
  PROVE  GuessesAreHeld'
<1> SUFFICES ASSUME NEW n \in Codes
             PROVE  guesses'[n] + Cardinality(Holding(n)') <= Limit["attempts"] + Cardinality(Calls)
  BY DEF GuessesAreHeld
<1>1. OtpTypeOK
  BY DEF OtpInv
<1>2. guesses[n] + Cardinality(Holding(n)) <= Limit["attempts"] + Cardinality(Calls)
  BY DEF OtpInv, GuessesAreHeld
<1>3. Holds(k, n) => Holds(call[c], n)
  BY <1>1, Numbers DEF Holds
<1>4. /\ Cardinality(Holding(n)) \in Nat /\ Cardinality(Holding(n)') \in Nat
      /\ Cardinality(Holding(n)') <= Cardinality(Holding(n))
  BY <1>1, <1>3, Numbers, CallHolds
<1>5. guesses'[n] = guesses[n] /\ guesses[n] \in Nat
  BY <1>1, Numbers
<1> QED
  BY <1>1, <1>2, <1>4, <1>5, Numbers

LEMMA MessagesKept ==
  ASSUME OtpInv, NEW c \in Calls, NEW k \in Call, call' = [call EXCEPT ![c] = k],
         Sends(k) => Sends(call[c]),
         UNCHANGED <<issued, days>>, count'["daily"] = count["daily"]
  PROVE  MessagesAreCounted'
<1>1. OtpTypeOK /\ MessagesAreCounted
  BY DEF OtpInv
<1>2. /\ Cardinality(Sending) \in Nat /\ Cardinality(Sending') \in Nat
      /\ Cardinality(Sending') <= Cardinality(Sending)
  BY <1>1, Numbers, CallSends
<1>3. Limit["daily"] * days \in Nat
  BY <1>1, Numbers
<1> QED
  BY <1>1, <1>2, <1>3, Numbers DEF MessagesAreCounted

LEMMA ShapeKept ==
  ASSUME OtpInv, NEW c \in Calls, NEW k \in Call, call' = [call EXCEPT ![c] = k],
         Shape(k)
  PROVE  \A d \in Calls : Shape(call'[d])
BY Numbers DEF OtpInv

(***************************************************************************)
(* A step that neither issues nor compares a code, and after which the     *)
(* request counts as nothing that it did not count as before.              *)
(***************************************************************************)
LEMMA QuietStep ==
  ASSUME OtpInv, NEW c \in Calls, NEW k \in Call, call' = [call EXCEPT ![c] = k],
         Shape(k), k.stored \in {0, call[c].stored},
         (Asks(k) => Asks(call[c])) \/ issued + Cardinality(Asking) < MaxCodes,
         Sends(k) => Sends(call[c]),
         \A n \in Codes : Tries(k, n) => Tries(call[c], n),
         UNCHANGED <<code, issued, days, guesses, spent>>,
         count'["attempts"] = count["attempts"], count'["daily"] = count["daily"],
         OtpTypeOK', OneRolePerNumber'
  PROVE  OtpInv'
<1>1. \A d \in Calls : Shape(call'[d])
  BY ShapeKept
<1>2. RoomForCodes' /\ CodesInOrder' /\ MessagesAreCounted'
  BY RoomKept, OrderKept, MessagesKept
<1>3. TriesAreCounted' /\ GuessesAreHeld'
  BY TriesKept, HeldKept
<1> QED
  BY <1>1, <1>2, <1>3 DEF OtpInv

-----------------------------------------------------------------------------
\* Where a step leaves the request it is a step of.
LEMMA Going ==
  ASSUME OtpTypeOK, NEW c \in Calls, NEW step \in Steps, Goto(c, step)
  PROVE  \E k \in Call :
           /\ call' = [call EXCEPT ![c] = k]
           /\ k.at = step /\ k.op = call[c].op /\ k.stored = call[c].stored
           /\ k.role = call[c].role
<1> DEFINE k == [call[c] EXCEPT !.at = step]
<1>1. call \in [Calls -> Call] /\ call[c] \in Call
  BY DEF OtpTypeOK
<1>2. k \in Call
  BY <1>1 DEF Call
<1>3. call' = [call EXCEPT ![c] = k]
  BY <1>1 DEF Goto
<1>4. k.at = step /\ k.op = call[c].op /\ k.stored = call[c].stored /\ k.role = call[c].role
  BY <1>1 DEF Call
<1> QED
  BY <1>2, <1>3, <1>4

LEMMA Beginning ==
  ASSUME OtpTypeOK, NEW c \in Calls, Begin(c), Shape(call[c])
  PROVE  \E k \in Call :
           /\ call' = [call EXCEPT ![c] = k]
           /\ k.at = "limit" /\ k.stored = 0
           /\ \/ k.op = "issue" /\ issued + Cardinality(Asking) < MaxCodes
              \/ k.op = "verify"
<1>1. call \in [Calls -> Call] /\ call[c] \in Call /\ call[c].stored = 0
  BY DEF OtpTypeOK, Shape, Begin
<1>2. PICK op \in {"issue", "verify"} :
        /\ call' = [call EXCEPT ![c].op = op, ![c].at = "limit"]
        /\ op = "issue" => issued + Cardinality(Asking) < MaxCodes
  BY DEF Begin
<1> DEFINE k == [call[c] EXCEPT !.op = op, !.at = "limit"]
<1>3. k \in Call
  BY <1>1 DEF Call, Steps
<1>4. call' = [call EXCEPT ![c] = k]
  BY <1>1, <1>2
<1>5. k.at = "limit" /\ k.op = op /\ k.stored = 0
  BY <1>1 DEF Call
<1> QED
  BY <1>2, <1>3, <1>4, <1>5

LEMMA Reading ==
  ASSUME OtpTypeOK, NEW c \in Calls, LookCode(c), code # 0
  PROVE  \E k \in Call :
           /\ call' = [call EXCEPT ![c] = k]
           /\ k.at = "count" /\ k.op = "verify" /\ k.stored = code
<1>1. call \in [Calls -> Call] /\ call[c] \in Call /\ code \in Codes
  BY DEF OtpTypeOK
<1> DEFINE k == [call[c] EXCEPT !.at = "count", !.stored = code]
<1>2. k \in Call
  BY <1>1 DEF Call, Steps
<1>3. call' = [call EXCEPT ![c] = k]
  BY <1>1 DEF LookCode
<1>4. k.at = "count" /\ k.op = "verify" /\ k.stored = code
  BY <1>1 DEF Call, LookCode
<1> QED
  BY <1>2, <1>3, <1>4

LEMMA Using ==
  ASSUME OtpTypeOK, NEW c \in Calls, Use(c)
  PROVE  \E k \in Call :
           /\ call' = [call EXCEPT ![c] = k]
           /\ k.at = "lookup" /\ k.op = "verify" /\ k.stored = 0
<1>1. call \in [Calls -> Call] /\ call[c] \in Call
  BY DEF OtpTypeOK
<1>2. PICK role \in Roles :
        call' = [call EXCEPT ![c].at = "lookup", ![c].stored = 0, ![c].role = role]
  BY DEF Use
<1> DEFINE k == [call[c] EXCEPT !.at = "lookup", !.stored = 0, !.role = role]
<1>3. k \in Call
  BY <1>1 DEF Call, Steps
<1>4. call' = [call EXCEPT ![c] = k]
  BY <1>1, <1>2
<1>5. k.at = "lookup" /\ k.op = "verify" /\ k.stored = 0
  BY <1>1 DEF Call, Use
<1> QED
  BY <1>3, <1>4, <1>5

LEMMA Idle ==
  /\ IdleCall \in Call /\ Shape(IdleCall)
  /\ IdleCall.at = "idle" /\ IdleCall.op = "issue" /\ IdleCall.stored = 0
BY DEF IdleCall, Call, Shape, Roles

\* A counter stays between nothing and one above its limit.
LEMMA Counters ==
  ASSUME OtpTypeOK, NEW k \in Keys
  PROVE  /\ Bumped(k) \in Nat /\ Bumped(k) <= Limit[k] + 1
         /\ count[k] <= Bumped(k) /\ Bumped(k) \in {count[k], count[k] + 1}
         /\ ~Over(k, Bumped(k)) => Bumped(k) = count[k] + 1
         /\ MustArm(k, Bumped(k)) => Bumped(k) = count[k] + 1 /\ count[k] = 0 /\ ~Over(k, Bumped(k))
BY LimitAssumption DEF OtpTypeOK, Bumped, Over, MustArm

LEMMA Resetting ==
  ASSUME OtpTypeOK, NEW k \in Keys, count' = [count EXCEPT ![k] = 0]
  PROVE  count' \in [Keys -> Nat] /\ \A j \in Keys : count'[j] <= Limit[j] + 1
<1>1. count \in [Keys -> Nat] /\ \A j \in Keys : count[j] <= Limit[j] + 1
  BY DEF OtpTypeOK
<1>2. \A j \in Keys : Limit[j] \in Nat
  BY LimitAssumption
<1>3. ASSUME NEW j \in Keys
      PROVE  count'[j] \in {0, count[j]}
  BY <1>1
<1>4. ASSUME NEW j \in Keys
      PROVE  count'[j] <= Limit[j] + 1
  BY <1>1, <1>2, <1>3
<1> QED
  BY <1>1, <1>4

LEMMA WhichKeys ==
  \A op \in {"issue", "verify"} :
    /\ LimitKey(op) \in Keys /\ LimitKey(op) \notin {"daily", "attempts"}
    /\ ServiceKey(op) \in Keys
    /\ ServiceKey(op) = IF op = "issue" THEN "daily" ELSE "attempts"
BY DEF LimitKey, ServiceKey, Keys

-----------------------------------------------------------------------------
LEMMA OtpTypeStep ==
  ASSUME OtpInv, OtpNext
  PROVE  OtpTypeOK'
<1> USE DEF OtpTypeOK
<1>1. OtpTypeOK /\ RoomForCodes /\ \A c \in Calls : Shape(call[c])
  BY DEF OtpInv
<1>2. ASSUME NEW c \in Calls, NEW step \in Steps, Goto(c, step)
      PROVE  call' \in [Calls -> Call]
  BY <1>1, <1>2, Going
<1>3. ASSUME NEW c \in Calls, End(c)
      PROVE  call' \in [Calls -> Call]
  BY <1>1, <1>3, Idle DEF End
<1>4. ASSUME NEW n \in Codes \cup {0}, Delete(n)
      PROVE  /\ code' \in Codes \cup {0}
             /\ count' \in [Keys -> Nat] /\ \A k \in Keys : count'[k] <= Limit[k] + 1
             /\ expires' \in [Keys -> BOOLEAN]
  <2>1. "attempts" \in Keys
    BY DEF Keys
  <2>2. count' \in [Keys -> Nat] /\ \A k \in Keys : count'[k] <= Limit[k] + 1
    BY <1>1, <1>4, <2>1, Resetting DEF Delete
  <2>3. expires' \in [Keys -> BOOLEAN]
    BY <1>1, <1>4, <2>1 DEF Delete
  <2> QED
    BY <1>4, <2>2, <2>3 DEF Delete
<1>5. ASSUME NEW k \in Keys, count' = [count EXCEPT ![k] = Bumped(k)]
      PROVE  count' \in [Keys -> Nat] /\ \A j \in Keys : count'[j] <= Limit[j] + 1
  BY <1>1, <1>5, Counters
<1>6. ASSUME NEW c \in Calls, call[c].at = "act", call[c].op = "verify", Compare(c)
      PROVE  guesses' \in [Codes -> Nat] /\ call[c].stored \in Codes
  <2>1. call[c].stored \in Codes
    BY <1>1, <1>6 DEF Shape, Call
  <2> QED
    BY <1>1, <1>6, <2>1 DEF Compare
<1>7. ASSUME NEW c \in Calls
      PROVE  call[c] \in Call /\ call[c].op \in {"issue", "verify"}
  BY <1>1 DEF Call
<1>8. ASSUME NEW c \in Calls, Begin(c)
      PROVE  OtpTypeOK'
  <2>1. call' \in [Calls -> Call]
    BY <1>1, <1>8, Beginning
  <2> QED
    BY <1>1, <1>8, <2>1 DEF Begin, redisVars, historyVars
<1>9. ASSUME NEW c \in Calls, CountLimit(c)
      PROVE  OtpTypeOK'
  <2>1. call' \in [Calls -> Call]
    BY <1>2, <1>3, <1>9 DEF CountLimit, Steps
  <2>2. count' \in [Keys -> Nat] /\ \A j \in Keys : count'[j] <= Limit[j] + 1
    BY <1>5, <1>7, <1>9, WhichKeys DEF CountLimit
  <2> QED
    BY <1>1, <1>9, <2>1, <2>2 DEF CountLimit, historyVars
<1>10. ASSUME NEW c \in Calls, ArmLimit(c)
       PROVE  OtpTypeOK'
  <2>1. call' \in [Calls -> Call]
    BY <1>2, <1>10 DEF ArmLimit, Steps
  <2>2. expires' \in [Keys -> BOOLEAN]
    <3> DEFINE b == count[LimitKey(call[c].op)] > 0
    <3>1. b \in BOOLEAN /\ expires' = [expires EXCEPT ![LimitKey(call[c].op)] = b]
      BY <1>10 DEF ArmLimit
    <3> HIDE DEF b
    <3> QED
      BY <1>1, <3>1
  <2> QED
    BY <1>1, <1>10, <2>1, <2>2 DEF ArmLimit, historyVars
<1>11. ASSUME NEW c \in Calls, LookCooldown(c)
       PROVE  OtpTypeOK'
  <2>1. call' \in [Calls -> Call]
    BY <1>2, <1>3, <1>11 DEF LookCooldown, Steps
  <2> QED
    BY <1>1, <1>11, <2>1 DEF LookCooldown, redisVars, historyVars
<1>12. ASSUME NEW c \in Calls, LookCode(c)
       PROVE  OtpTypeOK'
  <2>1. call' \in [Calls -> Call]
    <3>1. CASE code = 0
      BY <1>3, <1>12, <3>1 DEF LookCode
    <3>2. CASE code # 0
      BY <1>1, <1>12, <3>2, Reading
    <3> QED
      BY <3>1, <3>2
  <2> QED
    BY <1>1, <1>12, <2>1 DEF LookCode, redisVars, historyVars
<1>13. ASSUME NEW c \in Calls, CountService(c)
       PROVE  OtpTypeOK'
  <2>1. call' \in [Calls -> Call]
    BY <1>2, <1>3, <1>13 DEF CountService, Steps
  <2>2. count' \in [Keys -> Nat] /\ \A j \in Keys : count'[j] <= Limit[j] + 1
    BY <1>5, <1>7, <1>13, WhichKeys DEF CountService
  <2>3. days' \in Nat
    BY <1>1, <1>13 DEF CountService
  <2> QED
    BY <1>1, <1>13, <2>1, <2>2, <2>3 DEF CountService
<1>14. ASSUME NEW c \in Calls, ArmService(c)
       PROVE  OtpTypeOK'
  <2>1. call' \in [Calls -> Call]
    BY <1>2, <1>14 DEF ArmService, Steps
  <2>2. expires' \in [Keys -> BOOLEAN]
    <3> DEFINE b == count[ServiceKey(call[c].op)] > 0
    <3>1. b \in BOOLEAN /\ expires' = [expires EXCEPT ![ServiceKey(call[c].op)] = b]
      BY <1>14 DEF ArmService
    <3> HIDE DEF b
    <3> QED
      BY <1>1, <3>1
  <2> QED
    BY <1>1, <1>14, <2>1, <2>2 DEF ArmService, historyVars
<1>15. ASSUME NEW c \in Calls, Send(c)
       PROVE  OtpTypeOK' /\ issued + 1 \in Codes
  <2>1. Asks(call[c]) /\ ~Asks(IdleCall) /\ call' = [call EXCEPT ![c] = IdleCall]
    BY <1>15, Idle DEF Send, End, Asks
  <2>2. Cardinality(Asking') \in Nat /\ Cardinality(Asking') + 1 <= Cardinality(Asking)
        /\ Cardinality(Asking) \in Nat
    BY <1>1, <2>1, CallAsks, Idle
  <2>3. issued + 1 \in Codes
    BY <1>1, <2>2, BoundsAssumption DEF RoomForCodes, Codes
  <2>4. issued' \in 0..MaxCodes
    BY <1>15, <2>3 DEF Send, Codes
  <2> QED
    BY <1>1, <1>3, <1>4, <1>15, <2>3, <2>4 DEF Send
<1>16. ASSUME NEW c \in Calls, Burn(c)
       PROVE  OtpTypeOK'
  BY <1>1, <1>3, <1>4, <1>16 DEF Burn, CodeAfterBurn, historyVars
<1>17. ASSUME NEW c \in Calls, Wrong(c)
       PROVE  OtpTypeOK'
  BY <1>1, <1>3, <1>6, <1>17 DEF Wrong, redisVars
<1>18. ASSUME NEW c \in Calls, Use(c)
       PROVE  OtpTypeOK'
  <2>1. call' \in [Calls -> Call]
    BY <1>1, <1>18, Using
  <2>2. spent' \subseteq Codes /\ guesses' \in [Codes -> Nat]
    BY <1>1, <1>6, <1>18 DEF Use
  <2> QED
    BY <1>1, <1>4, <1>18, <2>1, <2>2 DEF Use, CodeAfterUse
<1>19. ASSUME NEW c \in Calls, LookupUser(c)
       PROVE  OtpTypeOK'
  <2>1. call' \in [Calls -> Call]
    BY <1>2, <1>3, <1>19 DEF LookupUser, Steps
  <2>2. admitted' \subseteq Roles
    BY <1>1, <1>7, <1>19 DEF LookupUser, Admit, Call
  <2> QED
    BY <1>1, <1>19, <2>1, <2>2 DEF LookupUser, redisVars
<1>20. ASSUME NEW c \in Calls, Register(c)
       PROVE  OtpTypeOK'
  <2>1. call' \in [Calls -> Call]
    BY <1>3, <1>20 DEF Register
  <2>2. admitted' \subseteq Roles
    BY <1>1, <1>7, <1>20 DEF Register, Conflict, Admit, Call
  <2>3. users' \subseteq User
    <3> DEFINE p == call[c].role = "worker"
    <3>1. p \in BOOLEAN /\ (users' = {[role |-> call[c].role, profile |-> p]} \/ users' = users)
      BY <1>20 DEF Register
    <3> HIDE DEF p
    <3>2. call[c].role \in Roles
      BY <1>7 DEF Call
    <3>3. [role |-> call[c].role, profile |-> p] \in User
      BY <3>1, <3>2 DEF User
    <3> QED
      BY <1>1, <3>1, <3>3
  <2> QED
    BY <1>1, <1>20, <2>1, <2>2, <2>3 DEF Register, redisVars
<1>21. ASSUME NEW c \in Calls, Fail(c)
       PROVE  OtpTypeOK'
  BY <1>1, <1>3, <1>21 DEF Fail, redisVars, historyVars
<1>22. ASSUME ExpireCooldown
       PROVE  OtpTypeOK'
  BY <1>1, <1>22 DEF ExpireCooldown, historyVars
<1>23. ASSUME ExpireCode
       PROVE  OtpTypeOK'
  BY <1>1, <1>23 DEF ExpireCode, historyVars
<1>24. ASSUME NEW k \in Keys, ExpireCounter(k)
       PROVE  OtpTypeOK'
  <2>2. count' \in [Keys -> Nat] /\ \A j \in Keys : count'[j] <= Limit[j] + 1
    BY <1>1, <1>24, Resetting DEF ExpireCounter
  <2>3. expires' \in [Keys -> BOOLEAN]
    BY <1>1, <1>24 DEF ExpireCounter
  <2> QED
    BY <1>1, <1>24, <2>2, <2>3 DEF ExpireCounter, historyVars
<1> QED
  BY <1>8, <1>9, <1>10, <1>11, <1>12, <1>13, <1>14, <1>15, <1>16, <1>17, <1>18,
     <1>19, <1>20, <1>21, <1>22, <1>23, <1>24 DEF OtpNext, Serve

-----------------------------------------------------------------------------
LEMMA UsersStep ==
  ASSUME OtpInv, OtpNext
  PROVE  OneRolePerNumber'
<1>1. OneRolePerNumber /\ call \in [Calls -> Call] /\ users \subseteq User
  BY DEF OtpInv, OtpTypeOK
<1>2. ASSUME users' = users, admitted' = admitted
      PROVE  OneRolePerNumber'
  BY <1>1, <1>2 DEF OneRolePerNumber
<1>3. ASSUME NEW c \in Calls, LookupUser(c)
      PROVE  OneRolePerNumber'
  <2>1. users' = users
    BY <1>3 DEF LookupUser
  <2>2. CASE admitted' = admitted
    BY <1>2, <2>1, <2>2
  <2>3. CASE \E u \in users : RoleFits(u, call[c].role) /\ Admit(c)
    BY <1>1, <2>1, <2>3 DEF OneRolePerNumber, Admit
  <2> QED
    BY <1>3, <2>2, <2>3 DEF LookupUser
<1>4. ASSUME NEW c \in Calls, Register(c)
      PROVE  OneRolePerNumber'
  <2>1. CASE users # {}
    BY <1>2, <1>4, <2>1 DEF Register, Conflict
  <2>2. CASE users = {}
    <3> DEFINE role == call[c].role
               p == role = "worker"
               u == [role |-> role, profile |-> p]
    <3>1. admitted = {}
      BY <1>1, <2>2 DEF OneRolePerNumber
    <3>2. users' = {u} /\ admitted' = {role}
      BY <1>4, <2>2, <3>1 DEF Register, Admit
    <3>3. u.role = role /\ (u.profile <=> u.role = "worker")
      OBVIOUS
    <3>4. RoleFits(u, role)
      BY <3>3 DEF RoleFits
    <3> HIDE DEF u
    <3> QED
      BY <3>2, <3>3, <3>4 DEF OneRolePerNumber
  <2> QED
    BY <2>1, <2>2
<1>5. CASE \E c \in Calls : \/ Begin(c) \/ CountLimit(c) \/ ArmLimit(c) \/ LookCooldown(c)
                            \/ LookCode(c) \/ CountService(c) \/ ArmService(c)
                            \/ Send(c) \/ Burn(c) \/ Wrong(c) \/ Use(c) \/ Fail(c)
  BY <1>2, <1>5 DEF Begin, CountLimit, ArmLimit, LookCooldown, LookCode, CountService,
     ArmService, Send, Burn, Wrong, Use, Fail, historyVars
<1>6. CASE ExpireCooldown \/ ExpireCode \/ \E k \in Keys : ExpireCounter(k)
  BY <1>2, <1>6 DEF ExpireCooldown, ExpireCode, ExpireCounter, historyVars
<1> QED
  BY <1>3, <1>4, <1>5, <1>6 DEF OtpNext, Serve

-----------------------------------------------------------------------------
LEMMA OtpInvInit == OtpInit => OtpInv
<1> SUFFICES ASSUME OtpInit PROVE OtpInv
  OBVIOUS
<1>1. \A k \in Keys : Limit[k] \in Nat
  BY LimitAssumption
<1>2. OtpTypeOK
  <2>1. call \in [Calls -> Call]
    BY Idle DEF OtpInit
  <2>2. users \subseteq User
    <3>1. [role |-> "admin", profile |-> FALSE] \in User
      BY DEF User
    <3> QED
      BY <3>1 DEF OtpInit
  <2>3. count \in [Keys -> Nat] /\ \A k \in Keys : count[k] <= Limit[k] + 1
    BY <1>1 DEF OtpInit
  <2>4. issued \in 0..MaxCodes /\ days \in Nat /\ guesses \in [Codes -> Nat]
    BY BoundsAssumption DEF OtpInit
  <2>5. expires \in [Keys -> BOOLEAN]
    BY DEF OtpInit
  <2> QED
    BY <2>1, <2>2, <2>3, <2>4, <2>5 DEF OtpInit, OtpTypeOK
<1>3. \A c \in Calls : call[c] = IdleCall
  BY DEF OtpInit
<1>4. Asking = {} /\ Sending = {} /\ \A n \in Codes : Holding(n) = {}
  BY <1>3, Idle DEF Asking, Sending, Sends, Holding, Holds, Codes
<1>5. Cardinality({}) = 0
  BY FS_EmptySet
<1>6. RoomForCodes
  BY <1>4, <1>5, BoundsAssumption DEF RoomForCodes, OtpInit
<1>7. CodesInOrder
  BY <1>3, Idle DEF CodesInOrder, OtpInit
<1>8. TriesAreCounted
  BY DEF TriesAreCounted, OtpInit, Codes
<1>9. GuessesAreHeld
  <2> SUFFICES ASSUME NEW n \in Codes
               PROVE  guesses[n] + Cardinality(Holding(n)) <= Limit["attempts"] + Cardinality(Calls)
    BY DEF GuessesAreHeld
  <2>1. guesses[n] = 0 /\ Cardinality(Holding(n)) = 0
    BY <1>4, <1>5 DEF OtpInit
  <2> QED
    BY <1>2, <2>1, Numbers
<1>10. MessagesAreCounted
  <2>1. issued = 0 /\ days = 0 /\ Cardinality(Sending) = 0 /\ count["daily"] = 0
    BY <1>4, <1>5 DEF OtpInit, Keys
  <2> QED
    BY <1>2, <2>1, Numbers DEF MessagesAreCounted
<1>11. OneRolePerNumber
  <2>1. CASE users = {}
    BY <2>1 DEF OneRolePerNumber, OtpInit
  <2>2. CASE users = {[role |-> "admin", profile |-> FALSE]}
    BY <2>2 DEF OneRolePerNumber, OtpInit
  <2> QED
    BY <2>1, <2>2 DEF OtpInit
<1> QED
  BY <1>2, <1>3, <1>6, <1>7, <1>8, <1>9, <1>10, <1>11, Idle DEF OtpInv

-----------------------------------------------------------------------------
(***************************************************************************)
(* The steps that move the counts, one lemma each.                         *)
(***************************************************************************)
LEMMA LookCodeStep ==
  ASSUME OtpInv, NEW c \in Calls, LookCode(c), OtpTypeOK', OneRolePerNumber'
  PROVE  OtpInv'
<1>1. OtpTypeOK
  BY DEF OtpInv
<1>2. /\ call[c].at = "look" /\ call[c].op = "verify"
      /\ UNCHANGED <<code, count, issued, days, guesses, spent>>
  BY DEF LookCode, redisVars, historyVars
<1>3. CASE code = 0
  <2>1. call' = [call EXCEPT ![c] = IdleCall]
    BY <1>3 DEF LookCode, End
  <2> QED
    BY <1>2, <2>1, QuietStep, Idle DEF Asks, Sends, Tries
<1>4. CASE code # 0
  <2>1. PICK k \in Call :
          /\ call' = [call EXCEPT ![c] = k]
          /\ k.at = "count" /\ k.op = "verify" /\ k.stored = code
    BY <1>1, <1>4, Reading
  <2>2. \A d \in Calls : Shape(call'[d])
    <3>1. Shape(k)
      BY <1>4, <2>1 DEF Shape
    <3> QED
      BY <2>1, <3>1, ShapeKept
  <2>3. RoomForCodes' /\ CodesInOrder' /\ MessagesAreCounted' /\ TriesAreCounted'
    BY <1>2, <2>1, RoomKept, OrderKept, MessagesKept, TriesKept DEF Asks, Sends, Tries
  <2>4. GuessesAreHeld'
    <3> SUFFICES ASSUME NEW n \in Codes
                 PROVE  guesses'[n] + Cardinality(Holding(n)') <= Limit["attempts"] + Cardinality(Calls)
      BY DEF GuessesAreHeld
    <3>1. guesses'[n] = guesses[n] /\ guesses[n] \in Nat
      BY <1>1, <1>2, Numbers
    <3>2. /\ Cardinality(Holding(n)) \in Nat /\ Cardinality(Holding(n)') \in Nat
          /\ Cardinality(Holding(n)') <= Cardinality(Calls)
          /\ (Holds(k, n) => Holds(call[c], n)) =>
               Cardinality(Holding(n)') <= Cardinality(Holding(n))
      BY <1>1, <2>1, Numbers, CallHolds
    <3>3. CASE n = code
      <4>1. guesses[n] + Cardinality(Trying(n)) <= Limit["attempts"]
        BY <3>3 DEF OtpInv, TriesAreCounted
      <4>2. Cardinality(Trying(n)) \in Nat
        BY <1>1, <2>1, Numbers, CallTries
      <4> QED
        BY <1>1, <3>1, <3>2, <4>1, <4>2, Numbers
    <3>4. CASE n # code
      <4>1. guesses[n] + Cardinality(Holding(n)) <= Limit["attempts"] + Cardinality(Calls)
        BY DEF OtpInv, GuessesAreHeld
      <4>2. ~Holds(k, n)
        BY <2>1, <3>4 DEF Holds
      <4> QED
        BY <1>1, <3>1, <3>2, <4>1, <4>2, Numbers
    <3> QED
      BY <3>3, <3>4
  <2> QED
    BY <2>2, <2>3, <2>4 DEF OtpInv
<1> QED
  BY <1>3, <1>4

\* What becomes of a request after INCR, by the answer.
LEMMA Counted ==
  ASSUME OtpInv, NEW c \in Calls, CountService(c)
  PROVE  LET key == ServiceKey(call[c].op) IN
         /\ key \in Keys /\ count' = [count EXCEPT ![key] = Bumped(key)]
         /\ \E k \in Call :
              /\ call' = [call EXCEPT ![c] = k] /\ Shape(k)
              /\ k.stored \in {0, call[c].stored}
              /\ \/ /\ k.op = call[c].op /\ k.at \in {"countArm", "act"}
                    /\ k.stored = call[c].stored
                    /\ Bumped(key) = count[key] + 1 /\ count[key] + 1 <= Limit[key]
                 \/ k.op = "issue" /\ k.at = "idle"
                 \/ k.op = "verify" /\ k.at = "burn" /\ call[c].op = "verify"
<1> DEFINE key == ServiceKey(call[c].op)
<1>1. OtpTypeOK /\ Shape(call[c]) /\ call[c].at = "count" /\ call[c].op \in {"issue", "verify"}
  BY DEF OtpInv, OtpTypeOK, CountService, Call
<1>2. key \in Keys /\ (key = "daily" <=> call[c].op = "issue")
  BY <1>1, WhichKeys
<1>3. /\ count' = [count EXCEPT ![key] = Bumped(key)]
      /\ \/ MustArm(key, Bumped(key)) /\ Goto(c, "countArm")
         \/ Over(key, Bumped(key)) /\ key = "daily" /\ End(c)
         \/ Over(key, Bumped(key)) /\ key # "daily" /\ Goto(c, "burn")
         \/ ~Over(key, Bumped(key)) /\ Goto(c, "act")
  BY DEF CountService
<1>4. /\ ~Over(key, Bumped(key)) => Bumped(key) = count[key] + 1
      /\ MustArm(key, Bumped(key)) => Bumped(key) = count[key] + 1 /\ ~Over(key, Bumped(key))
      /\ Bumped(key) \in Nat /\ count[key] \in Nat
  BY <1>1, <1>2, Counters DEF OtpTypeOK
<1>5. ~Over(key, Bumped(key)) => count[key] + 1 <= Limit[key]
  BY <1>2, <1>4, LimitAssumption DEF Over
<1>6. {"countArm", "act", "burn"} \subseteq Steps
  BY DEF Steps
<1> HIDE DEF key
<1>7. ASSUME NEW step \in {"countArm", "act"}, Goto(c, step), ~Over(key, Bumped(key))
      PROVE  \E k \in Call :
               /\ call' = [call EXCEPT ![c] = k] /\ Shape(k)
               /\ k.op = call[c].op /\ k.at \in {"countArm", "act"}
               /\ k.stored = call[c].stored
  BY <1>1, <1>6, <1>7, Going DEF Shape
<1>8. CASE ~Over(key, Bumped(key))
  BY <1>2, <1>3, <1>4, <1>5, <1>7, <1>8 DEF key
<1>9. CASE Over(key, Bumped(key)) /\ key = "daily"
  BY <1>2, <1>3, <1>4, <1>9, Idle DEF End, key
<1>10. CASE Over(key, Bumped(key)) /\ key # "daily"
  <2>1. Goto(c, "burn") /\ call[c].op = "verify"
    BY <1>1, <1>2, <1>3, <1>4, <1>10
  <2>2. \E k \in Call : /\ call' = [call EXCEPT ![c] = k] /\ Shape(k)
                        /\ k.stored = call[c].stored
                        /\ k.op = "verify" /\ k.at = "burn"
    BY <1>1, <1>6, <2>1, Going DEF Shape
  <2> QED
    BY <1>2, <1>3, <2>1, <2>2 DEF key
<1> QED
  BY <1>8, <1>9, <1>10

LEMMA CountServiceStep ==
  ASSUME OtpInv, NEW c \in Calls, CountService(c), OtpTypeOK', OneRolePerNumber'
  PROVE  OtpInv'
<1> DEFINE key == ServiceKey(call[c].op)
<1>1. OtpTypeOK /\ call[c].at = "count" /\ call[c].op \in {"issue", "verify"}
  BY DEF OtpInv, OtpTypeOK, CountService, Call
<1>2. key \in Keys /\ key = IF call[c].op = "issue" THEN "daily" ELSE "attempts"
  BY <1>1, WhichKeys
<1>3. /\ count' = [count EXCEPT ![key] = Bumped(key)]
      /\ days' = IF key = "daily" /\ count[key] = 0 THEN days + 1 ELSE days
      /\ UNCHANGED <<code, issued, guesses, spent>>
  BY DEF CountService
<1>4. PICK k \in Call :
        /\ call' = [call EXCEPT ![c] = k] /\ Shape(k)
        /\ k.stored \in {0, call[c].stored}
        /\ \/ /\ k.op = call[c].op /\ k.at \in {"countArm", "act"}
              /\ k.stored = call[c].stored
              /\ Bumped(key) = count[key] + 1 /\ count[key] + 1 <= Limit[key]
           \/ k.op = "issue" /\ k.at = "idle"
           \/ k.op = "verify" /\ k.at = "burn" /\ call[c].op = "verify"
  BY Counted
<1>5. count[key] \in Nat /\ Bumped(key) \in {count[key], count[key] + 1}
  BY <1>1, <1>2, Counters DEF OtpTypeOK
<1>6. \A d \in Calls : Shape(call'[d])
  BY <1>4, ShapeKept
<1>7. RoomForCodes' /\ CodesInOrder' /\ GuessesAreHeld'
  <2>1. Asks(k) => Asks(call[c])
    BY <1>1, <1>4 DEF Asks
  <2> QED
    BY <1>3, <1>4, <2>1, RoomKept, OrderKept, HeldKept
<1>8. {"attempts", "daily"} \subseteq Keys
  BY DEF Keys
<1> HIDE DEF key
<1>9. TriesAreCounted'
  <2> SUFFICES ASSUME NEW n \in Codes, code' = n
               PROVE  /\ guesses'[n] + Cardinality(Trying(n)') <= count'["attempts"]
                      /\ guesses'[n] + Cardinality(Trying(n)') <= Limit["attempts"]
    BY DEF TriesAreCounted
  <2>1. /\ guesses[n] + Cardinality(Trying(n)) <= count["attempts"]
        /\ guesses[n] + Cardinality(Trying(n)) <= Limit["attempts"]
    BY <1>3 DEF OtpInv, TriesAreCounted
  <2>2. /\ Cardinality(Trying(n)) \in Nat /\ Cardinality(Trying(n)') \in Nat
        /\ Cardinality(Trying(n)') <= Cardinality(Trying(n)) + 1
        /\ (Tries(k, n) => Tries(call[c], n)) =>
             Cardinality(Trying(n)') <= Cardinality(Trying(n))
    BY <1>1, <1>4, Numbers, CallTries
  <2>3. guesses'[n] = guesses[n] /\ guesses[n] \in Nat
    BY <1>1, <1>3, Numbers
  <2>4. count["attempts"] <= count'["attempts"] /\ count'["attempts"] \in Nat
    BY <1>1, <1>3, <1>5, <1>8, Numbers
  <2>5. CASE ~Tries(k, n)
    BY <1>1, <2>1, <2>2, <2>3, <2>4, <2>5, Numbers
  <2>6. CASE Tries(k, n)
    <3>1. key = "attempts" /\ count'["attempts"] = count["attempts"] + 1
          /\ count["attempts"] + 1 <= Limit["attempts"]
      BY <1>1, <1>2, <1>3, <1>4, <1>8, <2>6, Numbers DEF Tries
    <3> QED
      BY <1>1, <2>1, <2>2, <2>3, <3>1, Numbers
  <2> QED
    BY <2>5, <2>6
<1>10. MessagesAreCounted'
  <2> DEFINE L == Limit["daily"]
             sent == issued + Cardinality(Sending)
             sent2 == issued + Cardinality(Sending')
  <2>1. L \in Nat \ {0} /\ issued \in Nat /\ days \in Nat /\ count["daily"] \in Nat
    BY <1>1, Numbers
  <2>2. /\ Cardinality(Sending) \in Nat /\ Cardinality(Sending') \in Nat
        /\ Cardinality(Sending') <= Cardinality(Sending) + 1
        /\ (Sends(k) => Sends(call[c])) => Cardinality(Sending') <= Cardinality(Sending)
    BY <1>1, <1>4, Numbers, CallSends
  <2>3. /\ sent \in Nat /\ sent2 \in Nat /\ sent2 <= sent + 1
        /\ ~Sends(k) => sent2 <= sent
    BY <2>1, <2>2
  <2>4. L * days \in Nat /\ L * (days + 1) = L * days + L
    BY <2>1
  <2>5. sent <= L * days /\ (count["daily"] > 0 => sent + L <= L * days + count["daily"])
    BY DEF OtpInv, MessagesAreCounted
  <2>6. MessagesAreCounted' <=>
          (sent2 <= L * days' /\ (count'["daily"] > 0 => sent2 + L <= L * days' + count'["daily"]))
    BY <1>3 DEF MessagesAreCounted
  <2> HIDE DEF L, sent, sent2
  <2>7. CASE key # "daily"
    <3>1. count'["daily"] = count["daily"] /\ days' = days
      BY <1>1, <1>2, <1>3, <1>8, <2>7, Numbers
    <3>2. ~Sends(k)
      BY <1>1, <1>2, <1>4, <2>7 DEF Sends
    <3> QED
      BY <2>1, <2>3, <2>4, <2>5, <2>6, <3>1, <3>2
  <2>8. CASE key = "daily" /\ count["daily"] = 0
    <3>1. count'["daily"] \in {0, 1} /\ days' = days + 1
      BY <1>1, <1>2, <1>3, <1>5, <1>8, <2>8, Numbers
    <3>2. Sends(k) => count'["daily"] = 1
      BY <1>1, <1>2, <1>3, <1>4, <1>8, <2>8, Numbers DEF Sends
    <3>3. count'["daily"] = 1
      BY <1>1, <1>3, <1>8, <2>1, <2>8, Numbers DEF Bumped, Over, L
    <3> QED
      BY <2>1, <2>3, <2>4, <2>5, <2>6, <3>1, <3>3
  <2>9. CASE key = "daily" /\ count["daily"] > 0
    <3>1. /\ count'["daily"] \in {count["daily"], count["daily"] + 1} /\ days' = days
          /\ count'["daily"] \in Nat
      BY <1>1, <1>2, <1>3, <1>5, <1>8, <2>9, Numbers
    <3>2. Sends(k) => count'["daily"] = count["daily"] + 1 /\ count["daily"] + 1 <= L
      BY <1>1, <1>2, <1>3, <1>4, <1>8, <2>9, Numbers DEF Sends, L
    <3> QED
      BY <2>1, <2>3, <2>4, <2>5, <2>6, <2>9, <3>1, <3>2
  <2> QED
    BY <2>1, <2>7, <2>8, <2>9
<1> QED
  BY <1>6, <1>7, <1>9, <1>10 DEF OtpInv

LEMMA SendStep ==
  ASSUME OtpInv, NEW c \in Calls, Send(c), OtpTypeOK', OneRolePerNumber'
  PROVE  OtpInv'
<1>1. OtpTypeOK /\ call' = [call EXCEPT ![c] = IdleCall]
  BY DEF OtpInv, Send, End
<1>2. /\ issued' = issued + 1 /\ code' = issued + 1
      /\ count' = [count EXCEPT !["attempts"] = 0]
      /\ UNCHANGED <<days, guesses, spent>>
  BY DEF Send, Delete
<1>3. code' \in Codes /\ issued \in Nat
  BY <1>1, <1>2, Numbers DEF OtpTypeOK
<1>4. Asks(call[c]) /\ ~Asks(IdleCall) /\ Sends(call[c]) /\ ~Sends(IdleCall)
  BY Idle DEF Send, Asks, Sends
<1>5. \A d \in Calls : Shape(call'[d])
  BY <1>1, Idle, ShapeKept
<1>6. RoomForCodes'
  <2>1. /\ Cardinality(Asking) \in Nat /\ Cardinality(Asking') \in Nat
        /\ Cardinality(Asking') + 1 <= Cardinality(Asking)
    BY <1>1, <1>4, Idle, Numbers, CallAsks
  <2> QED
    BY <1>1, <1>2, <2>1, Numbers DEF OtpInv, RoomForCodes
<1>7. CodesInOrder'
  <2>1. \A d \in Calls : call'[d].stored \in Nat /\ call'[d].stored <= issued
    BY <1>1, <1>3, Idle, Numbers DEF OtpInv, CodesInOrder, Call
  <2>2. \A n \in spent : n \in Nat /\ n <= issued
    BY <1>1, Numbers DEF OtpInv, OtpTypeOK, CodesInOrder
  <2>3. \A n \in Codes : n \in Nat /\ (n > issued => guesses[n] = 0)
    BY <1>1, Numbers DEF OtpInv, CodesInOrder
  <2> QED
    BY <1>2, <1>3, <2>1, <2>2, <2>3 DEF CodesInOrder
<1>8. TriesAreCounted'
  <2> SUFFICES ASSUME NEW n \in Codes, code' = n
               PROVE  /\ guesses'[n] + Cardinality(Trying(n)') <= count'["attempts"]
                      /\ guesses'[n] + Cardinality(Trying(n)') <= Limit["attempts"]
    BY DEF TriesAreCounted
  <2>1. guesses'[n] = 0
    BY <1>1, <1>2, <1>3, Numbers DEF OtpInv, CodesInOrder
  <2>2. \A d \in Calls : call'[d].stored # n
    BY <1>1, <1>2, <1>3, Idle, Numbers DEF OtpInv, CodesInOrder, Call
  <2>3. Trying(n)' = {}
    BY <2>2 DEF Trying, Tries
  <2>4. Cardinality(Trying(n)') = 0
    BY <2>3, FS_EmptySet
  <2>5. count'["attempts"] = 0
    BY <1>1, <1>2 DEF OtpTypeOK, Keys
  <2> QED
    BY <1>1, <2>1, <2>4, <2>5, Numbers
<1>9. GuessesAreHeld'
  BY <1>1, <1>2, Idle, HeldKept
<1>10. MessagesAreCounted'
  <2>1. /\ Cardinality(Sending) \in Nat /\ Cardinality(Sending') \in Nat
        /\ Cardinality(Sending') + 1 <= Cardinality(Sending)
    BY <1>1, <1>4, Idle, Numbers, CallSends
  <2>2. count'["daily"] = count["daily"]
    BY <1>1, <1>2 DEF OtpTypeOK
  <2>3. Limit["daily"] * days \in Nat
    BY <1>1, Numbers
  <2> QED
    BY <1>1, <1>2, <2>1, <2>2, <2>3, Numbers DEF OtpInv, MessagesAreCounted
<1> QED
  BY <1>5, <1>6, <1>7, <1>8, <1>9, <1>10 DEF OtpInv

LEMMA BurnStep ==
  ASSUME OtpInv, NEW c \in Calls, Burn(c), OtpTypeOK', OneRolePerNumber'
  PROVE  OtpInv'
<1>1. OtpTypeOK /\ call' = [call EXCEPT ![c] = IdleCall]
  BY DEF OtpInv, Burn, End
<1>2. /\ code' = 0 /\ UNCHANGED <<issued, days, guesses, spent>>
      /\ count' = [count EXCEPT !["attempts"] = 0]
  BY DEF Burn, Delete, CodeAfterBurn, historyVars
<1>3. count'["daily"] = count["daily"]
  BY <1>1, <1>2 DEF OtpTypeOK
<1>4. /\ ~Asks(IdleCall) /\ ~Sends(IdleCall) /\ \A n \in Codes : ~Tries(IdleCall, n)
  BY Idle DEF Asks, Sends, Tries
<1>5. \A d \in Calls : Shape(call'[d])
  BY <1>1, Idle, ShapeKept
<1>6. RoomForCodes' /\ CodesInOrder' /\ MessagesAreCounted' /\ TriesAreCounted' /\ GuessesAreHeld'
  BY <1>1, <1>2, <1>3, <1>4, Idle, RoomKept, OrderKept, MessagesKept, TriesKept, HeldKept
<1> QED
  BY <1>5, <1>6 DEF OtpInv

\* A sign-in that compares a code gives it up: the guess takes the place of
\* the try and of the hold.
LEMMA Comparing ==
  ASSUME OtpInv, NEW c \in Calls, NEW k \in Call, call' = [call EXCEPT ![c] = k],
         call[c].at = "act", call[c].op = "verify", Compare(c), k.stored = 0
  PROVE  /\ call[c].stored \in Codes
         /\ GuessesAreHeld'
         /\ code' = code /\ count' = count => TriesAreCounted'
         /\ \A n \in Codes : n > issued => guesses'[n] = 0
<1>1. OtpTypeOK
  BY DEF OtpInv
<1> DEFINE m == call[c].stored
<1>2. m \in Codes
  BY <1>1 DEF OtpInv, Shape, OtpTypeOK, Call
<1>3. guesses' = [guesses EXCEPT ![m] = @ + 1]
  BY DEF Compare
<1>4. m <= issued
  BY DEF OtpInv, CodesInOrder
<1> HIDE DEF m
<1>5. \A n \in Codes : /\ guesses[n] \in Nat
                       /\ guesses'[n] = IF n = m THEN guesses[n] + 1 ELSE guesses[n]
  BY <1>1, <1>2, <1>3, Numbers
<1>6. ASSUME NEW n \in Codes
      PROVE  guesses'[n] + Cardinality(Holding(n)') <= Limit["attempts"] + Cardinality(Calls)
  <2>1. ~Holds(k, n) /\ (n = m => Holds(call[c], n))
    BY <1>1, Numbers DEF Holds, m
  <2>2. /\ Cardinality(Holding(n)) \in Nat /\ Cardinality(Holding(n)') \in Nat
        /\ Cardinality(Holding(n)') <= Cardinality(Holding(n))
        /\ n = m => Cardinality(Holding(n)') + 1 <= Cardinality(Holding(n))
    BY <1>1, <2>1, Numbers, CallHolds
  <2>3. guesses[n] + Cardinality(Holding(n)) <= Limit["attempts"] + Cardinality(Calls)
    BY DEF OtpInv, GuessesAreHeld
  <2> QED
    BY <1>1, <1>5, <2>2, <2>3, Numbers
<1>7. ASSUME code' = code, count' = count, NEW n \in Codes, code' = n
      PROVE  /\ guesses'[n] + Cardinality(Trying(n)') <= count'["attempts"]
             /\ guesses'[n] + Cardinality(Trying(n)') <= Limit["attempts"]
  <2>1. ~Tries(k, n) /\ (n = m => Tries(call[c], n))
    BY <1>1, Numbers DEF Tries, m
  <2>2. /\ Cardinality(Trying(n)) \in Nat /\ Cardinality(Trying(n)') \in Nat
        /\ Cardinality(Trying(n)') <= Cardinality(Trying(n))
        /\ n = m => Cardinality(Trying(n)') + 1 <= Cardinality(Trying(n))
    BY <1>1, <2>1, Numbers, CallTries
  <2>3. /\ guesses[n] + Cardinality(Trying(n)) <= count["attempts"]
        /\ guesses[n] + Cardinality(Trying(n)) <= Limit["attempts"]
    BY <1>7 DEF OtpInv, TriesAreCounted
  <2> QED
    BY <1>1, <1>5, <1>7, <2>2, <2>3, Numbers
<1>8. \A n \in Codes : n > issued => guesses'[n] = 0
  BY <1>1, <1>2, <1>4, <1>5, Numbers DEF OtpInv, CodesInOrder
<1> QED
  BY <1>2, <1>6, <1>7, <1>8 DEF GuessesAreHeld, TriesAreCounted, m

LEMMA WrongStep ==
  ASSUME OtpInv, NEW c \in Calls, Wrong(c), OtpTypeOK', OneRolePerNumber'
  PROVE  OtpInv'
<1>1. /\ call' = [call EXCEPT ![c] = IdleCall]
      /\ call[c].at = "act" /\ call[c].op = "verify" /\ Compare(c)
      /\ UNCHANGED <<code, count, issued, days, spent>>
  BY DEF Wrong, End, redisVars
<1>2. OtpTypeOK /\ ~Asks(IdleCall) /\ ~Sends(IdleCall)
  BY Idle DEF OtpInv, Asks, Sends
<1>3. GuessesAreHeld' /\ TriesAreCounted' /\ \A n \in Codes : n > issued => guesses'[n] = 0
  BY <1>1, Idle, Comparing
<1>4. \A d \in Calls : Shape(call'[d])
  BY <1>1, Idle, ShapeKept
<1>5. RoomForCodes' /\ MessagesAreCounted'
  BY <1>1, <1>2, Idle, RoomKept, MessagesKept
<1>6. CodesInOrder'
  BY <1>1, <1>2, <1>3, Idle, Numbers DEF OtpInv, CodesInOrder
<1> QED
  BY <1>3, <1>4, <1>5, <1>6 DEF OtpInv

LEMMA UseStep ==
  ASSUME OtpInv, NEW c \in Calls, Use(c), OtpTypeOK', OneRolePerNumber'
  PROVE  OtpInv'
<1>1. OtpTypeOK
  BY DEF OtpInv
<1>2. PICK k \in Call :
        /\ call' = [call EXCEPT ![c] = k]
        /\ k.at = "lookup" /\ k.op = "verify" /\ k.stored = 0
  BY <1>1, Using
<1>3. /\ call[c].at = "act" /\ call[c].op = "verify" /\ Compare(c)
      /\ code' = 0 /\ count' = [count EXCEPT !["attempts"] = 0]
      /\ spent' = spent \cup {call[c].stored}
      /\ UNCHANGED <<issued, days>>
  BY DEF Use, Delete, CodeAfterUse
<1>4. /\ GuessesAreHeld' /\ call[c].stored \in Codes
      /\ \A n \in Codes : n > issued => guesses'[n] = 0
  BY <1>2, <1>3, Comparing
<1>5. TriesAreCounted'
  BY <1>3 DEF TriesAreCounted, Codes
<1>6. \A d \in Calls : Shape(call'[d])
  BY <1>2, ShapeKept DEF Shape
<1>7. RoomForCodes' /\ MessagesAreCounted'
  <2>1. count'["daily"] = count["daily"]
    BY <1>1, <1>3 DEF OtpTypeOK
  <2>2. ~Asks(k) /\ ~Sends(k)
    BY <1>2 DEF Asks, Sends
  <2> QED
    BY <1>2, <1>3, <2>1, <2>2, RoomKept, MessagesKept
<1>8. CodesInOrder'
  <2>1. 0 \notin spent' /\ code' <= issued
    BY <1>1, <1>3, <1>4, Numbers DEF OtpTypeOK
  <2>2. \A n \in spent' : n <= issued
    BY <1>3 DEF OtpInv, CodesInOrder
  <2>3. \A d \in Calls : call'[d].stored <= issued
    BY <1>1, <1>2, Numbers DEF OtpInv, CodesInOrder
  <2> QED
    BY <1>3, <1>4, <2>1, <2>2, <2>3 DEF CodesInOrder
<1> QED
  BY <1>4, <1>5, <1>6, <1>7, <1>8 DEF OtpInv

\* The steps that leave the codes, the tries and the messages alone.
LEMMA QuietSteps ==
  ASSUME OtpInv, NEW c \in Calls, OtpTypeOK', OneRolePerNumber',
         \/ Begin(c) \/ CountLimit(c) \/ ArmLimit(c) \/ LookCooldown(c)
         \/ ArmService(c) \/ LookupUser(c) \/ Register(c) \/ Fail(c)
  PROVE  OtpInv'
<1>1. OtpTypeOK /\ Shape(call[c]) /\ call[c].op \in {"issue", "verify"} /\ call \in [Calls -> Call]
  BY DEF OtpInv, OtpTypeOK, Call
<1>2. /\ UNCHANGED <<code, issued, days, guesses, spent>>
      /\ count'["attempts"] = count["attempts"] /\ count'["daily"] = count["daily"]
  <2>1. CASE CountLimit(c)
    <3> DEFINE key == LimitKey(call[c].op)
    <3>1. key \in Keys /\ key \notin {"daily", "attempts"}
      BY <1>1, WhichKeys
    <3>2. count' = [count EXCEPT ![key] = Bumped(key)]
      BY <2>1 DEF CountLimit
    <3> HIDE DEF key
    <3>3. count'["attempts"] = count["attempts"] /\ count'["daily"] = count["daily"]
      BY <1>1, <3>1, <3>2 DEF OtpTypeOK
    <3> QED
      BY <2>1, <3>3 DEF CountLimit, historyVars
  <2>2. CASE ~CountLimit(c)
    BY <2>2 DEF Begin, ArmLimit, LookCooldown, ArmService, LookupUser, Register, Fail,
       redisVars, historyVars
  <2> QED
    BY <2>1, <2>2
<1>3. CASE End(c)
  <2>1. ~Asks(IdleCall) /\ ~Sends(IdleCall) /\ \A n \in Codes : ~Tries(IdleCall, n)
    BY Idle DEF Asks, Sends, Tries
  <2> QED
    BY <1>2, <1>3, <2>1, Idle, QuietStep DEF End
<1>4. CASE Begin(c)
  <2>1. PICK k \in Call :
          /\ call' = [call EXCEPT ![c] = k]
          /\ k.at = "limit" /\ k.stored = 0
          /\ \/ k.op = "issue" /\ issued + Cardinality(Asking) < MaxCodes
             \/ k.op = "verify"
    BY <1>1, <1>4, Beginning
  <2>2. Shape(k) /\ ~Sends(k) /\ \A n \in Codes : ~Tries(k, n)
    BY <2>1 DEF Shape, Sends, Tries
  <2>3. (Asks(k) => Asks(call[c])) \/ issued + Cardinality(Asking) < MaxCodes
    BY <2>1 DEF Asks
  <2> QED
    BY <1>2, <2>1, <2>2, <2>3, QuietStep
<1>5. ASSUME NEW step \in {"limitArm", "look", "count", "register", "act"}, Goto(c, step),
             call[c].at # "idle",
             step = "act" => call[c].at = "countArm",
             step = "count" => call[c].op = "issue",
             step = "register" => call[c].at = "lookup",
             step \in {"limitArm", "look"} => call[c].at \in {"limit", "limitArm"}
      PROVE  OtpInv'
  <2>1. step \in Steps
    BY DEF Steps
  <2>2. PICK k \in Call :
           /\ call' = [call EXCEPT ![c] = k]
           /\ k.at = step /\ k.op = call[c].op /\ k.stored = call[c].stored
    BY <1>1, <1>5, <2>1, Going
  <2>3. Shape(k)
    BY <1>1, <1>5, <2>2 DEF Shape
  <2>4. /\ Asks(k) => Asks(call[c])
        /\ Sends(k) => Sends(call[c])
        /\ \A n \in Codes : Tries(k, n) => Tries(call[c], n)
    BY <1>5, <2>2 DEF Asks, Sends, Tries
  <2> QED
    BY <1>2, <2>2, <2>3, <2>4, QuietStep
<1>6. CASE CountLimit(c)
  BY <1>3, <1>5, <1>6 DEF CountLimit
<1>7. CASE ArmLimit(c)
  BY <1>5, <1>7 DEF ArmLimit
<1>8. CASE LookCooldown(c)
  BY <1>3, <1>5, <1>8 DEF LookCooldown
<1>9. CASE ArmService(c)
  BY <1>5, <1>9 DEF ArmService
<1>10. CASE LookupUser(c)
  BY <1>3, <1>5, <1>10 DEF LookupUser
<1>11. CASE Register(c)
  BY <1>3, <1>11 DEF Register
<1>12. CASE Fail(c)
  BY <1>3, <1>12 DEF Fail
<1> QED
  BY <1>4, <1>6, <1>7, <1>8, <1>9, <1>10, <1>11, <1>12

\* Time, and the steps of nobody.
LEMMA TimeStep ==
  ASSUME OtpInv, OtpTypeOK', OneRolePerNumber',
         UNCHANGED <<call, issued, days, guesses, spent>>,
         code' \in {0, code},
         \/ count' = count
         \/ \E k \in Keys : count' = [count EXCEPT ![k] = 0] /\ (k = "attempts" => code' = 0)
  PROVE  OtpInv'
<1>1. OtpTypeOK
  BY DEF OtpInv
<1>2. /\ Asking' = Asking /\ Sending' = Sending
      /\ \A n \in Codes : Trying(n)' = Trying(n) /\ Holding(n)' = Holding(n)
  BY DEF Asking, Sending, Sends, Trying, Tries, Holding, Holds
<1>3. code' # 0 => code' = code /\ count'["attempts"] = count["attempts"]
  BY <1>1, Numbers DEF Keys
<1>4. count'["daily"] \in {0, count["daily"]}
  BY <1>1, Numbers DEF Keys
<1>5. TriesAreCounted'
  BY <1>2, <1>3 DEF OtpInv, TriesAreCounted, Codes
<1>6. CodesInOrder'
  <2>1. 0 \notin spent /\ 0 <= issued
    BY <1>1, Numbers DEF OtpTypeOK
  <2> QED
    BY <2>1 DEF OtpInv, CodesInOrder
<1>7. MessagesAreCounted'
  BY <1>2, <1>4 DEF OtpInv, MessagesAreCounted
<1>8. RoomForCodes' /\ GuessesAreHeld'
  BY <1>2 DEF OtpInv, RoomForCodes, GuessesAreHeld
<1> QED
  BY <1>5, <1>6, <1>7, <1>8 DEF OtpInv

LEMMA OtpInvStep ==
  ASSUME OtpInv, [OtpNext]_vars
  PROVE  OtpInv'
<1>1. CASE UNCHANGED vars
  <2> USE <1>1 DEF vars, redisVars, historyVars
  <2>1. OtpTypeOK' /\ OneRolePerNumber'
    BY DEF OtpInv, OtpTypeOK, OneRolePerNumber
  <2> QED
    BY <2>1, TimeStep
<1>2. CASE OtpNext
  <2>1. OtpTypeOK' /\ OneRolePerNumber'
    BY <1>2, OtpTypeStep, UsersStep
  <2>2. CASE \E c \in Calls : \/ Begin(c) \/ CountLimit(c) \/ ArmLimit(c) \/ LookCooldown(c)
                              \/ ArmService(c) \/ LookupUser(c) \/ Register(c) \/ Fail(c)
    BY <2>1, <2>2, QuietSteps
  <2>3. CASE \E c \in Calls : LookCode(c) \/ CountService(c)
    BY <2>1, <2>3, LookCodeStep, CountServiceStep
  <2>4. CASE \E c \in Calls : Send(c) \/ Burn(c) \/ Wrong(c) \/ Use(c)
    BY <2>1, <2>4, SendStep, BurnStep, WrongStep, UseStep
  <2>5. CASE ExpireCooldown \/ ExpireCode
    BY <2>1, <2>5, TimeStep DEF ExpireCooldown, ExpireCode, historyVars
  <2>6. CASE \E k \in Keys : ExpireCounter(k)
    BY <2>1, <2>6, TimeStep DEF ExpireCounter, historyVars
  <2> QED
    BY <1>2, <2>2, <2>3, <2>4, <2>5, <2>6 DEF OtpNext, Serve
<1> QED
  BY <1>1, <1>2

-----------------------------------------------------------------------------
THEOREM OtpInvariant == OtpSpec => []OtpInv
<1>1. OtpInv /\ [OtpNext]_vars => OtpInv'
  BY OtpInvStep
<1> QED
  BY OtpInvInit, <1>1, PTL DEF OtpSpec

(***************************************************************************)
(* Type correctness of the Redis keys, the account and the requests        *)
(* (app/services/otp.py, app/core/redis.py): a counter never passes its    *)
(* limit by more than one, however many requests count at once.            *)
(***************************************************************************)
THEOREM OtpTypeCorrect == OtpSpec => []OtpTypeOK
BY OtpInvariant, PTL DEF OtpInv

(***************************************************************************)
(* verify_otp: a code that can still be used has not been used, and has    *)
(* been guessed at most OTP_MAX_ATTEMPTS times, for any number of          *)
(* overlapping requests and any limit.                                     *)
(***************************************************************************)
THEOREM LiveCodesAreFresh == OtpSpec => []LiveCodeIsFresh
<1>1. OtpInv => LiveCodeIsFresh
  <2> SUFFICES ASSUME OtpInv, code # 0
               PROVE  code \notin spent /\ guesses[code] <= Limit["attempts"]
    BY DEF LiveCodeIsFresh
  <2>1. OtpTypeOK /\ code \in Codes /\ code \notin spent
    BY DEF OtpInv, OtpTypeOK, CodesInOrder
  <2>2. guesses[code] + Cardinality(Trying(code)) <= Limit["attempts"]
    BY <2>1 DEF OtpInv, TriesAreCounted
  <2>3. Trying(code) \in SUBSET Calls
    BY DEF Trying
  <2>4. Cardinality(Trying(code)) \in Nat
    BY <2>3, CallsAssumption, FS_Subset, FS_CardinalityType
  <2> QED
    BY <2>1, <2>2, <2>4, Numbers
<1> QED
  BY OtpInvariant, <1>1, PTL

(***************************************************************************)
(* verify_otp: a code is never compared with more guesses than             *)
(* OTP_MAX_ATTEMPTS and one for each request that may be in flight.        *)
(***************************************************************************)
THEOREM GuessesStayBounded == OtpSpec => []GuessesAreBounded
<1>1. OtpInv => GuessesAreBounded
  <2> SUFFICES ASSUME OtpInv, NEW n \in Codes
               PROVE  guesses[n] <= Limit["attempts"] + Cardinality(Calls)
    BY DEF GuessesAreBounded
  <2>1. OtpTypeOK /\ guesses[n] + Cardinality(Holding(n)) <= Limit["attempts"] + Cardinality(Calls)
    BY DEF OtpInv, GuessesAreHeld
  <2>2. Holding(n) \in SUBSET Calls
    BY DEF Holding
  <2>3. Cardinality(Holding(n)) \in Nat
    BY <2>2, CallsAssumption, FS_Subset, FS_CardinalityType
  <2> QED
    BY <2>1, <2>3, Numbers
<1> QED
  BY OtpInvariant, <1>1, PTL

(***************************************************************************)
(* issue_otp: the messages sent never exceed OTP_MAX_PER_PHONE_PER_DAY for *)
(* each daily counter that was begun.                                      *)
(***************************************************************************)
THEOREM DailyCapStays == OtpSpec => []DailyCapHolds
<1>1. OtpInv => DailyCapHolds
  <2> SUFFICES ASSUME OtpInv PROVE issued <= Limit["daily"] * days
    BY DEF DailyCapHolds
  <2>1. OtpTypeOK /\ issued + Cardinality(Sending) <= Limit["daily"] * days
    BY DEF OtpInv, MessagesAreCounted
  <2>2. Sending \in SUBSET Calls
    BY DEF Sending
  <2>3. Cardinality(Sending) \in Nat
    BY <2>2, CallsAssumption, FS_Subset, FS_CardinalityType
  <2>4. Limit["daily"] * days \in Nat
    BY <2>1, Numbers
  <2> QED
    BY <2>1, <2>3, <2>4, Numbers
<1> QED
  BY OtpInvariant, <1>1, PTL

(***************************************************************************)
(* get_or_create_user: one account and one role for a number, and no       *)
(* session of an app on an account that does not fit it.                   *)
(***************************************************************************)
THEOREM NumbersHaveOneRole == OtpSpec => []OneRolePerNumber
BY OtpInvariant, PTL DEF OtpInv

-----------------------------------------------------------------------------
(***************************************************************************)
(* incr_with_ttl: no counter stays for ever, provided no request fails     *)
(* between the INCR and the EXPIRE.                                        *)
(***************************************************************************)
THEOREM CountersDoExpire ==
  ASSUME Fragile \cap {"limitArm", "countArm"} = {}
  PROVE  OtpSpec => []CountersExpire
<1>1. OtpInit => CountersExpire
  BY DEF OtpInit, CountersExpire
<1>2. ASSUME OtpInv, CountersExpire, [OtpNext]_vars
      PROVE  CountersExpire'
  <2> SUFFICES ASSUME NEW k \in Keys, count'[k] > 0
               PROVE  expires'[k] \/ \E c \in Calls : Arming(c, k)'
    BY DEF CountersExpire
  <2>1. /\ OtpTypeOK /\ call \in [Calls -> Call] /\ count \in [Keys -> Nat]
        /\ expires \in [Keys -> BOOLEAN]
        /\ \A c \in Calls : call[c] \in Call /\ call[c].op \in {"issue", "verify"}
    BY <1>2 DEF OtpInv, OtpTypeOK, Call
  <2>2. count[k] > 0 => expires[k] \/ \E c \in Calls : Arming(c, k)
    BY <1>2 DEF CountersExpire
  \* Whoever moves, the others go on arming what they were.
  <2>3. ASSUME NEW c \in Calls, \A d \in Calls \ {c} : call'[d] = call[d],
               count[k] > 0, ~Arming(c, k), expires'[k] = expires[k]
        PROVE  expires'[k] \/ \E d \in Calls : Arming(d, k)'
    BY <2>2, <2>3 DEF Arming
  \* A counter that is deleted is another one.
  <2>4. ASSUME NEW key \in Keys, count' = [count EXCEPT ![key] = 0]
         PROVE  k # key /\ count[k] > 0
    <3>1. k # key
      <4>1. k = key => count'[k] = 0
        BY <2>1, <2>4
      <4> QED
        BY <4>1
    <3> QED
      BY <2>1, <2>4, <3>1
  <2>5. ASSUME NEW c \in Calls, Begin(c) \/ LookCooldown(c) \/ LookCode(c) \/ Wrong(c)
                                \/ LookupUser(c) \/ Register(c) \/ Fail(c)
        PROVE  expires'[k] \/ \E d \in Calls : Arming(d, k)'
    <3>1. count[k] > 0 /\ expires'[k] = expires[k]
      BY <2>1, <2>5 DEF Begin, LookCooldown, LookCode, Wrong, LookupUser, Register, Fail, redisVars
    <3>2. \A d \in Calls \ {c} : call'[d] = call[d]
      BY <2>1, <2>5 DEF Begin, LookCooldown, LookCode, Wrong, LookupUser, Register, Fail, End, Goto
    <3>3. call[c].at \notin {"limitArm", "countArm"}
      BY <2>5 DEF Begin, LookCooldown, LookCode, Wrong, LookupUser, Register, Fail
    <3> QED
      BY <2>3, <3>1, <3>2, <3>3 DEF Arming
  \* An INCR either begins the counter, and is followed by EXPIRE, or finds it begun.
  <2>6. ASSUME NEW c \in Calls, NEW key \in Keys,
               call[c].at \notin {"limitArm", "countArm"},
               count' = [count EXCEPT ![key] = Bumped(key)], expires' = expires,
               \A d \in Calls \ {c} : call'[d] = call[d],
               MustArm(key, Bumped(key)) => Arming(c, key)'
        PROVE  expires'[k] \/ \E d \in Calls : Arming(d, k)'
    <3>1. ~Arming(c, k) /\ expires'[k] = expires[k]
      BY <2>6 DEF Arming
    <3>2. CASE k # key
      BY <2>1, <2>3, <2>6, <3>1, <3>2
    <3>3. CASE k = key /\ count[k] > 0
      BY <2>3, <2>6, <3>1, <3>3
    <3>4. CASE k = key /\ ~(count[k] > 0)
      <4>1. MustArm(key, Bumped(key))
        BY <2>1, <3>4, LimitAssumption DEF MustArm, Bumped, Over
      <4> QED
        BY <2>6, <3>4, <4>1
    <3> QED
      BY <3>2, <3>3, <3>4
  <2>7. ASSUME NEW c \in Calls, CountLimit(c)
        PROVE  expires'[k] \/ \E d \in Calls : Arming(d, k)'
    <3>1. PICK key \in Keys : key = LimitKey(call[c].op)
      BY <2>1, WhichKeys
    <3>2. /\ count' = [count EXCEPT ![key] = Bumped(key)] /\ expires' = expires
          /\ \A d \in Calls \ {c} : call'[d] = call[d]
          /\ call[c].at \notin {"limitArm", "countArm"}
      BY <2>1, <2>7, <3>1 DEF CountLimit, Goto, End
    <3>3. MustArm(key, Bumped(key)) => Arming(c, key)'
      <4>1. MustArm(key, Bumped(key)) => Goto(c, "limitArm")
        BY <2>7, <3>1 DEF CountLimit
      <4>2. Goto(c, "limitArm") => call'[c].at = "limitArm" /\ call'[c].op = call[c].op
        BY <2>1 DEF Goto, Call
      <4> QED
        BY <3>1, <4>1, <4>2 DEF Arming
    <3> QED
      BY <2>6, <3>1, <3>2, <3>3
  <2>8. ASSUME NEW c \in Calls, CountService(c)
        PROVE  expires'[k] \/ \E d \in Calls : Arming(d, k)'
    <3>1. PICK key \in Keys : key = ServiceKey(call[c].op)
      BY <2>1, WhichKeys
    <3>2. /\ count' = [count EXCEPT ![key] = Bumped(key)] /\ expires' = expires
          /\ \A d \in Calls \ {c} : call'[d] = call[d]
          /\ call[c].at \notin {"limitArm", "countArm"}
      BY <2>1, <2>8, <3>1 DEF CountService, Goto, End
    <3>3. MustArm(key, Bumped(key)) => Arming(c, key)'
      <4>1. MustArm(key, Bumped(key)) => Goto(c, "countArm")
        BY <2>8, <3>1 DEF CountService
      <4>2. Goto(c, "countArm") => call'[c].at = "countArm" /\ call'[c].op = call[c].op
        BY <2>1 DEF Goto, Call
      <4> QED
        BY <3>1, <4>1, <4>2 DEF Arming
    <3> QED
      BY <2>6, <3>1, <3>2, <3>3
  \* An EXPIRE arms the counter that its request counts with, if it is there.
  <2>9. ASSUME NEW c \in Calls, ArmLimit(c)
        PROVE  expires'[k] \/ \E d \in Calls : Arming(d, k)'
    <3>1. count' = count /\ count[k] > 0
      BY <2>9 DEF ArmLimit
    <3>2. CASE k = LimitKey(call[c].op)
      BY <2>1, <2>9, <3>1, <3>2 DEF ArmLimit
    <3>3. CASE k # LimitKey(call[c].op)
      <4>1. ~Arming(c, k)
        BY <2>9, <3>3 DEF Arming, ArmLimit
      <4>2. expires'[k] = expires[k] /\ \A d \in Calls \ {c} : call'[d] = call[d]
        BY <2>1, <2>9, <3>3 DEF ArmLimit, Goto
      <4> QED
        BY <2>3, <3>1, <4>1, <4>2
    <3> QED
      BY <3>2, <3>3
  <2>10. ASSUME NEW c \in Calls, ArmService(c)
        PROVE  expires'[k] \/ \E d \in Calls : Arming(d, k)'
    <3>1. count' = count /\ count[k] > 0
      BY <2>10 DEF ArmService
    <3>2. CASE k = ServiceKey(call[c].op)
      BY <2>1, <2>10, <3>1, <3>2 DEF ArmService
    <3>3. CASE k # ServiceKey(call[c].op)
      <4>1. ~Arming(c, k)
        BY <2>10, <3>3 DEF Arming, ArmService
      <4>2. expires'[k] = expires[k] /\ \A d \in Calls \ {c} : call'[d] = call[d]
        BY <2>1, <2>10, <3>3 DEF ArmService, Goto
      <4> QED
        BY <2>3, <3>1, <4>1, <4>2
    <3> QED
      BY <3>2, <3>3
  <2>11. ASSUME NEW c \in Calls, Send(c) \/ Burn(c) \/ Use(c)
         PROVE  expires'[k] \/ \E d \in Calls : Arming(d, k)'
    <3>1. /\ count' = [count EXCEPT !["attempts"] = 0]
          /\ expires' = [expires EXCEPT !["attempts"] = FALSE]
      BY <2>11 DEF Send, Burn, Use, Delete
    <3>2. k # "attempts" /\ count[k] > 0
      BY <2>4, <3>1 DEF Keys
    <3>3. \A d \in Calls \ {c} : call'[d] = call[d]
      BY <2>1, <2>11 DEF Send, Burn, Use, End
    <3>4. ~Arming(c, k)
      BY <2>11 DEF Arming, Send, Burn, Use
    <3>5. expires'[k] = expires[k]
      BY <2>1, <3>1, <3>2
    <3> QED
      BY <2>3, <3>2, <3>3, <3>4, <3>5
  <2>12. CASE ExpireCooldown \/ ExpireCode \/ UNCHANGED vars
    BY <2>2, <2>12 DEF ExpireCooldown, ExpireCode, vars, redisVars, Arming
  <2>13. CASE \E key \in Keys : ExpireCounter(key)
    <3>1. count[k] > 0 /\ expires'[k] = expires[k] /\ call' = call
      <4>1. PICK key \in Keys : ExpireCounter(key)
        BY <2>13
      <4>2. k # key /\ count[k] > 0
        BY <2>4, <4>1 DEF ExpireCounter
      <4> QED
        BY <2>1, <4>1, <4>2 DEF ExpireCounter
    <3> QED
      BY <2>2, <3>1 DEF Arming
  <2> QED
    BY <1>2, <2>5, <2>7, <2>8, <2>9, <2>10, <2>11, <2>12, <2>13 DEF OtpNext, Serve
<1> QED
  BY OtpInvariant, <1>1, <1>2, PTL DEF OtpSpec
=============================================================================
