---------------------------------- MODULE Otp ----------------------------------
(***************************************************************************)
(* Signing in with a code sent to a phone: app/services/otp.py, the rate   *)
(* limiter of app/core/redis.py and the account that verify-otp finds or   *)
(* creates.  One phone number, and the requests about it in flight.        *)
(*                                                                         *)
(* Everything is a Redis command of its own: reading a key, counting,      *)
(* giving the counter a time to live and deleting are separate steps, and  *)
(* a key may expire between any two.  Only the pipeline that stores a new  *)
(* code is a MULTI, and one step.                                          *)
(*                                                                         *)
(* A code is its number in the order of issue; 0 is no code.  Digits that  *)
(* a user sends are right or wrong for the code they are compared with.  A *)
(* time to live is whether the key has one.  The code asks of a counter    *)
(* whether it is 1 and whether it is over its limit, so a counter here     *)
(* stops at one above.                                                     *)
(***************************************************************************)
EXTENDS FiniteSets, Integers

CONSTANTS Calls,     \* slots for requests in flight
          Limit,     \* the limit of every counter
          Fragile,   \* the steps a request may fail at
          MaxCodes,  \* bound on codes issued
          MaxDays    \* bound on daily counters begun

Keys == {"phone", "verify", "daily", "attempts"}

ASSUME CallsAssumption == IsFiniteSet(Calls)

ASSUME LimitAssumption == Limit \in [Keys -> Nat \ {0}]

ASSUME BoundsAssumption == MaxCodes \in Nat /\ MaxDays \in Nat

VARIABLES code,      \* otp:code
          cooldown,  \* whether otp:cooldown is there
          count,     \* the counters; 0 when the key is absent
          expires,   \* whether a counter has a time to live
          users,     \* rows of users with this number that are not deleted
          call,      \* the requests in flight
          issued,    \* how many codes have been sent
          days,      \* how many daily counters have been begun
          guesses,   \* how often each code was compared with a guess
          spent,     \* the codes a sign-in has used up
          admitted   \* the apps that were given a session

redisVars == <<code, cooldown, count, expires>>
historyVars == <<issued, days, guesses, spent, admitted>>
vars == <<redisVars, users, call, historyVars>>

Codes == 1..MaxCodes
Roles == {"customer", "worker"}

\* A row of users, and whether the worker profile hangs off it.
User == [role : Roles \cup {"admin"}, profile : BOOLEAN]

Steps == {"limit", "limitArm", "look", "count", "countArm", "act", "burn",
          "lookup", "register"}

Call == [op : {"issue", "verify"}, at : Steps \cup {"idle"},
         stored : Codes \cup {0}, role : Roles]

IdleCall == [op |-> "issue", at |-> "idle", stored |-> 0, role |-> "customer"]

OtpTypeOK ==
  /\ code \in Codes \cup {0}
  /\ cooldown \in BOOLEAN
  /\ count \in [Keys -> Nat] /\ \A k \in Keys : count[k] <= Limit[k] + 1
  /\ expires \in [Keys -> BOOLEAN]
  /\ users \subseteq User
  /\ call \in [Calls -> Call]
  /\ issued \in 0..MaxCodes /\ days \in Nat
  /\ guesses \in [Codes -> Nat]
  /\ spent \subseteq Codes
  /\ admitted \subseteq Roles

\* The number is new, or an administrator's.
OtpInit ==
  /\ code = 0 /\ cooldown = FALSE
  /\ count = [k \in Keys |-> 0]
  /\ expires = [k \in Keys |-> FALSE]
  /\ users \in {{}, {[role |-> "admin", profile |-> FALSE]}}
  /\ call = [c \in Calls |-> IdleCall]
  /\ issued = 0 /\ days = 0
  /\ guesses = [n \in Codes |-> 0]
  /\ spent = {} /\ admitted = {}

-----------------------------------------------------------------------------
\* What a request counts: first for the rate limiter, then for the service.
LimitKey(op) == IF op = "issue" THEN "phone" ELSE "verify"
ServiceKey(op) == IF op = "issue" THEN "daily" ELSE "attempts"

\* Mutant: the time to live is set once the limit is reached.
MustArm_AtLimit(k, n) == n = Limit[k] + 1

\* The first INCR of a key is followed by EXPIRE.
MustArm(k, n) == n = 1

\* Mutant: one more is let through.
Over_ByOne(k, n) == n > Limit[k] + 1

Over(k, n) == n > Limit[k]

Bumped(k) == IF Over(k, count[k]) THEN count[k] ELSE count[k] + 1

Goto(c, step) == call' = [call EXCEPT ![c].at = step]
End(c) == call' = [call EXCEPT ![c] = IdleCall]

\* Mutant: only the tries are reset, the code stays.
CodeAfterBurn_Kept == code

CodeAfterBurn == 0

\* DEL of a code (if it goes) and of its tries.
Delete(newCode) ==
  /\ code' = newCode
  /\ count' = [count EXCEPT !["attempts"] = 0]
  /\ expires' = [expires EXCEPT !["attempts"] = FALSE]

-----------------------------------------------------------------------------
\* Requests for a code that may still be sent one.
Asking == {c \in Calls : call[c].op = "issue" /\ call[c].at # "idle"}

\* A request arrives.
Begin(c) ==
  /\ call[c].at = "idle"
  /\ \/ /\ issued + Cardinality(Asking) < MaxCodes /\ days < MaxDays
        /\ call' = [call EXCEPT ![c].op = "issue", ![c].at = "limit"]
     \/ call' = [call EXCEPT ![c].op = "verify", ![c].at = "limit"]
  /\ UNCHANGED <<redisVars, users, historyVars>>

\* enforce_rate_limit: INCR.
CountLimit(c) ==
  /\ call[c].at = "limit"
  /\ LET k == LimitKey(call[c].op) IN
       /\ count' = [count EXCEPT ![k] = Bumped(k)]
       /\ \/ MustArm(k, Bumped(k)) /\ Goto(c, "limitArm")
          \/ ~MustArm(k, Bumped(k)) /\ Over(k, Bumped(k)) /\ End(c)
          \/ ~MustArm(k, Bumped(k)) /\ ~Over(k, Bumped(k)) /\ Goto(c, "look")
  /\ UNCHANGED <<code, cooldown, expires, users, historyVars>>

\* enforce_rate_limit: EXPIRE, which does nothing to a key that has gone.
ArmLimit(c) ==
  /\ call[c].at = "limitArm"
  /\ LET k == LimitKey(call[c].op) IN
       expires' = [expires EXCEPT ![k] = count[k] > 0]
  /\ Goto(c, "look")
  /\ UNCHANGED <<code, cooldown, count, users, historyVars>>

\* issue_otp: EXISTS otp:cooldown.
LookCooldown(c) ==
  /\ call[c].at = "look" /\ call[c].op = "issue"
  /\ IF cooldown THEN End(c) ELSE Goto(c, "count")
  /\ UNCHANGED <<redisVars, users, historyVars>>

\* verify_otp: GET otp:code.
LookCode(c) ==
  /\ call[c].at = "look" /\ call[c].op = "verify"
  /\ IF code = 0 THEN End(c)
     ELSE call' = [call EXCEPT ![c].at = "count", ![c].stored = code]
  /\ UNCHANGED <<redisVars, users, historyVars>>

\* INCR otp:daily or otp:attempts, and what follows from the answer.
CountService(c) ==
  /\ call[c].at = "count"
  /\ LET k == ServiceKey(call[c].op) IN
       /\ count' = [count EXCEPT ![k] = Bumped(k)]
       /\ days' = IF k = "daily" /\ count[k] = 0 THEN days + 1 ELSE days
       /\ \/ MustArm(k, Bumped(k)) /\ Goto(c, "countArm")
          \/ /\ ~MustArm(k, Bumped(k)) /\ Over(k, Bumped(k))
             /\ IF k = "daily" THEN End(c) ELSE Goto(c, "burn")
          \/ ~MustArm(k, Bumped(k)) /\ ~Over(k, Bumped(k)) /\ Goto(c, "act")
  /\ UNCHANGED <<code, cooldown, expires, users, issued, guesses, spent, admitted>>

\* EXPIRE otp:daily or otp:attempts.
ArmService(c) ==
  /\ call[c].at = "countArm"
  /\ LET k == ServiceKey(call[c].op) IN
       expires' = [expires EXCEPT ![k] = count[k] > 0]
  /\ Goto(c, "act")
  /\ UNCHANGED <<code, cooldown, count, users, historyVars>>

\* The MULTI of issue_otp: the new code, no tries, the cooldown; then the SMS.
Send(c) ==
  /\ call[c].at = "act" /\ call[c].op = "issue"
  /\ issued' = issued + 1
  /\ Delete(issued + 1)
  /\ cooldown' = TRUE
  /\ End(c)
  /\ UNCHANGED <<users, days, guesses, spent, admitted>>

\* Too many tries: the code is deleted, whichever it is by now.
Burn(c) ==
  /\ call[c].at = "burn"
  /\ Delete(CodeAfterBurn)
  /\ End(c)
  /\ UNCHANGED <<cooldown, users, historyVars>>

\* The digits are compared with the code that was read.
Compare(c) == guesses' = [guesses EXCEPT ![call[c].stored] = @ + 1]

Wrong(c) ==
  /\ call[c].at = "act" /\ call[c].op = "verify"
  /\ Compare(c)
  /\ End(c)
  /\ UNCHANGED <<redisVars, users, issued, days, spent, admitted>>

\* Mutant: a code that was right is left to expire.
CodeAfterUse_Kept == code

CodeAfterUse == 0

\* Single-use: the code is deleted, whichever it is by now.
Use(c) ==
  /\ call[c].at = "act" /\ call[c].op = "verify"
  /\ Compare(c)
  /\ spent' = spent \cup {call[c].stored}
  /\ Delete(CodeAfterUse)
  /\ \E role \in Roles :  \* the app the request came from
       call' = [call EXCEPT ![c].at = "lookup", ![c].stored = 0, ![c].role = role]
  /\ UNCHANGED <<cooldown, users, issued, days, admitted>>

-----------------------------------------------------------------------------
\* A session of the app the request came from is committed.
Admit(c) == admitted' = admitted \cup {call[c].role}

\* The role is fixed at registration; an administrator may use either app.
RoleFits(u, role) == u.role \in {role, "admin"}

\* get_or_create_user: SELECT, and the session of a user that exists.
LookupUser(c) ==
  /\ call[c].at = "lookup"
  /\ \/ users = {} /\ Goto(c, "register") /\ UNCHANGED admitted
     \/ \E u \in users :
          /\ End(c)
          /\ IF RoleFits(u, call[c].role) THEN Admit(c) ELSE UNCHANGED admitted
  /\ UNCHANGED <<redisVars, users, issued, days, guesses, spent>>

\* Mutant: losing the race for the number counts as finding the user.
Conflict_TakenAsFound(c) == Admit(c)

\* The INSERT violates uq_users_phone_active: the request fails.
Conflict(c) == UNCHANGED admitted

\* INSERT of the user and of a worker's profile, one transaction.
Register(c) ==
  /\ call[c].at = "register"
  /\ \/ /\ users = {}
        /\ users' = {[role |-> call[c].role, profile |-> call[c].role = "worker"]}
        /\ Admit(c)
     \/ /\ users # {}
        /\ Conflict(c)
        /\ UNCHANGED users
  /\ End(c)
  /\ UNCHANGED <<redisVars, issued, days, guesses, spent>>

\* Redis, PostgreSQL or the process fails under a request.
Fail(c) ==
  /\ call[c].at \in Fragile
  /\ End(c)
  /\ UNCHANGED <<redisVars, users, historyVars>>

-----------------------------------------------------------------------------
(***************************************************************************)
(* Time.  The cooldown is the shortest of the times to live, and the tries *)
(* are given theirs after the code, which is as long: the cooldown goes    *)
(* before the code, and the code before the tries.                         *)
(***************************************************************************)
ExpireCooldown ==
  /\ cooldown
  /\ cooldown' = FALSE
  /\ UNCHANGED <<code, count, expires, users, call, historyVars>>

ExpireCode ==
  /\ code # 0 /\ ~cooldown
  /\ code' = 0
  /\ UNCHANGED <<cooldown, count, expires, users, call, historyVars>>

ExpireCounter(k) ==
  /\ expires[k]
  /\ k = "attempts" => code = 0
  /\ count' = [count EXCEPT ![k] = 0]
  /\ expires' = [expires EXCEPT ![k] = FALSE]
  /\ UNCHANGED <<code, cooldown, users, call, historyVars>>

Serve(c) ==
  \/ CountLimit(c) \/ ArmLimit(c)
  \/ LookCooldown(c) \/ LookCode(c)
  \/ CountService(c) \/ ArmService(c)
  \/ Send(c) \/ Burn(c) \/ Wrong(c) \/ Use(c)
  \/ LookupUser(c) \/ Register(c)

OtpNext ==
  \/ \E c \in Calls : Begin(c) \/ Serve(c) \/ Fail(c)
  \/ ExpireCooldown \/ ExpireCode
  \/ \E k \in Keys : ExpireCounter(k)

OtpSpec == OtpInit /\ [][OtpNext]_vars

-----------------------------------------------------------------------------
(***************************************************************************)
(* A code that is still in Redis has not been used, and has been guessed   *)
(* at most OTP_MAX_ATTEMPTS times, however the requests overlap: its tries *)
(* are never reset while it lives.                                         *)
(***************************************************************************)
LiveCodeIsFresh ==
  code # 0 => code \notin spent /\ guesses[code] <= Limit["attempts"]

(***************************************************************************)
(* The requests that had read a code before it was deleted are counted     *)
(* anew afterwards (verify_otp): each may still compare it, so there are   *)
(* at most that many guesses more.                                         *)
(***************************************************************************)
GuessesAreBounded ==
  \A n \in Codes : guesses[n] <= Limit["attempts"] + Cardinality(Calls)

(***************************************************************************)
(* OTP_MAX_PER_PHONE_PER_DAY: over any number of daily windows, no more    *)
(* messages are paid for than the windows allow, although the counter may  *)
(* expire while a request that it let through is still on its way.         *)
(***************************************************************************)
DailyCapHolds == issued <= Limit["daily"] * days

(***************************************************************************)
(* However sign-ins overlap (get_or_create_user), a number has one account *)
(* of one role, a worker's has its profile, and no app was ever given a    *)
(* session on an account of the other role.                                *)
(***************************************************************************)
OneRolePerNumber ==
  /\ \A u, v \in users : u = v
  /\ \A u \in users : u.profile <=> u.role = "worker"
  /\ \A role \in admitted : \E u \in users : RoleFits(u, role)

\* The INCR of k is done and the EXPIRE is the request's next command.
Arming(c, k) ==
  \/ call[c].at = "limitArm" /\ LimitKey(call[c].op) = k
  \/ call[c].at = "countArm" /\ ServiceKey(call[c].op) = k

(***************************************************************************)
(* "Please try again shortly", "Try again tomorrow": a counter that counts *)
(* has a time to live, or a request is about to give it one, although      *)
(* other requests delete and create the counter between the two commands.  *)
(***************************************************************************)
CountersExpire ==
  \A k \in Keys :
     count[k] > 0 => expires[k] \/ \E c \in Calls : Arming(c, k)
=============================================================================
