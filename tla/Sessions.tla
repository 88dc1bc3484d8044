------------------------------- MODULE Sessions -------------------------------
(***************************************************************************)
(* The sessions of one user as the API keeps them (app/services/auth.py,   *)
(* app/api/v1/auth.py, app/api/deps.py): one row of refresh_tokens per     *)
(* login or exchange.  The row is the session: its refresh token and its   *)
(* access token name it, so a session stands for the pair of tokens.       *)
(*                                                                         *)
(* Rows are numbered in the order of their creation.  An exchange is a     *)
(* transaction that reads the row without a lock and later writes          *)
(* revoked_at and inserts the successor; the revocations are single UPDATE *)
(* statements.  An UPDATE that has to wait for an exchange to commit does  *)
(* not see the row the exchange inserts, which is the same as running      *)
(* before it.                                                              *)
(***************************************************************************)
EXTENDS Naturals, FiniteSets

CONSTANTS MaxSessions,  \* bound on the number of rows, for model checking only
          Slots         \* exchanges the server works on at a time

ASSUME MaxSessionsAssumption == MaxSessions \in Nat

VARIABLES last,      \* rows 1 .. last exist
          revoked,   \* rows with revoked_at
          parent_id,
          aged,      \* 1: the access token has expired, 2: the refresh token too
          rotation   \* what each exchange in flight has done

sessionVars == <<last, revoked, parent_id, aged, rotation>>

None == 0   \* SQL NULL, no token
SessionIds == 1 .. MaxSessions
Rows == 1 .. last

ASSUME SlotsAssumption == None \notin Slots

(***************************************************************************)
(* sent: the request is on its way; loaded: the row has been read and      *)
(* every check has passed; answered: the response is on its way, with a    *)
(* new pair of tokens or, if new is None, with an error.                   *)
(***************************************************************************)
Rotation == [phase : {"idle", "sent", "loaded", "answered"},
             token : SessionIds \cup {None},
             new   : SessionIds \cup {None}]

NoRotation == [phase |-> "idle", token |-> None, new |-> None]

SessionsTypeOK ==
  /\ last \in 0 .. MaxSessions
  /\ revoked \subseteq Rows
  /\ parent_id \in [SessionIds -> SessionIds \cup {None}]
  /\ aged \in [SessionIds -> 0 .. 2]
  /\ rotation \in [Slots -> Rotation]

SessionsInit ==
  /\ last = 0
  /\ revoked = {}
  /\ parent_id = [s \in SessionIds |-> None]
  /\ aged = [s \in SessionIds |-> 0]
  /\ rotation = [x \in Slots |-> NoRotation]

-----------------------------------------------------------------------------
\* The access token has not expired and the session is not revoked.  The account
\* is active: nothing in the API changes users.status.
Authenticates(s) == s \in Rows \ revoked /\ aged[s] = 0

\* The refresh token can be exchanged.
Exchangeable(s) == s \in Rows \ revoked /\ aged[s] < 2

Successors(s) == {n \in Rows : parent_id[n] = s}

IssueSession(parent) ==
  /\ last < MaxSessions
  /\ last' = last + 1
  /\ parent_id' = [parent_id EXCEPT ![last + 1] = parent]

\* verify_otp and admin_login, once the caller is known.
Login ==
  /\ IssueSession(None)
  /\ UNCHANGED <<revoked, aged, rotation>>

Answered(x, new) ==
  rotation' = [rotation EXCEPT ![x].phase = "answered", ![x].new = new]

RotateSend(x, s) ==
  /\ rotation[x].phase = "idle"
  /\ rotation' = [rotation EXCEPT ![x] = [phase |-> "sent", token |-> s, new |-> None]]

\* The token was exchanged or revoked before: revoke every session of the
\* user, and commit that before the error is raised.
RotateReused(x) ==
  /\ rotation[x].phase = "sent"
  /\ rotation[x].token \in revoked
  /\ revoked' = Rows
  /\ Answered(x, None)
  /\ UNCHANGED <<last, parent_id, aged>>

RotateRefused(x) ==
  /\ rotation[x].phase = "sent"
  /\ rotation[x].token \notin revoked
  /\ ~Exchangeable(rotation[x].token)
  /\ Answered(x, None)
  /\ UNCHANGED <<last, revoked, parent_id, aged>>

RotateLoad(x) ==
  /\ rotation[x].phase = "sent"
  /\ Exchangeable(rotation[x].token)
  /\ rotation' = [rotation EXCEPT ![x].phase = "loaded"]
  /\ UNCHANGED <<last, revoked, parent_id, aged>>

\* Mutant: the old session is left as it was.
Retired_Not(s) == {}

\* An exchange retires the session it was made with.
Retired(s) == {s}

RotateCommit(x) ==
  /\ rotation[x].phase = "loaded"
  /\ IssueSession(rotation[x].token)
  /\ revoked' = revoked \cup Retired(rotation[x].token)
  /\ Answered(x, last + 1)
  /\ UNCHANGED aged

\* The transaction fails and is rolled back, or the request is lost.
RotateFail(x) ==
  /\ rotation[x].phase \in {"sent", "loaded"}
  /\ Answered(x, None)
  /\ UNCHANGED <<last, revoked, parent_id, aged>>

Rotate(x) == RotateReused(x) \/ RotateRefused(x) \/ RotateLoad(x) \/ RotateCommit(x)

RevokeSession(s) ==
  /\ revoked' = revoked \cup ({s} \cap Rows)
  /\ UNCHANGED <<last, parent_id, aged, rotation>>

RevokeAllSessions ==
  /\ revoked' = Rows
  /\ UNCHANGED <<last, parent_id, aged, rotation>>

\* Time passes.  Both tokens of a session outlive those it was exchanged for.
Expire(s) ==
  /\ aged[s] < 2
  /\ parent_id[s] # None => aged[parent_id[s]] > aged[s]
  /\ aged' = [aged EXCEPT ![s] = @ + 1]
  /\ UNCHANGED <<last, revoked, parent_id, rotation>>

-----------------------------------------------------------------------------
(***************************************************************************)
(* A session that has been exchanged is revoked for good, whatever other   *)
(* exchanges and revocations of it were under way: at most one session of  *)
(* a chain of exchanges is live at its end ("invalidating the old one",    *)
(* rotate_session).                                                        *)
(***************************************************************************)
ExchangedIsRevoked == \A s \in Rows : Successors(s) # {} => s \in revoked
=============================================================================
