------------------------------ MODULE WebClient -------------------------------
(***************************************************************************)
(* The web application's API client (apps/web/src/lib/api.ts) and the      *)
(* session part of its AuthProvider (apps/web/src/lib/auth.tsx), together  *)
(* with the API's sessions.  All tabs of the browser share localStorage;   *)
(* each is a page with its own `refreshing` promise and its own React      *)
(* user.                                                                   *)
(*                                                                         *)
(* JavaScript runs one task at a time: a step here is everything a page    *)
(* does from the arrival of a response to the last microtask it leaves     *)
(* behind, so that everybody who awaited the refresh goes on in the step   *)
(* that stores its result.                                                 *)
(***************************************************************************)
EXTENDS Sessions

CONSTANTS Tabs,
          Calls,   \* slots: requests pages are waiting for
          Kinds,   \* the kinds of request pages make
          Faults   \* "loss": requests and answers get lost, exchanges fail
                   \* "abandon": a page is left while it refreshes

VARIABLES store,      \* the session whose tokens are in localStorage
          saved,      \* whether the user is in localStorage
          user,       \* whether each page renders a signed-in user
          refreshing, \* the exchange each page awaits
          call

localVars == <<store, saved, user>>
clientVars == <<localVars, refreshing, call>>
vars == <<sessionVars, clientVars>>

ASSUME TabsAssumption == Tabs # {}
ASSUME KindsAssumption == Kinds \subseteq {"api", "profile", "logout_all", "logout"}
ASSUME FaultsAssumption == Faults \subseteq {"loss", "abandon"}

(***************************************************************************)
(* profile: the request of updateProfile; logout_all: the authenticated    *)
(* one of logoutEverywhere; logout: the unauthenticated one of logout;     *)
(* api: any other authenticated request.                                   *)
(* sent and denied: on its way there and, with a 401, back; done: on its   *)
(* way back with success; waiting: awaits the refresh.                     *)
(***************************************************************************)
Call == [phase   : {"idle", "sent", "denied", "done", "waiting"},
         kind    : Kinds \cup {"api"},
         tab     : Tabs,
         token   : SessionIds \cup {None},
         retried : BOOLEAN]

IdleCall == [phase |-> "idle", kind |-> "api", tab |-> CHOOSE t \in Tabs : TRUE,
             token |-> None, retried |-> FALSE]

ClientTypeOK ==
  /\ SessionsTypeOK
  /\ store \in Rows \cup {None}
  /\ saved \in BOOLEAN
  /\ user \in [Tabs -> BOOLEAN]
  /\ refreshing \in [Tabs -> Slots \cup {None}]
  /\ call \in [Calls -> Call]
  /\ \A t \in Tabs : refreshing[t] # None => rotation[refreshing[t]].phase # "idle"

ClientInit ==
  /\ SessionsInit
  /\ store = None
  /\ saved = FALSE
  /\ user = [t \in Tabs |-> FALSE]
  /\ refreshing = [t \in Tabs |-> None]
  /\ call = [c \in Calls |-> IdleCall]

-----------------------------------------------------------------------------
\* Exchanges that what is under way may still lead to.  A session is issued,
\* or a request sent, only while there is room for one more.
Demand == Cardinality({c \in Calls : call[c].phase \in {"sent", "denied"} /\ ~call[c].retried})
          + Cardinality({x \in Slots : rotation[x].phase \in {"sent", "loaded"}})

Room == last + Demand < MaxSessions

Free(c) == call' = [call EXCEPT ![c] = IdleCall]

\* tokens.clear() and setUser(null).
ClearSession(t) ==
  /\ store' = None
  /\ saved' = FALSE
  /\ user' = [user EXCEPT ![t] = FALSE]

\* verifyOtp and adminLogin: the session is issued and adopted.
SignIn(t) ==
  /\ ~user[t] /\ Room
  /\ Login
  /\ store' = last'
  /\ saved' = TRUE
  /\ user' = [user EXCEPT ![t] = TRUE]
  /\ UNCHANGED <<refreshing, call>>

Send(c, t, kind) ==
  /\ call[c].phase = "idle" /\ Room
  /\ user[t] \/ (kind = "api" /\ store # None)
  /\ kind = "logout" => store # None
  /\ call' = [call EXCEPT ![c] = [phase |-> "sent", kind |-> kind, tab |-> t,
                                  token |-> store, retried |-> kind = "logout"]]
  /\ UNCHANGED <<sessionVars, localVars, refreshing>>

\* logout() without a token has nobody to tell.
LogoutLocally(t) ==
  /\ user[t] /\ store = None
  /\ ClearSession(t)
  /\ UNCHANGED <<sessionVars, refreshing, call>>

-----------------------------------------------------------------------------
(***************************************************************************)
(* The server's part of a request.                                         *)
(***************************************************************************)
Moved(c, phase) ==
  /\ call' = [call EXCEPT ![c].phase = phase]
  /\ UNCHANGED <<localVars, refreshing>>

ServeDenied(c) ==
  /\ call[c].phase = "sent" /\ call[c].kind # "logout"
  /\ ~Authenticates(call[c].token)
  /\ Moved(c, "denied")
  /\ UNCHANGED sessionVars

ServeApi(c) ==
  /\ call[c].phase = "sent" /\ call[c].kind \in {"api", "profile"}
  /\ Authenticates(call[c].token)
  /\ Moved(c, "done")
  /\ UNCHANGED sessionVars

ServeLogoutAll(c) ==
  /\ call[c].phase = "sent" /\ call[c].kind = "logout_all"
  /\ Authenticates(call[c].token)
  /\ RevokeAllSessions
  /\ Moved(c, "done")

ServeLogout(c) ==
  /\ call[c].phase = "sent" /\ call[c].kind = "logout"
  /\ RevokeSession(call[c].token)
  /\ Moved(c, "done")

Serve(c) == ServeDenied(c) \/ ServeApi(c) \/ ServeLogoutAll(c) \/ ServeLogout(c)

-----------------------------------------------------------------------------
(***************************************************************************)
(* The page's part.                                                        *)
(***************************************************************************)
IsLogout(c) == call[c].kind \in {"logout", "logout_all"}

\* A logout drops the local state, whatever became of its request.
FinishLogout(c) ==
  /\ IsLogout(c)
  /\ ClearSession(call[c].tab)
  /\ Free(c)
  /\ UNCHANGED <<sessionVars, refreshing>>

\* updateProfile adopts the user it gets back.
FinishProfile(c) ==
  /\ call[c].kind = "profile"
  /\ saved' = TRUE
  /\ user' = [user EXCEPT ![call[c].tab] = TRUE]
  /\ Free(c)
  /\ UNCHANGED <<sessionVars, store, refreshing>>

FinishQuietly(c) == Free(c) /\ UNCHANGED <<sessionVars, localVars, refreshing>>

Succeed(c) ==
  /\ call[c].phase = "done"
  /\ FinishLogout(c) \/ FinishProfile(c) \/ (call[c].kind = "api" /\ FinishQuietly(c))

\* fetch rejects, or the answer is an error other than 401.
LoseCall(c) ==
  /\ "loss" \in Faults
  /\ call[c].phase \in {"sent", "denied", "done"}
  /\ FinishLogout(c) \/ (~IsLogout(c) /\ FinishQuietly(c))

\* A 401 that no refresh can fix: there is no token, or this was the retry.
GiveUp(c) ==
  /\ call[c].phase = "denied"
  /\ call[c].retried \/ store = None
  /\ ClearSession(call[c].tab)
  /\ Free(c)
  /\ UNCHANGED <<sessionVars, refreshing>>

\* Mutant: every 401 starts a refresh of its own.
MustStart_Always(t) == TRUE

\* `refreshing ??=`: only the first starts a refresh, the others await it.
MustStart(t) == refreshing[t] = None

AwaitRefresh(c) == LET t == call[c].tab IN
  /\ call[c].phase = "denied" /\ ~call[c].retried /\ store # None
  /\ IF MustStart(t)
       THEN \E x \in Slots :
              /\ RotateSend(x, store)
              /\ refreshing' = [refreshing EXCEPT ![t] = x]
       ELSE UNCHANGED <<rotation, refreshing>>
  /\ call' = [call EXCEPT ![c].phase = "waiting"]
  /\ UNCHANGED <<last, revoked, parent_id, aged, localVars>>

Receive(c) == Succeed(c) \/ GiveUp(c) \/ AwaitRefresh(c)

\* The calls of the page that wait for its refresh.
Waiting(t) == {c \in Calls : call[c].phase = "waiting" /\ call[c].tab = t}

\* Mutant: only one of them goes on.
Resumed_One(t) == {c \in Waiting(t) : c = CHOOSE d \in Waiting(t) : TRUE}

Resumed(t) == Waiting(t)

\* Mutant: `refreshing` is never reset.
Forget_Never(t) == UNCHANGED refreshing

\* `refreshing = null`, in the microtask after the answer.
Forget(t) == refreshing' = [refreshing EXCEPT ![t] = None]

\* The refresh succeeded: its tokens are stored and every call is sent again.
Refreshed(t) == LET x == refreshing[t] IN
  /\ x # None /\ rotation[x].phase = "answered" /\ rotation[x].new # None
  /\ store' = rotation[x].new
  /\ call' = [c \in Calls |->
                IF c \in Resumed(t)
                  THEN [call[c] EXCEPT !.phase = "sent", !.token = store', !.retried = TRUE]
                  ELSE call[c]]
  /\ rotation' = [rotation EXCEPT ![x] = NoRotation]
  /\ saved' = TRUE
  /\ Forget(t)
  /\ UNCHANGED <<last, revoked, parent_id, aged, user>>

\* Mutant: a failed refresh leaves the tokens where they are.
FailWaiting_Softly(t) == UNCHANGED localVars

\* The 401 the waiting calls came with stands.
FailWaiting(t) == ClearSession(t)

StopAwaiting(t) ==
  /\ FailWaiting(t)
  /\ call' = [c \in Calls |-> IF c \in Resumed(t) THEN IdleCall ELSE call[c]]
  /\ Forget(t)

RefreshRefused(t) == LET x == refreshing[t] IN
  /\ x # None /\ rotation[x].phase = "answered" /\ rotation[x].new = None
  /\ rotation' = [rotation EXCEPT ![x] = NoRotation]
  /\ StopAwaiting(t)
  /\ UNCHANGED <<last, revoked, parent_id, aged>>

\* fetch rejects; the server may not have seen the request, may still be
\* working on it, or have answered.
LoseRefresh(t) ==
  /\ "loss" \in Faults /\ refreshing[t] # None
  /\ StopAwaiting(t)
  /\ UNCHANGED sessionVars

Settled(t) == Refreshed(t) \/ RefreshRefused(t)

\* Nobody is there to receive the answer.
Discard(x) ==
  /\ rotation[x].phase = "answered"
  /\ \A t \in Tabs : refreshing[t] # x
  /\ rotation' = [rotation EXCEPT ![x] = NoRotation]
  /\ UNCHANGED <<last, revoked, parent_id, aged, clientVars>>

\* The page is loaded anew: it forgets what it awaited, and its user is the
\* one in localStorage.
Reload(t) ==
  /\ refreshing[t] = None \/ "abandon" \in Faults
  /\ user' = [user EXCEPT ![t] = saved]
  /\ Forget(t)
  /\ call' = [c \in Calls |-> IF call[c].tab = t THEN IdleCall ELSE call[c]]
  /\ UNCHANGED <<sessionVars, store, saved>>

-----------------------------------------------------------------------------
\* Time, and the user's other devices.
Elsewhere ==
  /\ (\E s \in Rows : Expire(s)) \/ RevokeAllSessions
  /\ UNCHANGED clientVars

Server(x) ==
  /\ Rotate(x) \/ ("loss" \in Faults /\ RotateFail(x))
  /\ UNCHANGED clientVars

ClientNext ==
  \/ \E t \in Tabs :
       \/ SignIn(t)
       \/ LogoutLocally(t)
       \/ \E c \in Calls, kind \in Kinds : Send(c, t, kind)
       \/ Settled(t)
       \/ LoseRefresh(t)
       \/ Reload(t)
  \/ \E c \in Calls : Serve(c) \/ Receive(c) \/ LoseCall(c)
  \/ \E x \in Slots : Server(x) \/ Discard(x)
  \/ Elsewhere

ClientSpec == ClientInit /\ [][ClientNext]_vars

(***************************************************************************)
(* The server answers what reaches it, and a fetch settles.  Nothing       *)
(* obliges a user to act, a token to expire, or anything to be lost.       *)
(***************************************************************************)
ClientFairness ==
  /\ \A c \in Calls : WF_vars(Serve(c) \/ Receive(c))
  /\ \A x \in Slots : WF_vars((Rotate(x) /\ UNCHANGED clientVars) \/ Discard(x))
  /\ \A t \in Tabs : WF_vars(Settled(t))

FairClientSpec == ClientSpec /\ ClientFairness

-----------------------------------------------------------------------------
(***************************************************************************)
(* "Everyone awaits the same refresh": a page never sends a token twice,   *)
(* so a session has at most one successor.                                 *)
(***************************************************************************)
ExchangedOnce ==
  \A m, n \in Rows : parent_id[m] = parent_id[n] /\ parent_id[m] # None => m = n

(***************************************************************************)
(* The browser never sits on a token that has been exchanged, the next use *)
(* of which would end every session of the user: an exchanged token is in  *)
(* localStorage only while the page awaits the answer to that exchange,    *)
(* even if the answer is then lost.                                        *)
(***************************************************************************)
HoldsNewest ==
  store # None /\ Successors(store) # {} =>
    \E t \in Tabs : /\ refreshing[t] # None
                    /\ rotation[refreshing[t]].token = store

(***************************************************************************)
(* Every request of a page ends, with an answer or an error: nobody is     *)
(* left awaiting a refresh that is over.                                   *)
(***************************************************************************)
CallsEnd == \A c \in Calls : call[c].phase # "idle" ~> call[c].phase = "idle"

(***************************************************************************)
(* "Still 401 after a refresh attempt: the session is genuinely gone": a   *)
(* rejected retry never drops an access token the API would accept.        *)
(***************************************************************************)
StillDeniedMeansGone ==
  [][\A c \in Calls :
        /\ call[c].phase = "denied" /\ call[c].retried /\ call[c].kind = "api"
        /\ call'[c] # call[c] /\ store # None /\ store' = None
        => ~Authenticates(store)]_vars
=============================================================================
