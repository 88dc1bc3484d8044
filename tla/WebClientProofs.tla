---------------------------- MODULE WebClientProofs ----------------------------
(***************************************************************************)
(* Sessions and the client that refreshes them: what is proved for any     *)
(* number of calls, exchanges and sessions.                                *)
(***************************************************************************)
EXTENDS WebClient, TLAPS

Busy(x) == rotation[x].phase # "idle"
Active(x) == rotation[x].phase \in {"sent", "loaded"}

\* A session is younger than the one it was exchanged for.
Ancestry == \A s \in SessionIds : parent_id[s] < s

\* What is exchanged, and what an exchange yields, is a row.
TokensAreRows ==
  \A x \in Slots : Busy(x) => /\ rotation[x].token \in Rows
                              /\ rotation[x].new \in Rows \cup {None}

(***************************************************************************)
(* What the server keeps true by itself, whoever sends it tokens.          *)
(***************************************************************************)
ServerInv == SessionsTypeOK /\ Ancestry /\ TokensAreRows /\ ExchangedIsRevoked

LEMMA InitServerInv == SessionsInit => ServerInv
<1> SUFFICES ASSUME SessionsInit PROVE ServerInv
  OBVIOUS
<1> USE MaxSessionsAssumption DEF SessionsInit
<1>1. SessionsTypeOK
  BY DEF SessionsTypeOK, Rotation, NoRotation, None, Rows, SessionIds
<1>2. Ancestry
  BY DEF Ancestry, None, SessionIds
<1>3. TokensAreRows
  BY DEF TokensAreRows, Busy, NoRotation
<1>4. ExchangedIsRevoked
  BY DEF ExchangedIsRevoked, Rows
<1> QED BY <1>1, <1>2, <1>3, <1>4 DEF ServerInv

\* A new row, with a row or nothing as its parent, which is then revoked.
LEMMA IssueKeeps ==
  ASSUME ServerInv, NEW parent \in Rows \cup {None}, IssueSession(parent),
         aged' = aged, revoked' \subseteq Rows, revoked \subseteq revoked',
         parent # None => parent \in revoked',
         rotation' \in [Slots -> Rotation],
         \A x \in Slots : Busy(x)' =>
            /\ rotation'[x].token \in Rows
            /\ rotation'[x].new \in Rows \cup {None, last + 1}
  PROVE  ServerInv' /\ Rows' = Rows \cup {last + 1}
<1> USE MaxSessionsAssumption DEF IssueSession, SessionIds, None
<1>1. last \in Nat /\ last + 1 \in SessionIds /\ last' = last + 1
  BY DEF ServerInv, SessionsTypeOK
<1>2. Rows' = Rows \cup {last + 1} /\ last + 1 \notin Rows
  BY <1>1 DEF Rows
<1>3. /\ parent_id \in [SessionIds -> SessionIds \cup {None}]
      /\ Rows \subseteq SessionIds
  BY <1>1 DEF ServerInv, SessionsTypeOK, Rows
<1>4. SessionsTypeOK'
  BY <1>1, <1>2, <1>3 DEF ServerInv, SessionsTypeOK
<1>5. Ancestry'
  BY <1>1, <1>3 DEF ServerInv, Ancestry, Rows
<1>6. TokensAreRows'
  BY <1>2 DEF TokensAreRows
<1>7. ExchangedIsRevoked'
  <2> SUFFICES ASSUME NEW s \in Rows', NEW n \in Rows', parent_id'[n] = s
               PROVE  s \in revoked'
    BY DEF ExchangedIsRevoked, Successors
  <2>1. CASE n = last + 1
    BY <2>1, <1>1, <1>2, <1>3 DEF Rows
  <2>2. CASE n \in Rows
    <3>1. parent_id[n] = s /\ s < n
      BY <2>2, <1>1, <1>2, <1>3 DEF ServerInv, Ancestry
    <3>2. s \in Rows
      BY <3>1, <2>2, <1>1, <1>2 DEF Rows
    <3> QED BY <3>1, <3>2, <2>2 DEF ServerInv, ExchangedIsRevoked, Successors
  <2> QED BY <2>1, <2>2, <1>2
<1> QED BY <1>2, <1>4, <1>5, <1>6, <1>7 DEF ServerInv

\* More revocations, other phases of exchanges, time.
LEMMA QuietKeeps ==
  ASSUME ServerInv, last' = last, parent_id' = parent_id,
         aged' \in [SessionIds -> 0 .. 2],
         revoked' \subseteq Rows, revoked \subseteq revoked',
         rotation' \in [Slots -> Rotation],
         \A x \in Slots : Busy(x)' =>
            /\ rotation'[x].token \in Rows
            /\ rotation'[x].new \in Rows \cup {None}
  PROVE  ServerInv' /\ Rows' = Rows
BY DEF ServerInv, SessionsTypeOK, Ancestry, TokensAreRows, ExchangedIsRevoked,
       Rows, Successors, SessionIds

LEMMA RowsAreIds == SessionsTypeOK => Rows \subseteq SessionIds /\ None \notin Rows
BY MaxSessionsAssumption DEF SessionsTypeOK, Rows, SessionIds, None

\* The server's steps, with a row of the table in place of what a client sends.
SessionsStep ==
  \/ Login
  \/ \E x \in Slots, s \in Rows : RotateSend(x, s) /\ UNCHANGED <<last, revoked, parent_id, aged>>
  \/ \E x \in Slots : Rotate(x) \/ RotateFail(x)
  \/ \E x \in Slots : /\ rotation' = [rotation EXCEPT ![x] = NoRotation]
                      /\ UNCHANGED <<last, revoked, parent_id, aged>>
  \/ \E s \in Rows \cup {None} : RevokeSession(s)
  \/ RevokeAllSessions
  \/ \E s \in Rows : Expire(s)
  \/ UNCHANGED sessionVars

LEMMA SessionsKeep ==
  ASSUME ServerInv, SessionsStep
  PROVE  ServerInv' /\ Rows \subseteq Rows'
<1> USE RowsAreIds DEF ServerInv
<1> DEFINE Typed == /\ rotation \in [Slots -> Rotation] /\ revoked \subseteq Rows
                    /\ aged \in [SessionIds -> 0 .. 2]
                    /\ \A x \in Slots : Busy(x) => /\ rotation[x].token \in Rows
                                                   /\ rotation[x].new \in Rows \cup {None}
<1>0. Typed
  BY DEF SessionsTypeOK, TokensAreRows
<1>1. CASE Login
  <2>1. /\ revoked' = revoked /\ aged' = aged /\ rotation' = rotation /\ IssueSession(None)
    BY <1>1 DEF Login
  <2>2. revoked' \subseteq Rows /\ rotation' \in [Slots -> Rotation]
    BY <2>1, <1>0
  <2>3. \A x \in Slots : Busy(x)' => /\ rotation'[x].token \in Rows
                                     /\ rotation'[x].new \in Rows \cup {None, last + 1}
    BY <2>1, <1>0 DEF Busy
  <2> HIDE DEF ServerInv
  <2> QED BY <2>1, <2>2, <2>3, IssueKeeps
<1>2. CASE \E x \in Slots, s \in Rows :
              RotateSend(x, s) /\ UNCHANGED <<last, revoked, parent_id, aged>>
  <2>1. PICK x \in Slots, s \in Rows :
              RotateSend(x, s) /\ UNCHANGED <<last, revoked, parent_id, aged>>
    BY <1>2
  <2>2. rotation' \in [Slots -> Rotation]
    BY <2>1, <1>0 DEF RotateSend, Rotation
  <2>3. \A y \in Slots : Busy(y)' => /\ rotation'[y].token \in Rows
                                     /\ rotation'[y].new \in Rows \cup {None}
    BY <2>1, <1>0 DEF RotateSend, Busy, Rotation
  <2> HIDE DEF ServerInv
  <2> QED BY <2>1, <2>2, <2>3, <1>0, QuietKeeps
<1>3. CASE \E x \in Slots : Rotate(x) \/ RotateFail(x)
  <2>1. PICK x \in Slots : Rotate(x) \/ RotateFail(x)
    BY <1>3
  <2>2. Busy(x) /\ rotation[x] \in Rotation
    BY <2>1, <1>0 DEF Rotate, RotateReused, RotateRefused, RotateLoad, RotateCommit,
                      RotateFail, Busy
  <2>3. CASE RotateCommit(x)
    <3>1. /\ IssueSession(rotation[x].token) /\ aged' = aged
          /\ revoked' = revoked \cup {rotation[x].token}
          /\ Answered(x, last + 1)
      BY <2>3 DEF RotateCommit, Retired
    <3>2. last + 1 \in SessionIds
      BY <3>1, MaxSessionsAssumption DEF IssueSession, SessionIds, SessionsTypeOK
    <3>3. rotation' \in [Slots -> Rotation]
      <4>1. PICK new \in SessionIds : Answered(x, new)
        BY <3>1, <3>2
      <4> QED BY <4>1, <2>2, <1>0 DEF Answered, Rotation
    <3>4. \A y \in Slots : Busy(y)' => /\ rotation'[y].token \in Rows
                                       /\ rotation'[y].new \in Rows \cup {None, last + 1}
      BY <3>1, <2>2, <1>0 DEF Answered, Busy, Rotation
    <3> HIDE DEF ServerInv
    <3> QED BY <3>1, <3>3, <3>4, <2>2, <1>0, IssueKeeps
  <2>4. CASE RotateReused(x) \/ RotateRefused(x) \/ RotateLoad(x) \/ RotateFail(x)
    <3>1. /\ UNCHANGED <<last, parent_id, aged>> /\ revoked' \in {revoked, Rows}
          /\ \E phase \in {"answered", "loaded"}, new \in {None, rotation[x].new} :
               rotation' = [rotation EXCEPT ![x].phase = phase, ![x].new = new]
      <4>1. CASE RotateReused(x)
        BY <4>1 DEF RotateReused, Answered
      <4>2. CASE RotateRefused(x)
        BY <4>2 DEF RotateRefused, Answered
      <4>3. CASE RotateFail(x)
        BY <4>3 DEF RotateFail, Answered
      <4>4. CASE RotateLoad(x)
        BY <4>4, <2>2, <1>0 DEF RotateLoad, Rotation
      <4> QED BY <2>4, <4>1, <4>2, <4>3, <4>4
    <3>2. PICK phase \in {"answered", "loaded"}, new \in {None, rotation[x].new} :
               rotation' = [rotation EXCEPT ![x].phase = phase, ![x].new = new]
      BY <3>1
    <3>3. rotation' \in [Slots -> Rotation]
      BY <3>2, <2>2, <1>0 DEF Rotation
    <3>4. \A y \in Slots : Busy(y)' => /\ rotation'[y].token \in Rows
                                       /\ rotation'[y].new \in Rows \cup {None}
      BY <3>2, <2>2, <1>0 DEF Busy, Rotation
    <3> HIDE DEF ServerInv
    <3> QED BY <3>1, <3>3, <3>4, <1>0, QuietKeeps
  <2> QED BY <2>1, <2>3, <2>4 DEF Rotate
<1>4. CASE \E x \in Slots : /\ rotation' = [rotation EXCEPT ![x] = NoRotation]
                            /\ UNCHANGED <<last, revoked, parent_id, aged>>
  <2>1. rotation' \in [Slots -> Rotation]
    BY <1>4, <1>0 DEF NoRotation, Rotation
  <2>2. \A y \in Slots : Busy(y)' => /\ rotation'[y].token \in Rows
                                     /\ rotation'[y].new \in Rows \cup {None}
    BY <1>4, <1>0 DEF Busy, NoRotation
  <2> HIDE DEF ServerInv
  <2> QED BY <1>4, <2>1, <2>2, <1>0, QuietKeeps
<1>5. CASE \/ \E s \in Rows \cup {None} : RevokeSession(s)
           \/ RevokeAllSessions
           \/ \E s \in Rows : Expire(s)
           \/ UNCHANGED sessionVars
  <2>1. /\ UNCHANGED <<last, parent_id, rotation>>
        /\ revoked \subseteq revoked' /\ revoked' \subseteq Rows
    BY <1>5, <1>0 DEF RevokeSession, RevokeAllSessions, Expire, sessionVars
  <2>2. aged' \in [SessionIds -> 0 .. 2]
    <3>1. CASE \E s \in Rows : Expire(s)
      BY <3>1, <1>0 DEF Expire
    <3>2. CASE aged' = aged
      BY <3>2, <1>0
    <3> QED BY <1>5, <3>1, <3>2 DEF RevokeSession, RevokeAllSessions, sessionVars
  <2>3. \A y \in Slots : Busy(y)' => /\ rotation'[y].token \in Rows
                                     /\ rotation'[y].new \in Rows \cup {None}
    BY <2>1, <1>0 DEF Busy
  <2> HIDE DEF ServerInv
  <2> QED BY <2>1, <2>2, <2>3, <1>0, QuietKeeps
<1> QED BY <1>1, <1>2, <1>3, <1>4, <1>5 DEF SessionsStep

-----------------------------------------------------------------------------
(***************************************************************************)
(* The client's own types.  A page awaits an exchange of its own.          *)
(***************************************************************************)
Exclusive == \A t, u \in Tabs : refreshing[t] = refreshing[u] /\ refreshing[t] # None => t = u

ClientInv == ServerInv /\ ClientTypeOK /\ Exclusive

\* What a step of the client means to the server.
LEMMA ClientStepsAreSessionsSteps ==
  ASSUME ClientInv, ClientNext
  PROVE  SessionsStep
<1> USE DEF ClientInv, ClientTypeOK, SessionsStep
<1>1. CASE \E t \in Tabs : SignIn(t)
  BY <1>1 DEF SignIn
<1>2. CASE \E t \in Tabs : \/ LogoutLocally(t) \/ LoseRefresh(t) \/ Reload(t)
                           \/ \E c \in Calls, kind \in Kinds : Send(c, t, kind)
  BY <1>2 DEF LogoutLocally, LoseRefresh, Reload, Send
<1>3. CASE \E t \in Tabs : Settled(t)
  <2>1. PICK t \in Tabs : Settled(t)
    BY <1>3
  <2>2. refreshing[t] \in Slots
    BY <2>1 DEF Settled, Refreshed, RefreshRefused
  <2> QED BY <2>1, <2>2 DEF Settled, Refreshed, RefreshRefused
<1>4. CASE \E c \in Calls : Serve(c)
  <2>1. PICK c \in Calls : Serve(c)
    BY <1>4
  <2>2. CASE ServeLogout(c)
    <3>1. PICK s \in SessionIds \cup {None} : RevokeSession(s)
      BY <2>2 DEF ServeLogout, Call
    <3>2. s \in Rows \/ RevokeSession(None)
      BY <3>1, RowsAreIds DEF RevokeSession
    <3> QED BY <3>1, <3>2
  <2> QED BY <2>1, <2>2 DEF Serve, ServeDenied, ServeApi, ServeLogoutAll
<1>5. CASE \E c \in Calls : Succeed(c) \/ GiveUp(c) \/ LoseCall(c)
  BY <1>5 DEF Succeed, GiveUp, LoseCall, FinishLogout, FinishProfile, FinishQuietly
<1>6. CASE \E c \in Calls : AwaitRefresh(c)
  <2>1. PICK c \in Calls : AwaitRefresh(c)
    BY <1>6
  <2>2. CASE MustStart(call[c].tab)
    BY <2>1, <2>2 DEF AwaitRefresh
  <2>3. CASE ~MustStart(call[c].tab)
    BY <2>1, <2>3 DEF AwaitRefresh, sessionVars
  <2> QED BY <2>2, <2>3
<1>7. CASE \E x \in Slots : Server(x) \/ Discard(x)
  BY <1>7 DEF Server, Discard
<1>8. CASE Elsewhere
  BY <1>8 DEF Elsewhere
<1> QED BY <1>1, <1>2, <1>3, <1>4, <1>5, <1>6, <1>7, <1>8 DEF ClientNext, Receive

LEMMA LocalTypes ==
  ASSUME ClientInv, ClientNext, SessionsTypeOK', Rows \subseteq Rows'
  PROVE  /\ store' \in Rows' \cup {None} /\ saved' \in BOOLEAN
         /\ user' \in [Tabs -> BOOLEAN]  /\ call' \in [Calls -> Call]
<1> DEFINE Ids == SessionIds \cup {None}
           LocalOK == /\ store \in Rows \cup {None} /\ saved \in BOOLEAN
                      /\ user \in [Tabs -> BOOLEAN]
<1>0. LocalOK /\ call \in [Calls -> Call] /\ Rows \subseteq SessionIds
      /\ rotation \in [Slots -> Rotation]
  BY RowsAreIds DEF ClientInv, ClientTypeOK, SessionsTypeOK
<1>1. IdleCall \in Call
  BY TabsAssumption DEF IdleCall, Call
<1>2. \A c \in Calls : Free(c) => call' \in [Calls -> Call]
  BY <1>0, <1>1 DEF Free
<1>3. \A t \in Tabs : ClearSession(t) => LocalOK'
  BY <1>0 DEF ClearSession
<1>4. UNCHANGED localVars => LocalOK'
  BY <1>0 DEF localVars
<1>5. \A c \in Calls : call[c].tab \in Tabs
  BY <1>0 DEF Call
<1>6. CASE \E t \in Tabs : SignIn(t)
  <2>1. last' \in Rows'
    BY <1>6 DEF SignIn, Login, IssueSession, Rows, SessionsTypeOK, ClientInv, ServerInv
  <2> QED BY <1>6, <1>0, <2>1 DEF SignIn
<1>7. CASE \E t \in Tabs : LogoutLocally(t)
  BY <1>7, <1>3, <1>0 DEF LogoutLocally
<1>8. CASE \E t \in Tabs, c \in Calls, kind \in Kinds : Send(c, t, kind)
  <2>1. PICK t \in Tabs, c \in Calls, kind \in Kinds : Send(c, t, kind)
    BY <1>8
  <2>2. [phase |-> "sent", kind |-> kind, tab |-> t,
         token |-> store, retried |-> kind = "logout"] \in Call
    BY <1>0 DEF Call
  <2> QED BY <2>1, <2>2, <1>0, <1>4 DEF Send
<1>9. CASE \E c \in Calls : Serve(c)
  <2>1. PICK c \in Calls, phase \in {"denied", "done"} : Moved(c, phase)
    BY <1>9 DEF Serve, ServeDenied, ServeApi, ServeLogoutAll, ServeLogout
  <2> QED BY <2>1, <1>0, <1>4 DEF Moved, localVars, Call
<1>10. CASE \E c \in Calls : Succeed(c) \/ GiveUp(c) \/ LoseCall(c)
  <2>1. PICK c \in Calls : Succeed(c) \/ GiveUp(c) \/ LoseCall(c)
    BY <1>10
  <2>2. Free(c)
    BY <2>1 DEF Succeed, GiveUp, LoseCall, FinishLogout, FinishProfile, FinishQuietly
  <2>3. \/ ClearSession(call[c].tab)
        \/ UNCHANGED localVars
        \/ FinishProfile(c)
    BY <2>1 DEF Succeed, GiveUp, LoseCall, FinishLogout, FinishQuietly
  <2>4. FinishProfile(c) => LocalOK'
    BY <1>0 DEF FinishProfile
  <2> QED BY <2>2, <2>3, <2>4, <1>2, <1>3, <1>4, <1>5
<1>11. CASE \E c \in Calls : AwaitRefresh(c)
  <2>1. PICK c \in Calls : call' = [call EXCEPT ![c].phase = "waiting"]
    BY <1>11 DEF AwaitRefresh
  <2>2. UNCHANGED localVars
    BY <1>11 DEF AwaitRefresh
  <2> QED BY <2>1, <2>2, <1>0, <1>4 DEF Call
<1>12. CASE \E t \in Tabs : Refreshed(t)
  <2>1. PICK t \in Tabs : Refreshed(t)
    BY <1>12
  <2>2. refreshing[t] \in Slots
    BY <2>1 DEF Refreshed, ClientInv, ClientTypeOK
  <2>3. store' \in Rows
    BY <2>1, <2>2 DEF Refreshed, ClientInv, ServerInv, TokensAreRows, Busy
  <2>4. \A c \in Calls :
          [call[c] EXCEPT !.phase = "sent", !.token = store', !.retried = TRUE] \in Call
    BY <2>3, <1>0 DEF Call
  <2> QED BY <2>1, <2>3, <2>4, <1>0 DEF Refreshed
<1>13. CASE \E t \in Tabs : RefreshRefused(t) \/ LoseRefresh(t)
  BY <1>13, <1>0, <1>1, <1>3 DEF RefreshRefused, LoseRefresh, StopAwaiting, FailWaiting
<1>14. CASE \E t \in Tabs : Reload(t)
  BY <1>14, <1>0, <1>1 DEF Reload
<1>15. CASE Elsewhere \/ \E x \in Slots : Server(x) \/ Discard(x)
  BY <1>15, <1>0, <1>4 DEF Elsewhere, Server, Discard, clientVars
<1> QED BY <1>6, <1>7, <1>8, <1>9, <1>10, <1>11, <1>12, <1>13, <1>14, <1>15
        DEF ClientNext, Receive, Settled

\* The exchanges that pages await exist, and each is awaited by one page.
Awaited ==
  /\ refreshing \in [Tabs -> Slots \cup {None}]
  /\ \A t \in Tabs : refreshing[t] # None => Busy(refreshing[t])
  /\ Exclusive

\* An exchange in flight stays in flight until its answer arrives.
LEMMA StaysBusy ==
  ASSUME rotation \in [Slots -> Rotation], NEW x \in Slots,
         Rotate(x) \/ RotateFail(x)
  PROVE  \A y \in Slots : Busy(y) => Busy(y)'
<1>1. CASE RotateLoad(x)
  BY <1>1 DEF RotateLoad, Busy, Rotation
<1>2. CASE RotateReused(x) \/ RotateRefused(x) \/ RotateCommit(x) \/ RotateFail(x)
  BY <1>2 DEF RotateReused, RotateRefused, RotateCommit, RotateFail, Answered, Busy, Rotation
<1> QED BY <1>1, <1>2 DEF Rotate

LEMMA AwaitTypes ==
  ASSUME ClientInv, ClientNext
  PROVE  Awaited'
<1>0. Awaited /\ rotation \in [Slots -> Rotation] /\ None \notin Slots
  BY SlotsAssumption DEF Awaited, ClientInv, ServerInv, ClientTypeOK, SessionsTypeOK, Busy
<1>1. ASSUME UNCHANGED refreshing, \A t \in Tabs : LET x == refreshing[t] IN
                                      x # None => (Busy(x) => Busy(x)')
      PROVE  Awaited'
  BY <1>0, <1>1 DEF Awaited, Exclusive, Busy
<1>2. ASSUME UNCHANGED refreshing, UNCHANGED rotation
      PROVE  Awaited'
  BY <1>1, <1>2 DEF Busy
<1>3. ASSUME NEW t \in Tabs, Forget(t),
             \/ UNCHANGED rotation
             \/ rotation' = [rotation EXCEPT ![refreshing[t]] = NoRotation]
      PROVE  Awaited'
  BY <1>0, <1>3 DEF Awaited, Exclusive, Busy, Forget
<1>4. CASE \E t \in Tabs : \/ SignIn(t) \/ LogoutLocally(t)
                           \/ \E c \in Calls, kind \in Kinds : Send(c, t, kind)
  BY <1>2, <1>4 DEF SignIn, Login, LogoutLocally, Send, sessionVars
<1>5. CASE \E t \in Tabs : Settled(t)
  <2>1. PICK t \in Tabs : Settled(t)
    BY <1>5
  <2> QED BY <2>1, <1>3 DEF Settled, Refreshed, RefreshRefused, StopAwaiting
<1>6. CASE \E t \in Tabs : LoseRefresh(t) \/ Reload(t)
  <2>1. PICK t \in Tabs : LoseRefresh(t) \/ Reload(t)
    BY <1>6
  <2> QED BY <2>1, <1>3 DEF LoseRefresh, Reload, StopAwaiting, sessionVars
<1>7. CASE \E c \in Calls : Serve(c) \/ Succeed(c) \/ GiveUp(c) \/ LoseCall(c)
  BY <1>2, <1>7 DEF Serve, ServeDenied, ServeApi, ServeLogoutAll, ServeLogout, Moved,
     RevokeSession, RevokeAllSessions, Succeed, GiveUp, LoseCall, FinishLogout,
     FinishProfile, FinishQuietly, sessionVars
<1>8. CASE \E c \in Calls : AwaitRefresh(c)
  <2>1. PICK c \in Calls : AwaitRefresh(c)
    BY <1>8
  <2>2. CASE MustStart(call[c].tab)
    <3> DEFINE t == call[c].tab
    <3>1. PICK x \in Slots : /\ RotateSend(x, store)
                             /\ refreshing' = [refreshing EXCEPT ![t] = x]
      BY <2>1, <2>2 DEF AwaitRefresh
    <3>2. ~Busy(x) /\ rotation' = [rotation EXCEPT ![x] =
                         [phase |-> "sent", token |-> store, new |-> None]]
      BY <3>1 DEF RotateSend, Busy
    <3>3. \A u \in Tabs : refreshing[u] # x
      BY <3>1, <3>2, <1>0 DEF Awaited
    <3> HIDE DEF t
    <3> QED BY <3>1, <3>2, <3>3, <1>0 DEF Awaited, Exclusive, Busy
  <2>3. CASE ~MustStart(call[c].tab)
    BY <1>2, <2>1, <2>3 DEF AwaitRefresh
  <2> QED BY <2>2, <2>3
<1>9. CASE \E x \in Slots : Server(x)
  <2>1. PICK x \in Slots : Server(x)
    BY <1>9
  <2>2. UNCHANGED refreshing /\ \A y \in Slots : Busy(y) => Busy(y)'
    BY <2>1, <1>0, StaysBusy DEF Server, clientVars
  <2> QED BY <2>2, <1>0, <1>1 DEF Awaited
<1>10. CASE \E x \in Slots : Discard(x)
  BY <1>10, <1>0, <1>1 DEF Discard, clientVars, Busy, Awaited
<1>11. CASE Elsewhere
  BY <1>2, <1>11 DEF Elsewhere, Expire, RevokeAllSessions, clientVars
<1> QED BY <1>4, <1>5, <1>6, <1>7, <1>8, <1>9, <1>10, <1>11 DEF ClientNext, Receive

-----------------------------------------------------------------------------
LEMMA InitClientInv == ClientInit => ClientInv
<1> SUFFICES ASSUME ClientInit PROVE ClientInv
  OBVIOUS
<1>1. ServerInv
  BY InitServerInv DEF ClientInit
<1>2. IdleCall \in Call
  BY TabsAssumption DEF IdleCall, Call
<1>3. ClientTypeOK
  BY <1>1, <1>2 DEF ClientInit, ClientTypeOK, ServerInv
<1>4. Exclusive
  BY DEF ClientInit, Exclusive
<1> QED BY <1>1, <1>3, <1>4 DEF ClientInv

LEMMA NextClientInv == ClientInv /\ [ClientNext]_vars => ClientInv'
<1> SUFFICES ASSUME ClientInv, [ClientNext]_vars PROVE ClientInv'
  OBVIOUS
<1>1. CASE ClientNext
  <2>1. ServerInv' /\ Rows \subseteq Rows'
    BY <1>1, ClientStepsAreSessionsSteps, SessionsKeep DEF ClientInv
  <2>2. SessionsTypeOK'
    BY <2>1 DEF ServerInv
  <2>3. /\ store' \in Rows' \cup {None} /\ saved' \in BOOLEAN
        /\ user' \in [Tabs -> BOOLEAN]  /\ call' \in [Calls -> Call]
    BY <1>1, <2>1, <2>2, LocalTypes
  <2>4. Awaited'
    BY <1>1, AwaitTypes
  <2> QED BY <2>1, <2>2, <2>3, <2>4 DEF ClientInv, ClientTypeOK, Awaited, Busy
<1>2. CASE UNCHANGED vars
  BY <1>2 DEF vars, sessionVars, clientVars, localVars, ClientInv, ServerInv, ClientTypeOK,
     SessionsTypeOK, Exclusive, Ancestry, TokensAreRows, ExchangedIsRevoked, Successors,
     Busy, Rows
<1> QED BY <1>1, <1>2

LEMMA ClientInvariance == ClientSpec => []ClientInv
BY InitClientInv, NextClientInv, PTL DEF ClientSpec

(***************************************************************************)
(* Tables, tokens, pages and calls are well typed; what a page awaits is   *)
(* an exchange in flight.                                                  *)
(***************************************************************************)
THEOREM ClientTypeCorrect == ClientSpec => []ClientTypeOK
BY ClientInvariance, PTL DEF ClientInv

(***************************************************************************)
(* "Invalidating the old one" (rotate_session): whatever the pages do and  *)
(* whatever is lost, a session that has been exchanged stays revoked.      *)
(***************************************************************************)
THEOREM ExchangedStaysRevoked == ClientSpec => []ExchangedIsRevoked
BY ClientInvariance, PTL DEF ClientInv, ServerInv

-----------------------------------------------------------------------------
(***************************************************************************)
(* One page, which is not left while it refreshes.  The argument: a token  *)
(* is sent for exchange while nothing is awaited, and then either the page *)
(* gets the successor or it drops the token.  So there is at most one      *)
(* exchange of a token, and none of one that has a successor.              *)
(***************************************************************************)
OnePage == (\E t : Tabs = {t}) /\ "abandon" \notin Faults

Answer(x) == rotation[x].phase = "answered" /\ rotation[x].new # None

\* Nothing is exchanged twice, in the table or on the way to it.
Single ==
  /\ \A x \in Slots : Active(x) => Successors(rotation[x].token) = {}
  /\ \A x, y \in Slots : Active(x) /\ Active(y) /\ rotation[x].token = rotation[y].token => x = y

\* The token in localStorage is exchanged, or has been, only for the page.
StoreIsAwaited ==
  store # None =>
    \A x \in Slots : Busy(x) /\ rotation[x].token = store => \E t \in Tabs : refreshing[t] = x

\* Nobody has used a token that is still on its way to the page.
AnswersAreFresh ==
  /\ \A x \in Slots : Answer(x) =>
       /\ rotation[x].new # store
       /\ Successors(rotation[x].new) = {}
       /\ \A y \in Slots : Busy(y) => rotation[y].token # rotation[x].new
  /\ \A x, y \in Slots : Answer(x) /\ Answer(y) /\ rotation[x].new = rotation[y].new => x = y

ChainInv == Single /\ StoreIsAwaited /\ AnswersAreFresh /\ HoldsNewest /\ ExchangedOnce

LEMMA InitChainInv == ClientInit => ChainInv
BY DEF ClientInit, SessionsInit, ChainInv, Single, StoreIsAwaited, AnswersAreFresh,
       HoldsNewest, ExchangedOnce, Active, Answer, Busy, NoRotation, Rows

\* The exchanges are left alone, and the token is kept or dropped.
LEMMA ChainFrame ==
  ASSUME ChainInv, UNCHANGED <<last, parent_id, rotation>>,
         store' = None \/ UNCHANGED <<store, refreshing>>
  PROVE  ChainInv'
<1>1. Rows' = Rows /\ \A s : Successors(s)' = Successors(s)
  BY DEF Rows, Successors
<1>2. Single' /\ ExchangedOnce'
  BY <1>1 DEF ChainInv, Single, ExchangedOnce, Active
<1>3. StoreIsAwaited' /\ HoldsNewest'
  BY <1>1 DEF ChainInv, StoreIsAwaited, HoldsNewest, Busy
<1>4. AnswersAreFresh'
  BY <1>1 DEF ChainInv, AnswersAreFresh, Answer, Busy
<1> QED BY <1>2, <1>3, <1>4 DEF ChainInv

\* An exchange changes its phase and may be refused.
LEMMA ChainPhase ==
  ASSUME ChainInv, SessionsTypeOK, NEW x \in Slots,
         RotateReused(x) \/ RotateRefused(x) \/ RotateLoad(x) \/ RotateFail(x),
         UNCHANGED <<store, refreshing>>, refreshing \in [Tabs -> Slots \cup {None}]
  PROVE  ChainInv'
<1>1. PICK phase \in {"loaded", "answered"}, new \in SessionIds \cup {None} :
        /\ Active(x)
        /\ rotation' = [rotation EXCEPT ![x].phase = phase, ![x].new = new]
        /\ phase = "answered" => new = None
        /\ UNCHANGED <<last, parent_id>>
  <2>1. CASE RotateLoad(x)
    <3>1. rotation' = [rotation EXCEPT ![x].phase = "loaded", ![x].new = rotation[x].new]
      BY <2>1 DEF RotateLoad, SessionsTypeOK, Rotation
    <3>2. Active(x) /\ UNCHANGED <<last, parent_id>>
      BY <2>1 DEF RotateLoad, Active
    <3>3. "loaded" \in {"loaded", "answered"} /\ "loaded" # "answered"
      OBVIOUS
    <3>4. rotation[x].new \in SessionIds \cup {None}
      BY DEF SessionsTypeOK, Rotation
    <3> QED BY <3>1, <3>2, <3>3, <3>4
  <2>2. CASE RotateReused(x) \/ RotateRefused(x) \/ RotateFail(x)
    BY <2>2 DEF RotateReused, RotateRefused, RotateFail, Answered, Active
  <2> QED BY <2>1, <2>2
<1>2. /\ \A y \in Slots : /\ Active(y)' => Active(y)
                          /\ Busy(y)' => Busy(y)
                          /\ Answer(y)' => Answer(y)
                          /\ rotation'[y].token = rotation[y].token
                          /\ Answer(y)' => rotation'[y].new = rotation[y].new
  BY <1>1 DEF SessionsTypeOK, Rotation, Active, Busy, Answer
<1>3. Rows' = Rows /\ \A s : Successors(s)' = Successors(s)
  BY <1>1 DEF Rows, Successors
<1>4. Single' /\ ExchangedOnce'
  BY <1>1, <1>2, <1>3 DEF ChainInv, Single, ExchangedOnce
<1>5. StoreIsAwaited'
  BY <1>2 DEF ChainInv, StoreIsAwaited
<1>6. AnswersAreFresh'
  BY <1>2, <1>3 DEF ChainInv, AnswersAreFresh
<1>7. HoldsNewest'
  <2> SUFFICES ASSUME store' # None, Successors(store)' # {}
               PROVE  \E t \in Tabs : refreshing'[t] # None
                                      /\ rotation'[refreshing'[t]].token = store'
    BY DEF HoldsNewest
  <2>1. PICK t \in Tabs : refreshing[t] # None /\ rotation[refreshing[t]].token = store
    BY <1>3 DEF ChainInv, HoldsNewest
  <2>2. refreshing[t] \in Slots
    BY <2>1
  <2> QED BY <2>1, <2>2, <1>2
<1> QED BY <1>4, <1>5, <1>6, <1>7 DEF ChainInv

\* An exchange commits: the successor is new to everybody.
LEMMA ChainCommit ==
  ASSUME ChainInv, ServerInv, NEW x \in Slots, RotateCommit(x),
         UNCHANGED <<store, refreshing>>, refreshing \in [Tabs -> Slots \cup {None}],
         store \in Rows \cup {None}
  PROVE  ChainInv'
<1> DEFINE s == rotation[x].token
           n == last + 1
           After(r) == {m \in Rows' : parent_id'[m] = r}
<1>1. /\ Active(x) /\ Busy(x)
      /\ rotation' = [rotation EXCEPT ![x].phase = "answered", ![x].new = n]
      /\ last < MaxSessions /\ last' = n
      /\ parent_id' = [parent_id EXCEPT ![n] = s]
  BY DEF RotateCommit, Active, Busy, Answered, IssueSession
<1>2. /\ last \in Nat /\ n \in SessionIds /\ n \notin Rows /\ n # None /\ Rows' = Rows \cup {n}
      /\ s \in Rows /\ s # None /\ Rows \subseteq SessionIds
      /\ rotation \in [Slots -> Rotation]
      /\ parent_id \in [SessionIds -> SessionIds \cup {None}]
  BY <1>1, MaxSessionsAssumption
     DEF ServerInv, SessionsTypeOK, TokensAreRows, SessionIds, Rows, None
<1>3. /\ \A r \in Rows : parent_id'[r] = parent_id[r]
      /\ parent_id'[n] = s
  BY <1>1, <1>2
<1> HIDE DEF s, n
<1>4. \A r : r # s => After(r) = Successors(r)
  BY <1>2, <1>3 DEF Successors
<1>5. Successors(n) = {}
  BY <1>2 DEF ServerInv, Ancestry, Successors, Rows, s, n
<1>6. /\ \A y \in Slots : rotation'[y].token = rotation[y].token
      /\ \A y \in Slots : y # x => rotation'[y] = rotation[y]
      /\ rotation'[x].phase = "answered" /\ rotation'[x].new = n
  BY <1>1, <1>2 DEF Rotation
<1>7. \A y \in Slots : Busy(y)' <=> Busy(y)
  BY <1>6, <1>1 DEF Busy
<1>8. \A y \in Slots : Active(y)' => y # x /\ Active(y) /\ rotation[y].token # s
  BY <1>1, <1>6 DEF Active, ChainInv, Single, s
<1>9. Single'
  BY <1>4, <1>6, <1>8 DEF ChainInv, Single, Successors
<1>10. ExchangedOnce'
  <2>1. Successors(s) = {}
    BY <1>1 DEF ChainInv, Single, s
  <2> QED BY <2>1, <1>2, <1>3 DEF ChainInv, ExchangedOnce, Successors
<1>11. StoreIsAwaited'
  BY <1>6, <1>7 DEF ChainInv, StoreIsAwaited
<1>12. AnswersAreFresh'
  <2>1. \A y \in Slots : Answer(y)' => y = x \/ (Answer(y) /\ rotation'[y].new = rotation[y].new)
    BY <1>6 DEF Answer
  <2>2. \A y \in Slots : Busy(y) => rotation[y].token # n
    BY <1>2 DEF ServerInv, TokensAreRows
  <2>3. \A y \in Slots : Answer(y) => rotation[y].new \in Rows
    BY DEF Answer, Busy, ServerInv, TokensAreRows
  <2>4. \A y \in Slots : Answer(y) => rotation[y].new # s
    BY <1>1 DEF ChainInv, AnswersAreFresh, s
  <2>5. n # store /\ n # s
    BY <1>2
  <2>6. \A y \in Slots : Answer(y)' =>
          /\ rotation'[y].new # store
          /\ After(rotation'[y].new) = {}
          /\ \A z \in Slots : Busy(z) => rotation[z].token # rotation'[y].new
    <3> TAKE y \in Slots
    <3> HAVE Answer(y)'
    <3>1. CASE y = x
      BY <3>1, <1>4, <1>5, <1>6, <2>2, <2>5
    <3>2. CASE Answer(y) /\ rotation'[y].new = rotation[y].new
      <4>1. /\ rotation[y].new # s
            /\ rotation[y].new # store
            /\ Successors(rotation[y].new) = {}
            /\ \A z \in Slots : Busy(z) => rotation[z].token # rotation[y].new
        BY <3>2, <2>4 DEF ChainInv, AnswersAreFresh
      <4> QED BY <3>2, <4>1, <1>4
    <3> QED BY <2>1, <3>1, <3>2
  <2>7. \A y, z \in Slots : Answer(y)' /\ Answer(z)' /\ rotation'[y].new = rotation'[z].new => y = z
    BY <2>1, <2>3, <1>2, <1>6 DEF ChainInv, AnswersAreFresh
  <2> QED BY <2>6, <2>7, <1>6, <1>7 DEF AnswersAreFresh, Successors
<1>13. HoldsNewest'
  <2> SUFFICES ASSUME store # None, After(store) # {}
               PROVE  \E t \in Tabs : refreshing[t] # None
                                      /\ rotation'[refreshing[t]].token = store
    BY DEF HoldsNewest, Successors
  <2>1. \E t \in Tabs : refreshing[t] # None /\ rotation[refreshing[t]].token = store
    <3>1. CASE store = s
      BY <3>1, <1>1, SlotsAssumption DEF ChainInv, StoreIsAwaited, s
    <3>2. CASE store # s
      BY <3>2, <1>4 DEF ChainInv, HoldsNewest
    <3> QED BY <3>1, <3>2
  <2>2. PICK t \in Tabs : refreshing[t] # None /\ rotation[refreshing[t]].token = store
    BY <2>1
  <2>3. refreshing[t] \in Slots
    BY <2>2
  <2> QED BY <2>2, <2>3, <1>6
<1> QED BY <1>9, <1>10, <1>11, <1>12, <1>13 DEF ChainInv

\* A page that awaits nothing sends the token it has.
LEMMA ChainSend ==
  ASSUME ChainInv, ServerInv, ClientTypeOK, OnePage,
         NEW t \in Tabs, refreshing[t] = None, store # None,
         NEW x \in Slots, RotateSend(x, store), refreshing' = [refreshing EXCEPT ![t] = x],
         UNCHANGED <<last, parent_id, store>>
  PROVE  ChainInv'
<1>1. /\ ~Busy(x) /\ x # None
      /\ rotation \in [Slots -> Rotation]
      /\ rotation' = [rotation EXCEPT ![x] = [phase |-> "sent", token |-> store, new |-> None]]
      /\ Tabs = {t} /\ refreshing'[t] = x
  BY SlotsAssumption DEF RotateSend, Busy, OnePage, ServerInv, SessionsTypeOK, ClientTypeOK
<1>2. /\ rotation'[x].token = store /\ Active(x)' /\ Busy(x)' /\ ~Answer(x)'
      /\ \A y \in Slots : y # x => rotation'[y] = rotation[y]
  BY <1>1 DEF Active, Busy, Answer
<1>3. \A y \in Slots : y # x => /\ (Active(y)' <=> Active(y)) /\ (Busy(y)' <=> Busy(y))
                                /\ (Answer(y)' <=> Answer(y))
  BY <1>2 DEF Active, Busy, Answer
<1>4. Rows' = Rows /\ \A s : Successors(s)' = Successors(s)
  BY DEF Rows, Successors
<1>5. Successors(store) = {}
  BY <1>1 DEF ChainInv, HoldsNewest
<1>6. \A y \in Slots : Busy(y) => rotation[y].token # store
  BY <1>1, SlotsAssumption DEF ChainInv, StoreIsAwaited
<1>7. Single'
  <2>1. \A y \in Slots : Active(y)' => Successors(rotation'[y].token) = {}
    BY <1>2, <1>3, <1>5 DEF ChainInv, Single
  <2>2. \A y, z \in Slots :
          Active(y)' /\ Active(z)' /\ rotation'[y].token = rotation'[z].token => y = z
    BY <1>2, <1>3, <1>6 DEF ChainInv, Single, Active, Busy
  <2> QED BY <2>1, <2>2, <1>4 DEF Single, Successors
<1>8. StoreIsAwaited'
  BY <1>1, <1>2, <1>3, <1>6 DEF StoreIsAwaited
<1>9. AnswersAreFresh'
  BY <1>2, <1>3, <1>4 DEF ChainInv, AnswersAreFresh, Successors
<1>10. HoldsNewest'
  BY <1>1, <1>2 DEF HoldsNewest
<1>11. ExchangedOnce'
  BY <1>4 DEF ChainInv, ExchangedOnce
<1> QED BY <1>7, <1>8, <1>9, <1>10, <1>11 DEF ChainInv

\* An answer arrives: the page has the successor, nothing, or it was not waiting.
LEMMA ChainAnswer ==
  ASSUME ChainInv, ServerInv, ClientTypeOK, OnePage,
         NEW x \in Slots, rotation[x].phase = "answered",
         rotation' = [rotation EXCEPT ![x] = NoRotation],
         UNCHANGED <<last, parent_id>>,
         \/ Answer(x) /\ store' = rotation[x].new
         \/ store' = None
         \/ UNCHANGED <<store, refreshing>> /\ \A t \in Tabs : refreshing[t] # x
  PROVE  ChainInv'
<1>1. /\ rotation \in [Slots -> Rotation] /\ refreshing \in [Tabs -> Slots \cup {None}]
      /\ ~Busy(x)' /\ \A y \in Slots : y # x => rotation'[y] = rotation[y]
  BY DEF ServerInv, SessionsTypeOK, ClientTypeOK, Busy, NoRotation
<1>2. \A y \in Slots : /\ Busy(y)' => y # x /\ Busy(y)
                       /\ Active(y)' => y # x /\ Active(y)
                       /\ Answer(y)' => y # x /\ Answer(y)
  BY <1>1 DEF Active, Busy, Answer
<1>3. Rows' = Rows /\ \A s : Successors(s)' = Successors(s)
  BY DEF Rows, Successors
<1>4. Single' /\ ExchangedOnce'
  BY <1>1, <1>2, <1>3 DEF ChainInv, Single, ExchangedOnce, Successors
<1>5. StoreIsAwaited'
  <2>1. CASE Answer(x) /\ store' = rotation[x].new
    BY <2>1, <1>1, <1>2 DEF ChainInv, AnswersAreFresh, StoreIsAwaited
  <2>2. CASE UNCHANGED <<store, refreshing>>
    BY <2>2, <1>1, <1>2 DEF ChainInv, StoreIsAwaited
  <2> QED BY <2>1, <2>2 DEF StoreIsAwaited
<1>6. HoldsNewest'
  <2>1. CASE Answer(x) /\ store' = rotation[x].new
    BY <2>1, <1>3 DEF ChainInv, AnswersAreFresh, HoldsNewest, Successors
  <2>2. CASE UNCHANGED <<store, refreshing>> /\ \A t \in Tabs : refreshing[t] # x
    BY <2>2, <1>1, <1>3 DEF ChainInv, HoldsNewest, Successors
  <2> QED BY <2>1, <2>2 DEF HoldsNewest
<1>7. AnswersAreFresh'
  <2>1. \A y \in Slots : Answer(y)' => rotation[y].new # store'
    BY <1>2 DEF ChainInv, AnswersAreFresh, Answer
  <2> QED BY <2>1, <1>1, <1>2, <1>3 DEF ChainInv, AnswersAreFresh, Successors
<1> QED BY <1>4, <1>5, <1>6, <1>7 DEF ChainInv

\* The user signs in: the session is new.
LEMMA ChainSignIn ==
  ASSUME ChainInv, ServerInv, NEW t \in Tabs, SignIn(t)
  PROVE  ChainInv'
<1> DEFINE n == last + 1
           After(r) == {m \in Rows' : parent_id'[m] = r}
<1>1. /\ last < MaxSessions /\ last' = n /\ parent_id' = [parent_id EXCEPT ![n] = None]
      /\ store' = n /\ UNCHANGED <<rotation, refreshing>>
  BY DEF SignIn, Login, IssueSession
<1>2. /\ n \in SessionIds /\ n \notin Rows /\ n # None /\ Rows' = Rows \cup {n}
      /\ Rows \subseteq SessionIds /\ None \notin Rows
      /\ parent_id \in [SessionIds -> SessionIds \cup {None}]
  BY <1>1, MaxSessionsAssumption DEF ServerInv, SessionsTypeOK, SessionIds, Rows, None
<1>3. \A r : r # None => After(r) = Successors(r)
  BY <1>1, <1>2 DEF Successors
<1>4. Successors(n) = {}
  BY <1>2, MaxSessionsAssumption DEF ServerInv, SessionsTypeOK, Ancestry, Successors, Rows
<1> HIDE DEF n
<1>5. \A x \in Slots : /\ Busy(x) => rotation[x].token \in Rows
                       /\ Answer(x) => rotation[x].new \in Rows
  BY DEF ServerInv, TokensAreRows, Answer, Busy
<1>6. /\ \A x \in Slots : Active(x) => Busy(x)
      /\ \A x \in Slots : (Active(x)' <=> Active(x)) /\ (Busy(x)' <=> Busy(x))
                          /\ (Answer(x)' <=> Answer(x))
  BY <1>1 DEF Active, Busy, Answer
<1>7. Single'
  BY <1>1, <1>2, <1>3, <1>5, <1>6 DEF ChainInv, Single, Successors
<1>8. StoreIsAwaited'
  BY <1>1, <1>2, <1>5, <1>6 DEF StoreIsAwaited
<1>9. AnswersAreFresh'
  BY <1>1, <1>2, <1>3, <1>5, <1>6 DEF ChainInv, AnswersAreFresh, Successors
<1>10. HoldsNewest'
  BY <1>1, <1>2, <1>3, <1>4 DEF HoldsNewest, Successors
<1>11. ExchangedOnce'
  BY <1>1, <1>2 DEF ChainInv, ExchangedOnce
<1> QED BY <1>7, <1>8, <1>9, <1>10, <1>11 DEF ChainInv

LEMMA NextChainInv ==
  ASSUME ClientInv, ChainInv, OnePage, [ClientNext]_vars
  PROVE  ChainInv'
<1>0. /\ ServerInv /\ ClientTypeOK /\ SessionsTypeOK
      /\ refreshing \in [Tabs -> Slots \cup {None}] /\ store \in Rows \cup {None}
  BY DEF ClientInv, ServerInv, ClientTypeOK
<1>1. CASE \E t \in Tabs : SignIn(t)
  BY <1>0, <1>1, ChainSignIn
<1>2. CASE \E t \in Tabs : \/ LogoutLocally(t)
                           \/ LoseRefresh(t)
                           \/ \E c \in Calls, kind \in Kinds : Send(c, t, kind)
  BY <1>2, ChainFrame DEF LogoutLocally, LoseRefresh, StopAwaiting, FailWaiting, ClearSession,
     Send, sessionVars, localVars
<1>3. CASE \E t \in Tabs : Reload(t)
  <2>1. PICK t \in Tabs : Reload(t)
    BY <1>3
  <2>2. refreshing[t] = None /\ refreshing' = [refreshing EXCEPT ![t] = None]
    BY <2>1 DEF Reload, OnePage, Forget
  <2>3. refreshing' = refreshing
    BY <2>2, <1>0
  <2> QED BY <2>1, <2>3, ChainFrame DEF Reload, sessionVars
<1>4. CASE \E t \in Tabs : Refreshed(t) \/ RefreshRefused(t)
  <2>1. PICK t \in Tabs : Refreshed(t) \/ RefreshRefused(t)
    BY <1>4
  <2>2. PICK x \in Slots : x = refreshing[t]
    BY <2>1, <1>0 DEF Refreshed, RefreshRefused
  <2>3. /\ rotation[x].phase = "answered"
        /\ rotation' = [rotation EXCEPT ![x] = NoRotation]
        /\ UNCHANGED <<last, parent_id>>
        /\ (Answer(x) /\ store' = rotation[x].new) \/ store' = None
    BY <2>1, <2>2 DEF Refreshed, RefreshRefused, StopAwaiting, FailWaiting, ClearSession, Answer
  <2> QED BY <2>3, <1>0, ChainAnswer
<1>5. CASE \E c \in Calls : Serve(c) \/ Succeed(c) \/ GiveUp(c) \/ LoseCall(c)
  <2>1. UNCHANGED <<last, parent_id, rotation, refreshing>>
    BY <1>5 DEF Serve, ServeDenied, ServeApi, ServeLogoutAll, ServeLogout, Moved, RevokeSession,
       RevokeAllSessions, Succeed, GiveUp, LoseCall, FinishLogout, FinishProfile,
       FinishQuietly, sessionVars
  <2>2. store' = None \/ store' = store
    BY <1>5 DEF Serve, ServeDenied, ServeApi, ServeLogoutAll, ServeLogout, Moved, Succeed,
       GiveUp, LoseCall, FinishLogout, FinishProfile, FinishQuietly, ClearSession, localVars
  <2> QED BY <2>1, <2>2, ChainFrame
<1>6. CASE \E c \in Calls : AwaitRefresh(c)
  <2>1. PICK c \in Calls : AwaitRefresh(c)
    BY <1>6
  <2>2. UNCHANGED <<last, parent_id, store>> /\ store # None /\ call[c].tab \in Tabs
    BY <2>1, <1>0 DEF AwaitRefresh, localVars, ClientTypeOK, Call
  <2>3. CASE MustStart(call[c].tab)
    <3>1. PICK t \in Tabs, x \in Slots :
            /\ refreshing[t] = None /\ RotateSend(x, store)
            /\ refreshing' = [refreshing EXCEPT ![t] = x]
      BY <2>1, <2>2, <2>3 DEF AwaitRefresh, MustStart
    <3> QED BY <3>1, <2>2, <1>0, ChainSend
  <2>4. CASE ~MustStart(call[c].tab)
    BY <2>1, <2>2, <2>4, ChainFrame DEF AwaitRefresh
  <2> QED BY <2>3, <2>4
<1>7. CASE \E x \in Slots : Server(x)
  <2>1. PICK x \in Slots : Rotate(x) \/ RotateFail(x)
    BY <1>7 DEF Server
  <2>2. UNCHANGED <<store, refreshing>>
    BY <1>7 DEF Server, clientVars, localVars
  <2>3. CASE RotateCommit(x)
    BY <2>2, <2>3, <1>0, ChainCommit
  <2>4. CASE RotateReused(x) \/ RotateRefused(x) \/ RotateLoad(x) \/ RotateFail(x)
    BY <2>2, <2>4, <1>0, ChainPhase
  <2> QED BY <2>1, <2>3, <2>4 DEF Rotate
<1>8. CASE \E x \in Slots : Discard(x)
  <2>1. PICK x \in Slots : Discard(x)
    BY <1>8
  <2>2. /\ rotation[x].phase = "answered"
        /\ rotation' = [rotation EXCEPT ![x] = NoRotation]
        /\ UNCHANGED <<last, parent_id, store, refreshing>>
        /\ \A t \in Tabs : refreshing[t] # x
    BY <2>1 DEF Discard, clientVars, localVars
  <2> QED BY <2>2, <1>0, ChainAnswer
<1>9. CASE Elsewhere \/ UNCHANGED vars
  BY <1>9, ChainFrame DEF Elsewhere, Expire, RevokeAllSessions, vars, sessionVars, clientVars,
     localVars
<1> QED BY <1>1, <1>2, <1>3, <1>4, <1>5, <1>6, <1>7, <1>8, <1>9
        DEF ClientNext, Settled, Receive

LEMMA ChainInvariance == OnePage => (ClientSpec => [](ClientInv /\ ChainInv))
<1> SUFFICES ASSUME OnePage
             PROVE  ClientSpec => [](ClientInv /\ ChainInv)
  OBVIOUS
<1>1. ClientInit => ClientInv /\ ChainInv
  BY InitClientInv, InitChainInv
<1>2. ClientInv /\ ChainInv /\ [ClientNext]_vars => (ClientInv /\ ChainInv)'
  BY NextClientInv, NextChainInv
<1> QED BY <1>1, <1>2, PTL DEF ClientSpec

(***************************************************************************)
(* "Everyone awaits the same refresh": one page, however many calls it     *)
(* makes and whatever is lost, never has a token exchanged twice.          *)
(***************************************************************************)
THEOREM TokensAreExchangedOnce == OnePage => (ClientSpec => []ExchangedOnce)
BY ChainInvariance, PTL DEF ChainInv

(***************************************************************************)
(* The page never keeps a token that has been exchanged: it gets the       *)
(* successor, or it has nothing.                                           *)
(***************************************************************************)
THEOREM PageHoldsNewest == OnePage => (ClientSpec => []HoldsNewest)
BY ChainInvariance, PTL DEF ChainInv
=============================================================================
