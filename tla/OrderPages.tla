------------------------------ MODULE OrderPages ------------------------------
(***************************************************************************)
(* A customer watching bookings: the list (app/orders/page.tsx) or one     *)
(* order (app/orders/[id]/page.tsx), kept up to date by usePolling, and    *)
(* the prompt for a rating (ReviewDialog.tsx).  The bookings move on the   *)
(* server meanwhile; answers may be late, overtake each other or get lost. *)
(*                                                                         *)
(* A visit is to one page, and lasts.  A step of the page is one task of   *)
(* the event loop with the render and the effects that follow it.  Of a    *)
(* booking the pages' logic looks at its status and whether it is reviewed.*)
(***************************************************************************)
EXTENDS Lifecycle, Integers

CONSTANTS Bookings,  \* the customer's bookings, numbered in order of creation
          Start,     \* the statuses they may have when each page is opened
          Gets,      \* bound: slots for polls in flight
          MaxLost,   \* bound on requests that get lost
          HasRoom    \* whether localStorage takes one more key

Pages == {"orders", "order"}

ASSUME BookingsAssumption ==
  Bookings \subseteq Nat /\ Bookings # {} /\ None \notin Bookings

ASSUME StartAssumption == Start \in [Pages -> SUBSET BookingStatus]

ASSUME BoundsAssumption == HasRoom \in BOOLEAN /\ MaxLost \in Nat

VARIABLES status, reviewed,  \* what the server has
          page, watched,     \* the page that is open and the bookings it shows
          visible,           \* document.visibilityState
          shown,             \* the bookings the page renders
          get, post,         \* polls in flight; the customer's own request
          rating,            \* the booking whose rating dialog is open
          dismissed,         \* sajilo.review-dismissed.* in localStorage
          waved,             \* prompts waved away during this visit
          lost               \* how many requests were lost

serverVars == <<status, reviewed>>
visitVars == <<page, watched>>
promptVars == <<rating, dismissed, waved>>
vars == <<serverVars, visitVars, visible, shown, get, post, promptVars, lost>>

View == [status : BookingStatus, reviewed : BOOLEAN]
Nothing == [status |-> "absent", reviewed |-> FALSE]
Views == [Bookings -> View \cup {Nothing}]
Blank == [b \in Bookings |-> Nothing]

\* first: it is the load of the list's effect, whose failure empties the list.
Get == [phase : {"idle", "sent", "answered"}, first : BOOLEAN, views : Views]
IdleGet == [phase |-> "idle", first |-> FALSE, views |-> Blank]
SentGet == [IdleGet EXCEPT !.phase = "sent"]
FirstGet == [SentGet EXCEPT !.first = (page = "orders")]

Post == [phase : {"idle", "sent", "done", "refused"},
         op : {"cancel", "review"}, booking : Bookings, view : View \cup {Nothing}]
IdlePost == [phase |-> "idle", op |-> "cancel",
             booking |-> CHOOSE b \in Bookings : TRUE, view |-> Nothing]

PagesTypeOK ==
  /\ status \in [Bookings -> BookingStatus]
  /\ reviewed \in [Bookings -> BOOLEAN]
  /\ page \in Pages /\ watched \subseteq Bookings
  /\ visible \in BOOLEAN
  /\ shown \in Views
  /\ get \in [Gets -> Get]
  /\ post \in Post
  /\ rating \in Bookings \cup {None}
  /\ dismissed \subseteq Bookings /\ waved \subseteq Bookings
  /\ lost \in 0..MaxLost

\* The page is opened; its first load has been sent.
PagesInit ==
  /\ page \in Pages
  /\ IF page = "orders" THEN watched = Bookings
                        ELSE watched \in {{b} : b \in Bookings}
  /\ status \in [Bookings -> Start[page]]
  /\ reviewed = [b \in Bookings |-> FALSE]
  /\ visible = TRUE
  /\ shown = Blank
  /\ LET slot == CHOOSE g \in Gets : TRUE IN
       get = [g \in Gets |-> IF g = slot THEN FirstGet ELSE IdleGet]
  /\ post = IdlePost
  /\ rating = None /\ dismissed = {} /\ waved = {}
  /\ lost = 0

-----------------------------------------------------------------------------
\* What the server answers about the bookings the page asks for.
Now == [b \in Bookings |-> IF b \in watched
                             THEN [status |-> status[b], reviewed |-> reviewed[b]]
                             ELSE Nothing]

ByOthers == {"assign", "claim", "accept", "reject", "start_travel", "start_work",
             "cancel"}

\* Somebody moves a booking along; a finished job that was paid closes.  The
\* requests are those of Bookings, which take effect at once: a stale commit,
\* as in BookingTxn, which may take a finished job back, is not among them.
ServerMoves(b) ==
  /\ b \in watched
  /\ \/ \E action \in ByOthers :
          /\ Allowed(action, status[b])
          /\ status' = [status EXCEPT ![b] = BOOKING_TRANSITIONS[action].to]
     \/ /\ Allowed("complete", status[b])
        /\ \E to \in REVIEWABLE_STATUSES : status' = [status EXCEPT ![b] = to]
  /\ UNCHANGED <<reviewed, visitVars, visible, shown, get, post, promptVars, lost>>

\* submit_review and what it does to an unpaid job.
Reviewed(b) ==
  /\ status[b] \in REVIEWABLE_STATUSES /\ ~reviewed[b]
  /\ reviewed' = [reviewed EXCEPT ![b] = TRUE]
  /\ status' = [status EXCEPT ![b] = "closed"]

\* The customer rates the job on another device.
ReviewedElsewhere(b) ==
  /\ b \in watched
  /\ Reviewed(b)
  /\ UNCHANGED <<visitVars, visible, shown, get, post, promptVars, lost>>

-----------------------------------------------------------------------------
\* Mutant: a finished job is not expected to move any more.
LIVE_STATUSES_NoCompleted ==
  {"pending", "assigned", "accepted", "en_route", "in_progress"}

\* A booking can still move without the viewer doing anything.
LIVE_STATUSES ==
  {"pending", "assigned", "accepted", "en_route", "in_progress", "completed"}

Loaded == \E b \in watched : shown[b] # Nothing

\* Mutant: the list polls only while something on it is live.
Enabled_WhileLive == \E b \in watched : shown[b].status \in LIVE_STATUSES

\* The argument `enabled` of usePolling.
Enabled == page = "orders" \/ \E b \in watched : shown[b].status \in LIVE_STATUSES

\* Mutant: whatever has ended can be rated.
NeedsReview_Ended(view) == view.status \in {"closed", "cancelled"} /\ ~view.reviewed

\* A finished job has a worker, so needsReview's last condition holds.
NeedsReview(view) == view.status \in REVIEWABLE_STATUSES /\ ~view.reviewed

\* Mutant: the dismissal is not looked up.
WasDismissed_Never(b, gone) == FALSE

WasDismissed(b, gone) == b \in gone

\* What is in localStorage after a dismissal: setItem throws once the quota of
\* the origin is used up.  The tokens are there already and are replaced by as
\* long ones, so that the customer stays signed in.
Dismissed(b) == IF HasRoom THEN dismissed \cup {b} ELSE dismissed

Unrated(views, gone) ==
  {b \in Bookings : NeedsReview(views[b]) /\ ~WasDismissed(b, gone)}

Oldest(S) == CHOOSE b \in S : \A c \in S : b <= c

(***************************************************************************)
(* The prompt after a render: `open` is the dialog before the effects and  *)
(* `news` whether the booking of the page is a new object.  The list asks  *)
(* for the oldest unrated job whenever no dialog is open; the order asks   *)
(* whenever it is handed a booking.                                        *)
(***************************************************************************)
Prompt(open, views, gone, news) ==
  LET due == Unrated(views, gone) IN
    IF due # {} /\ (IF page = "orders" THEN open = None ELSE news)
      THEN Oldest(due)
      ELSE open

\* setBooking, setBookings: new data is rendered.
Render(open, views) ==
  /\ shown' = views
  /\ rating' = Prompt(open, views, dismissed, TRUE)
  /\ UNCHANGED <<dismissed, waved>>

-----------------------------------------------------------------------------
\* The interval fires.
Poll(g) ==
  /\ visible /\ Enabled
  /\ get[g].phase = "idle"
  /\ get' = [get EXCEPT ![g] = SentGet]
  /\ UNCHANGED <<serverVars, visitVars, visible, shown, post, promptVars, lost>>

\* The tab is hidden: the timer stops.
Hide ==
  /\ visible /\ visible' = FALSE
  /\ UNCHANGED <<serverVars, visitVars, shown, get, post, promptVars, lost>>

\* The tab comes back: it refetches at once, if it polls at all.
Show ==
  /\ ~visible /\ visible' = TRUE
  /\ \/ ~Enabled /\ UNCHANGED get
     \/ \E g \in Gets : /\ Enabled /\ get[g].phase = "idle"
                        /\ get' = [get EXCEPT ![g] = SentGet]
  /\ UNCHANGED <<serverVars, visitVars, shown, post, promptVars, lost>>

\* GET /bookings or /bookings/{id} is served.
ServeGet(g) ==
  /\ get[g].phase = "sent"
  /\ get' = [get EXCEPT ![g] = [@ EXCEPT !.phase = "answered", !.views = Now]]
  /\ UNCHANGED <<serverVars, visitVars, visible, shown, post, promptVars, lost>>

\* Its answer arrives, perhaps after younger ones.
ReceiveGet(g) ==
  /\ get[g].phase = "answered"
  /\ get' = [get EXCEPT ![g] = IdleGet]
  /\ Render(rating, get[g].views)
  /\ UNCHANGED <<serverVars, visitVars, visible, post, lost>>

\* It fails: the order shows an error, the list goes on, but empty if it was
\* the first load, even one that fails after a poll has filled the list.
LoseGet(g) ==
  /\ get[g].phase # "idle" /\ lost < MaxLost
  /\ lost' = lost + 1
  /\ get' = [get EXCEPT ![g] = IdleGet]
  /\ IF get[g].first
       THEN Render(rating, Blank)
       ELSE UNCHANGED <<shown, promptVars>>
  /\ UNCHANGED <<serverVars, visitVars, visible, post>>

-----------------------------------------------------------------------------
\* The dialog is on the screen: an empty list is rendered without it.
Asking == rating # None /\ Loaded

\* The customer waves the prompt away: "Not now", Escape, a click outside.
Later ==
  /\ Asking
  /\ dismissed' = Dismissed(rating)
  /\ waved' = waved \cup {rating}
  /\ rating' = Prompt(None, shown, dismissed', FALSE)
  /\ UNCHANGED <<serverVars, visitVars, visible, shown, get, post, lost>>

\* "Rate this job" on the page of the order.
AskToRate(b) ==
  /\ page = "order" /\ rating = None
  /\ NeedsReview(shown[b])
  /\ rating' = b
  /\ waved' = waved \ {b}
  /\ UNCHANGED <<serverVars, visitVars, visible, shown, get, post, dismissed, lost>>

\* "Submit rating", in the dialog; "Yes, cancel", on the page of the order.
SendPost(b, op) ==
  /\ post.phase = "idle"
  /\ \/ op = "review" /\ rating = b /\ Asking
     \/ op = "cancel" /\ page = "order" /\ Allowed("cancel", shown[b].status)
  /\ post' = [phase |-> "sent", op |-> op, booking |-> b, view |-> Nothing]
  /\ UNCHANGED <<serverVars, visitVars, visible, shown, get, promptVars, lost>>

\* The server grants it, and answers with the booking as it is then.
ServePost ==
  /\ post.phase = "sent"
  /\ LET b == post.booking IN
       /\ \/ post.op = "review" /\ Reviewed(b)
          \/ /\ post.op = "cancel" /\ Allowed("cancel", status[b])
             /\ status' = [status EXCEPT ![b] = BOOKING_TRANSITIONS["cancel"].to]
             /\ UNCHANGED reviewed
       /\ post' = [post EXCEPT !.phase = "done",
                     !.view = [status |-> status'[b], reviewed |-> reviewed'[b]]]
  /\ UNCHANGED <<visitVars, visible, shown, get, promptVars, lost>>

\* The job is not, or no longer, in a status for it; or it is reviewed already.
RefusePost ==
  /\ post.phase = "sent"
  /\ \/ post.op = "review" /\ (reviewed[post.booking] \/ status[post.booking] \notin REVIEWABLE_STATUSES)
     \/ post.op = "cancel" /\ ~Allowed("cancel", status[post.booking])
  /\ post' = [post EXCEPT !.phase = "refused"]
  /\ UNCHANGED <<serverVars, visitVars, visible, shown, get, promptVars, lost>>

\* The dialog closes and the page renders the booking of the answer.
ReceivePost ==
  /\ post.phase = "done"
  /\ Render(IF post.op = "review" THEN None ELSE rating,
            [shown EXCEPT ![post.booking] = IF @ = Nothing THEN @ ELSE post.view])
  /\ post' = IdlePost
  /\ UNCHANGED <<serverVars, visitVars, visible, get, lost>>

\* An error, or no answer: a message, and everything stays as it is.
FailPost ==
  /\ \/ post.phase = "refused" /\ UNCHANGED lost
     \/ post.phase \in {"sent", "done"} /\ lost < MaxLost /\ lost' = lost + 1
  /\ post' = IdlePost
  /\ UNCHANGED <<serverVars, visitVars, visible, shown, get, promptVars>>

PagesNext ==
  \/ \E b \in Bookings : \/ ServerMoves(b) \/ ReviewedElsewhere(b)
                         \/ AskToRate(b)
                         \/ \E op \in {"cancel", "review"} : SendPost(b, op)
  \/ \E g \in Gets : Poll(g) \/ ServeGet(g) \/ ReceiveGet(g) \/ LoseGet(g)
  \/ Hide \/ Show \/ Later
  \/ ServePost \/ RefusePost \/ ReceivePost \/ FailPost

PagesSpec == PagesInit /\ [][PagesNext]_vars

\* Timers fire, and a request that is not lost is answered.  Customers and
\* workers do as they please.
FairPagesSpec ==
  /\ PagesSpec
  /\ \A g \in Gets : WF_vars(Poll(g)) /\ WF_vars(ServeGet(g)) /\ WF_vars(ReceiveGet(g))

-----------------------------------------------------------------------------
(***************************************************************************)
(* "Anything they have already waved away stays waved away": during one    *)
(* visit the prompt for a job comes back only if the customer asks for it, *)
(* whatever polls and ratings are answered meanwhile.  So it is as long as *)
(* the dismissal can be stored.                                            *)
(***************************************************************************)
StaysWavedAway == rating \notin waved

(***************************************************************************)
(* A prompt is for "a finished job" (needsReview): however stale the page, *)
(* the server agrees that the job of an open dialog is finished, provided  *)
(* that the server takes no finished job back (see ServerMoves).           *)
(***************************************************************************)
PromptIsDue == rating # None => status[rating] \in REVIEWABLE_STATUSES

(***************************************************************************)
(* "This page updates on its own": if the tab stays visible, an order that *)
(* was loaded and has settled is shown as settled in the end, although old *)
(* answers may arrive last and polling stops at the first settled one.     *)
(***************************************************************************)
Shows(b) == shown[b].status = status[b]
Settled(b) == b \in watched /\ status[b] \in {"closed", "cancelled"} /\ Loaded

SettlesOnPage ==
  <>[]visible => \A b \in Bookings : <>[]Settled(b) => <>[]Shows(b)

(***************************************************************************)
(* The list polls for as long as it is visible, so whatever was rated or   *)
(* settled elsewhere gets there, even if the first load failed.            *)
(***************************************************************************)
Agrees(b) == shown[b] = [status |-> status[b], reviewed |-> reviewed[b]]

ListCatchesUp ==
  (page = "orders") /\ <>[]visible =>
     \A b \in Bookings : <>[](reviewed[b]) => <>[]Agrees(b)
=============================================================================
