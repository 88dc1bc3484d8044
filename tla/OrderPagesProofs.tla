--------------------------- MODULE OrderPagesProofs ---------------------------
(***************************************************************************)
(* The prompt for a rating, for any number of bookings, polls in flight    *)
(* and lost requests, whatever is answered late or out of order.           *)
(*                                                                         *)
(* A page may be arbitrarily stale, so nothing it shows is true for good,  *)
(* with one exception: a job that is finished stays finished.  Honest says *)
(* so of everything the page has been told or is being told.  A prompt     *)
(* that was waved away stays away because it is remembered in localStorage *)
(* and every effect looks there: Waved.                                    *)
(***************************************************************************)
EXTENDS OrderPages, WellFoundedInduction, TLAPS

\* A view of a booking that shows it finished is right for good.
Right(view, b) ==
  view.status \in REVIEWABLE_STATUSES => status[b] \in REVIEWABLE_STATUSES

Honest ==
  /\ \A b \in Bookings : Right(shown[b], b)
  /\ \A g \in Gets, b \in Bookings : Right(get[g].views[b], b)
  /\ Right(post.view, post.booking)

Waved == HasRoom => waved \subseteq dismissed /\ rating \notin waved

PagesInv == PagesTypeOK /\ Honest /\ PromptIsDue /\ Waved

-----------------------------------------------------------------------------
(***************************************************************************)
(* The oldest of some bookings is one of them.                             *)
(***************************************************************************)
LEMMA OldestIsOne ==
  ASSUME NEW S, S \subseteq Bookings, S # {}
  PROVE  Oldest(S) \in S
<1>1. S \subseteq Nat
  BY BookingsAssumption
<1>2. PICK a \in S : \A b \in S : ~(<<b, a>> \in OpToRel(<, Nat))
  BY <1>1, WFMin, NatLessThanWellFounded
<1>3. \A b \in S : a <= b
  <2>1. OpToRel(<, Nat) = {ss \in Nat \X Nat : ss[1] < ss[2]}
    BY DEF OpToRel
  <2>2. ASSUME NEW b \in S, b < a PROVE FALSE
    <3>1. <<b, a>> \in Nat \X Nat /\ <<b, a>>[1] < <<b, a>>[2]
      BY <1>1, <2>2
    <3> QED
      BY <1>2, <2>1, <3>1
  <2> QED
    BY <1>1, <2>2
<1> QED
  BY <1>3 DEF Oldest

(***************************************************************************)
(* After a render the dialog is what it was, or asks about a job that is   *)
(* shown as finished and has not been waved away.                          *)
(***************************************************************************)
LEMMA PromptChoice ==
  ASSUME NEW open, NEW views, NEW gone, NEW news
  PROVE  LET next == Prompt(open, views, gone, news) IN
           \/ next = open
           \/ next \in Bookings /\ NeedsReview(views[next]) /\ next \notin gone
<1> DEFINE due == Unrated(views, gone)
<1>1. due \subseteq Bookings
  BY DEF Unrated
<1>2. due # {} => Oldest(due) \in due
  BY <1>1, OldestIsOne
<1>3. \A b \in due : b \in Bookings /\ NeedsReview(views[b]) /\ b \notin gone
  BY DEF Unrated, WasDismissed
<1> HIDE DEF due
<1>4. Prompt(open, views, gone, news) \in {open, Oldest(due)}
      /\ (due = {} => Prompt(open, views, gone, news) = open)
  BY DEF Prompt, due
<1> QED
  BY <1>2, <1>3, <1>4

(***************************************************************************)
(* What an idle slot and a sent poll hold, and what the server answers.    *)
(***************************************************************************)
LEMMA RecordsTyped ==
  /\ Blank \in Views /\ IdlePost \in Post
  /\ {IdleGet, SentGet, FirstGet} \subseteq Get
  /\ \A b \in Bookings : Right(Blank[b], b)
  /\ \A idle \in {IdleGet, SentGet, FirstGet} : idle.views = Blank
  /\ Right(IdlePost.view, IdlePost.booking)
<1>1. Blank \in Views /\ \A b \in Bookings : Right(Blank[b], b)
  BY DEF Blank, Views, Right, Nothing, REVIEWABLE_STATUSES
<1>2. IdleGet \in Get /\ IdleGet.views = Blank
  BY <1>1 DEF IdleGet, Get
<1>3. SentGet \in Get /\ SentGet.views = Blank
  BY <1>2 DEF SentGet, Get
<1>4. FirstGet \in Get /\ FirstGet.views = Blank
  BY <1>3 DEF FirstGet, Get
<1>5. (CHOOSE b \in Bookings : TRUE) \in Bookings
  BY BookingsAssumption
<1>6. IdlePost \in Post /\ IdlePost.view = Nothing
  BY <1>5 DEF IdlePost, Post
<1> QED
  BY <1>1, <1>2, <1>3, <1>4, <1>6 DEF Right, Nothing, REVIEWABLE_STATUSES

LEMMA NowIsRight ==
  ASSUME PagesInv
  PROVE  Now \in Views /\ \A b \in Bookings : Right(Now[b], b)
<1>1. \A b \in Bookings : [status |-> status[b], reviewed |-> reviewed[b]] \in View
  BY DEF PagesInv, PagesTypeOK, View
<1> QED
  BY <1>1 DEF Now, Views, Right, Nothing, REVIEWABLE_STATUSES

-----------------------------------------------------------------------------
FinishedStays ==
  \A b \in Bookings : status[b] \in REVIEWABLE_STATUSES => status'[b] \in REVIEWABLE_STATUSES

(***************************************************************************)
(* A step that renders nothing: what it puts in flight is right.           *)
(***************************************************************************)
LEMMA QuietStep ==
  ASSUME PagesInv, UNCHANGED <<visitVars, shown, promptVars>>, FinishedStays,
         status' \in [Bookings -> BookingStatus], reviewed' \in [Bookings -> BOOLEAN],
         visible' \in BOOLEAN, lost' \in 0..MaxLost,
         get' \in [Gets -> Get], post' \in Post,
         \A g \in Gets, b \in Bookings :
            get'[g] = get[g] \/ Right(get[g].views[b], b)',
         post' = post \/ Right(post.view, post.booking)'
  PROVE  PagesInv'
<1>1. PagesTypeOK'
  BY DEF PagesInv, PagesTypeOK, visitVars, promptVars
<1>2. \A b \in Bookings : Right(shown[b], b)'
  BY DEF PagesInv, Honest, Right, FinishedStays
<1>3. \A g \in Gets, b \in Bookings : Right(get[g].views[b], b)'
  BY DEF PagesInv, Honest, Right, FinishedStays
<1>4. Right(post.view, post.booking)'
  <2>1. post.booking \in Bookings
    BY DEF PagesInv, PagesTypeOK, Post
  <2> QED
    BY <2>1 DEF PagesInv, Honest, Right, FinishedStays
<1>5. PromptIsDue'
  BY DEF PagesInv, PagesTypeOK, PromptIsDue, FinishedStays, promptVars
<1>6. Waved'
  BY DEF PagesInv, Waved, promptVars
<1> QED
  BY <1>1, <1>2, <1>3, <1>4, <1>5, <1>6 DEF PagesInv, Honest

(***************************************************************************)
(* A step that renders views that are right, perhaps after closing the     *)
(* dialog.                                                                 *)
(***************************************************************************)
LEMMA RenderStep ==
  ASSUME PagesInv, NEW open \in {rating, None}, NEW views \in Views,
         \A b \in Bookings : Right(views[b], b),
         Render(open, views),
         UNCHANGED <<serverVars, visitVars, visible>>, lost' \in 0..MaxLost,
         get' \in [Gets -> Get], post' \in Post,
         \A g \in Gets, b \in Bookings :
            get'[g] = get[g] \/ Right(get[g].views[b], b)',
         post' = post \/ Right(post.view, post.booking)'
  PROVE  PagesInv'
<1>1. \/ rating' = open
      \/ rating' \in Bookings /\ NeedsReview(views[rating']) /\ rating' \notin dismissed
  BY PromptChoice DEF Render
<1>2. rating' \in Bookings \cup {None}
  BY <1>1 DEF PagesInv, PagesTypeOK
<1>3. PagesTypeOK'
  BY <1>2 DEF PagesInv, PagesTypeOK, Render, serverVars, visitVars
<1>4. Honest'
  BY DEF PagesInv, Honest, Right, Render, serverVars
<1>5. PromptIsDue'
  <2>1. CASE rating' = open
    BY <2>1 DEF PagesInv, PromptIsDue, serverVars
  <2>2. CASE rating' \in Bookings /\ NeedsReview(views[rating'])
    BY <2>2 DEF PromptIsDue, NeedsReview, Right, serverVars
  <2> QED
    BY <1>1, <2>1, <2>2
<1>6. Waved'
  <2>1. None \notin waved
    BY BookingsAssumption DEF PagesInv, PagesTypeOK
  <2> QED
    BY <1>1, <2>1 DEF PagesInv, Waved, Render
<1> QED
  BY <1>3, <1>4, <1>5, <1>6 DEF PagesInv

-----------------------------------------------------------------------------
LEMMA InitPages == PagesInit => PagesInv
<1> SUFFICES ASSUME PagesInit PROVE PagesInv
  OBVIOUS
<1>1. PagesTypeOK
  <2>1. status \in [Bookings -> BookingStatus]
    BY StartAssumption DEF PagesInit
  <2>2. get \in [Gets -> Get]
    BY RecordsTyped DEF PagesInit
  <2>3. watched \subseteq Bookings
    BY DEF PagesInit
  <2> QED
    BY <2>1, <2>2, <2>3, RecordsTyped, BoundsAssumption DEF PagesInit, PagesTypeOK
<1>2. Honest
  BY RecordsTyped DEF PagesInit, Honest, IdleGet
<1>3. PromptIsDue /\ Waved
  BY DEF PagesInit, PromptIsDue, Waved
<1> QED
  BY <1>1, <1>2, <1>3 DEF PagesInv

(***************************************************************************)
(* What the server does, by whomever, ends no job that is finished.        *)
(***************************************************************************)
LEMMA ReviewedFinishes ==
  ASSUME PagesInv, NEW b \in Bookings, Reviewed(b)
  PROVE  /\ FinishedStays
         /\ status' \in [Bookings -> BookingStatus]
         /\ reviewed' \in [Bookings -> BOOLEAN]
BY DEF Reviewed, PagesInv, PagesTypeOK, FinishedStays, BookingStatus, REVIEWABLE_STATUSES

LEMMA MoveFinishes ==
  ASSUME PagesInv, NEW b \in Bookings,
         NEW action \in ByOthers, Allowed(action, status[b]),
         status' = [status EXCEPT ![b] = BOOKING_TRANSITIONS[action].to]
  PROVE  FinishedStays /\ status' \in [Bookings -> BookingStatus]
<1>1. status[b] \notin REVIEWABLE_STATUSES
  BY DEF Allowed, ByOthers, BOOKING_TRANSITIONS, REVIEWABLE_STATUSES
<1>2. BOOKING_TRANSITIONS[action].to \in BookingStatus
  BY DEF ByOthers, BOOKING_TRANSITIONS, BookingStatus
<1> QED
  BY <1>1, <1>2 DEF PagesInv, PagesTypeOK, FinishedStays

LEMMA ServerKeeps ==
  ASSUME PagesInv, NEW b \in Bookings, ServerMoves(b) \/ ReviewedElsewhere(b)
  PROVE  PagesInv'
<1>1. CASE ReviewedElsewhere(b)
  BY <1>1, ReviewedFinishes, QuietStep DEF ReviewedElsewhere, PagesInv, PagesTypeOK
<1>2. ASSUME ServerMoves(b) PROVE FinishedStays /\ status' \in [Bookings -> BookingStatus]
  <2>1. CASE \E action \in ByOthers :
               /\ Allowed(action, status[b])
               /\ status' = [status EXCEPT ![b] = BOOKING_TRANSITIONS[action].to]
    BY <2>1, MoveFinishes
  <2>2. CASE \E to \in REVIEWABLE_STATUSES : status' = [status EXCEPT ![b] = to]
    BY <2>2 DEF PagesInv, PagesTypeOK, FinishedStays, REVIEWABLE_STATUSES, BookingStatus
  <2> QED
    BY <1>2, <2>1, <2>2 DEF ServerMoves
<1>3. CASE ServerMoves(b)
  BY <1>2, <1>3, QuietStep DEF ServerMoves, PagesInv, PagesTypeOK
<1> QED
  BY <1>1, <1>3

(***************************************************************************)
(* The steps of a poll, and the tab that is hidden and shown.              *)
(***************************************************************************)
LEMMA PollKeeps ==
  ASSUME PagesInv,
         Hide \/ Show \/ \E g \in Gets : Poll(g) \/ ServeGet(g) \/ ReceiveGet(g) \/ LoseGet(g)
  PROVE  PagesInv'
<1>1. /\ status \in [Bookings -> BookingStatus] /\ reviewed \in [Bookings -> BOOLEAN]
      /\ visible \in BOOLEAN /\ lost \in 0..MaxLost
      /\ get \in [Gets -> Get] /\ post \in Post
  BY DEF PagesInv, PagesTypeOK
<1>2. CASE Hide
  BY <1>1, <1>2, QuietStep DEF Hide, serverVars, FinishedStays
<1>3. CASE Show
  BY <1>1, <1>3, QuietStep, RecordsTyped DEF Show, serverVars, FinishedStays, SentGet, Right
<1>4. ASSUME NEW g \in Gets, Poll(g) PROVE PagesInv'
  BY <1>1, <1>4, QuietStep, RecordsTyped DEF Poll, serverVars, FinishedStays, SentGet, Right
<1>5. ASSUME NEW g \in Gets, ServeGet(g) PROVE PagesInv'
  <2>1. /\ get' \in [Gets -> Get]
        /\ get'[g].views = Now
        /\ \A h \in Gets : h # g => get'[h] = get[h]
    <3> DEFINE answer == [get[g] EXCEPT !.phase = "answered", !.views = Now]
    <3>1. answer \in Get /\ answer.views = Now
      BY <1>1, NowIsRight DEF Get
    <3>2. get' = [get EXCEPT ![g] = answer]
      BY <1>5 DEF ServeGet
    <3> HIDE DEF answer
    <3> QED
      BY <1>1, <3>1, <3>2
  <2>2. \A h \in Gets, b \in Bookings : get'[h] = get[h] \/ Right(get[h].views[b], b)'
    <3> SUFFICES ASSUME NEW h \in Gets, NEW b \in Bookings
                 PROVE  get'[h] = get[h] \/ Right(get[h].views[b], b)'
      OBVIOUS
    <3>1. CASE h = g
      <4>1. get'[h].views = Now
        BY <2>1, <3>1
      <4>2. status' = status /\ Right(Now[b], b)
        BY <1>5, NowIsRight DEF ServeGet, serverVars
      <4> QED
        BY <4>1, <4>2 DEF Right
    <3>2. CASE h # g
      BY <2>1, <3>2
    <3> QED
      BY <3>1, <3>2
  <2> QED
    BY <1>1, <1>5, <2>1, <2>2, QuietStep DEF ServeGet, serverVars, FinishedStays
<1>6. ASSUME NEW g \in Gets, ReceiveGet(g) PROVE PagesInv'
  <2>1. get[g].views \in Views /\ \A b \in Bookings : Right(get[g].views[b], b)
    BY <1>1 DEF PagesInv, Honest, Get
  <2> DEFINE views == get[g].views
  <2>2. Render(rating, views) /\ UNCHANGED <<serverVars, visitVars, visible, post, lost>>
    BY <1>6 DEF ReceiveGet
  <2>3. /\ get' \in [Gets -> Get]
        /\ \A h \in Gets : get'[h] = get[h] \/ get'[h] = IdleGet
    BY <1>1, <1>6, RecordsTyped DEF ReceiveGet
  <2>4. \A b \in Bookings : Right(IdleGet.views[b], b)'
    BY <2>2, RecordsTyped DEF Right, serverVars, IdleGet, Blank
  <2>5. \A h \in Gets, b \in Bookings : get'[h] = get[h] \/ Right(get[h].views[b], b)'
    BY <2>3, <2>4 DEF Right
  <2> HIDE DEF views
  <2> QED
    BY <1>1, <2>1, <2>2, <2>3, <2>5, RenderStep DEF views
<1>7. ASSUME NEW g \in Gets, LoseGet(g) PROVE PagesInv'
  <2>1. lost' \in 0..MaxLost
    BY <1>1, <1>7, BoundsAssumption DEF LoseGet
  <2>2. /\ get' \in [Gets -> Get]
        /\ \A h \in Gets : get'[h] = get[h] \/ get'[h] = IdleGet
    BY <1>1, <1>7, RecordsTyped DEF LoseGet
  <2>3. UNCHANGED <<serverVars, visitVars, visible, post>>
    BY <1>7 DEF LoseGet
  <2>4. \A h \in Gets, b \in Bookings : get'[h] = get[h] \/ Right(get[h].views[b], b)'
    BY <2>2, <2>3, RecordsTyped DEF Right, serverVars, IdleGet, Blank
  <2>5. CASE Render(rating, Blank)
    BY <1>1, <2>1, <2>2, <2>3, <2>4, <2>5, RecordsTyped, RenderStep
  <2>6. CASE UNCHANGED <<shown, promptVars>>
    BY <1>1, <2>1, <2>2, <2>3, <2>4, <2>6, QuietStep DEF serverVars, FinishedStays
  <2> QED
    BY <1>7, <2>5, <2>6 DEF LoseGet
<1> QED
  BY <1>2, <1>3, <1>4, <1>5, <1>6, <1>7

(***************************************************************************)
(* The customer: "Not now" is remembered; "Rate this job" asks again.      *)
(***************************************************************************)
LEMMA LaterKeeps ==
  ASSUME PagesInv, Later
  PROVE  PagesInv'
<1>1. rating \in Bookings
  BY DEF PagesInv, PagesTypeOK, Later, Asking
<1>2. \/ rating' = None
      \/ rating' \in Bookings /\ NeedsReview(shown[rating']) /\ rating' \notin dismissed'
  BY PromptChoice DEF Later
<1>3. PagesTypeOK'
  BY <1>1, <1>2 DEF PagesInv, PagesTypeOK, Later, Dismissed, serverVars, visitVars
<1>4. Honest' /\ PromptIsDue'
  BY <1>2 DEF PagesInv, Honest, PromptIsDue, NeedsReview, Right, Later, serverVars
<1>5. Waved'
  <2>1. None \notin waved'
    BY <1>1, BookingsAssumption DEF PagesInv, PagesTypeOK, Later
  <2>2. HasRoom => waved' \subseteq dismissed'
    BY DEF PagesInv, Waved, Later, Dismissed
  <2> QED
    BY <1>2, <2>1, <2>2 DEF Waved
<1> QED
  BY <1>3, <1>4, <1>5 DEF PagesInv

LEMMA AskKeeps ==
  ASSUME PagesInv, NEW b \in Bookings, AskToRate(b)
  PROVE  PagesInv'
<1>1. PagesTypeOK'
  BY DEF PagesInv, PagesTypeOK, AskToRate, serverVars, visitVars
<1>2. Honest' /\ PromptIsDue' /\ Waved'
  BY DEF PagesInv, Honest, PromptIsDue, NeedsReview, Right, AskToRate, serverVars, Waved
<1> QED
  BY <1>1, <1>2 DEF PagesInv

(***************************************************************************)
(* The customer's own request.                                             *)
(***************************************************************************)
LEMMA PostKeeps ==
  ASSUME PagesInv,
         \/ \E b \in Bookings, op \in {"cancel", "review"} : SendPost(b, op)
         \/ ServePost \/ RefusePost \/ ReceivePost \/ FailPost
  PROVE  PagesInv'
<1>1. /\ status \in [Bookings -> BookingStatus] /\ reviewed \in [Bookings -> BOOLEAN]
      /\ visible \in BOOLEAN /\ lost \in 0..MaxLost
      /\ get \in [Gets -> Get] /\ post \in Post
      /\ post.booking \in Bookings
  BY DEF PagesInv, PagesTypeOK, Post
<1>2. ASSUME NEW b \in Bookings, NEW op \in {"cancel", "review"}, SendPost(b, op)
      PROVE  PagesInv'
  <2>1. post' \in Post /\ post'.view = Nothing
    BY <1>2 DEF SendPost, Post
  <2> QED
    BY <1>1, <1>2, <2>1, QuietStep
    DEF SendPost, serverVars, FinishedStays, Right, Nothing, REVIEWABLE_STATUSES
<1>3. CASE ServePost
  <2> DEFINE b == post.booking
  <2>1. /\ FinishedStays
        /\ status' \in [Bookings -> BookingStatus] /\ reviewed' \in [Bookings -> BOOLEAN]
    <3>1. CASE Reviewed(b)
      BY <1>1, <3>1, ReviewedFinishes
    <3>2. CASE /\ Allowed("cancel", status[b]) /\ UNCHANGED reviewed
               /\ status' = [status EXCEPT ![b] = BOOKING_TRANSITIONS["cancel"].to]
      BY <1>1, <3>2, MoveFinishes DEF ByOthers
    <3> QED
      BY <1>3, <3>1, <3>2 DEF ServePost
  <2> DEFINE view == [status |-> status'[b], reviewed |-> reviewed'[b]]
  <2>2. view \in View
    BY <1>1, <2>1 DEF View
  <2>3. post' = [post EXCEPT !.phase = "done", !.view = view]
    BY <1>3 DEF ServePost
  <2> HIDE DEF view
  <2>4. post' \in Post /\ post'.view = view /\ post'.booking = b
    BY <1>1, <2>2, <2>3 DEF Post
  <2>5. Right(post.view, post.booking)'
    BY <2>4 DEF view, Right
  <2> QED
    BY <1>1, <1>3, <2>1, <2>4, <2>5, QuietStep DEF ServePost
<1>4. CASE RefusePost
  <2>1. post' \in Post /\ post'.view = post.view /\ post'.booking = post.booking
    BY <1>1, <1>4 DEF RefusePost, Post
  <2> QED
    BY <1>1, <1>4, <2>1, QuietStep
    DEF RefusePost, serverVars, FinishedStays, PagesInv, Honest, Right
<1>5. CASE ReceivePost
  <2> DEFINE views == [shown EXCEPT ![post.booking] = IF @ = Nothing THEN @ ELSE post.view]
             open == IF post.op = "review" THEN None ELSE rating
  <2>1. views \in Views /\ \A b \in Bookings : Right(views[b], b)
    BY <1>1 DEF PagesInv, PagesTypeOK, Honest, Views, Post
  <2>2. open \in {rating, None} /\ Render(open, views)
    BY <1>5 DEF ReceivePost
  <2> HIDE DEF views, open
  <2>3. post' \in Post /\ Right(post.view, post.booking)'
    BY <1>5, RecordsTyped DEF ReceivePost, IdlePost, Right, Nothing, REVIEWABLE_STATUSES
  <2> QED
    BY <1>1, <1>5, <2>1, <2>2, <2>3, RenderStep DEF ReceivePost
<1>6. CASE FailPost
  <2>1. lost' \in 0..MaxLost
    BY <1>1, <1>6, BoundsAssumption DEF FailPost
  <2>2. post' \in Post /\ Right(post.view, post.booking)'
    BY <1>6, RecordsTyped DEF FailPost, IdlePost, Right, Nothing, REVIEWABLE_STATUSES
  <2> QED
    BY <1>1, <1>6, <2>1, <2>2, QuietStep DEF FailPost, serverVars, FinishedStays
<1> QED
  BY <1>2, <1>3, <1>4, <1>5, <1>6

LEMMA PagesAlways == PagesSpec => []PagesInv
<1>1. ASSUME PagesInv, [PagesNext]_vars PROVE PagesInv'
  <2>1. CASE PagesNext
    BY <1>1, <2>1, ServerKeeps, PollKeeps, LaterKeeps, AskKeeps, PostKeeps DEF PagesNext
  <2>2. CASE UNCHANGED vars
    BY <1>1, <2>2 DEF vars, serverVars, visitVars, promptVars, PagesInv, PagesTypeOK,
                      Honest, Right, PromptIsDue, Waved
  <2> QED
    BY <1>1, <2>1, <2>2
<1> QED
  BY <1>1, InitPages, PTL DEF PagesSpec

-----------------------------------------------------------------------------
(***************************************************************************)
(* What the page holds is well typed.                                      *)
(***************************************************************************)
THEOREM PagesTypeCorrect == PagesSpec => []PagesTypeOK
<1>1. PagesInv => PagesTypeOK
  BY DEF PagesInv
<1> QED
  BY <1>1, PagesAlways, PTL

(***************************************************************************)
(* ReviewDialog: as long as localStorage has room for the dismissal, a     *)
(* prompt that was waved away stays away, however many answers arrive.     *)
(***************************************************************************)
THEOREM WavedStaysAway ==
  ASSUME HasRoom
  PROVE  PagesSpec => []StaysWavedAway
<1>1. PagesInv => StaysWavedAway
  BY DEF PagesInv, Waved, StaysWavedAway
<1> QED
  BY <1>1, PagesAlways, PTL

(***************************************************************************)
(* needsReview: whatever the age of the page's data, the job of an open    *)
(* prompt is finished on the server, where it can only be closed further   *)
(* as long as every request takes effect at once (see ServerMoves).        *)
(***************************************************************************)
THEOREM PromptsAreDue == PagesSpec => []PromptIsDue
<1>1. PagesInv => PromptIsDue
  BY DEF PagesInv
<1> QED
  BY <1>1, PagesAlways, PTL
=============================================================================
