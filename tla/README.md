# Sajilo: TLA+ models, checks and proofs

Sajilo is a marketplace for home services. A customer books a job, a worker
takes it (or an admin dispatches one), does it, collects the cash, and is rated.
The server (`services/api/app`) is FastAPI over PostgreSQL and Redis; the
clients are a Next.js web application (`apps/web`).

What is hard in this code is not any single handler but what happens when two of
them run at the same time. Every handler is one database transaction at READ
COMMITTED. It loads rows, evaluates its guards on that copy, and sends UPDATEs
that name a row by its primary key. No table has a version column, and exactly
one handler (`claim_booking`) locks the row it reads. So the documentation's
promises ("never a double booking", "an illegal jump is impossible") hold for
some interleavings and not for others, and tests, which send one request after
another, see only the easy ones. The models say which promises survive. The
browser has the same trouble in small: several requests of one page are rejected
at once, a poll's answer overtakes another, and an order is placed from a page
that is an hour old. Redis has it too: every command is a step, and a key may
expire between any two.

## Inventory

| Component | State | Operations | Made correct by | Here |
|---|---|---|---|---|
| Booking lifecycle (`services/booking.py`, `models/enums.py`, `models/booking.py`) | a row per booking (status, worker, timestamps), its payment, its review | create, assign, claim, accept, reject, start travel, start work, complete, cancel, review | status, worker, timestamps, money and ratings tell one story | modelled |
| Booking requests (`api/v1/worker.py`, `admin.py`, `bookings.py`, `db/session.py`) | a transaction per request: what it read, the row locks it holds | load, check, lock, flush, commit, rollback | overlapping requests change the tables as if one after the other, or at least never forge evidence | modelled |
| Workers (`models/worker.py`, `api/v1/worker.py`, `admin.py`) | verification, availability, trades, trade requests | verify, switch availability, declare trades, ask, withdraw, decide | an approved trade is cleared; clearances are never lost; one live request per trade | modelled |
| Accounts (`services/auth.py`, `models/user.py`, `api/v1/users.py`) | users, e-mail and phone uniqueness | register, sign in, update | one account and one role per number | registration and sign-in; `PATCH /users/me` not |
| Sessions (`services/auth.py`, `api/deps.py`, `api/v1/auth.py`) | refresh-token rows | issue, exchange, detect reuse, log out, log out everywhere | an exchanged session is revoked for good; reuse ends every session of the user | modelled |
| One-time passwords (`services/otp.py`) | code, cooldown, daily counter, tries per phone, in Redis | issue, verify, expire | a code in Redis is unused and was guessed a bounded number of times; no more messages than the days allow | modelled |
| Rate limiter (`core/redis.py`) | a counter with a time to live | count | the counter expires | modelled, with the OTP requests |
| Web client (`lib/api.ts`, `lib/auth.tsx`) | tokens and user in localStorage, the user a page renders, the refresh in flight | sign in, request, refresh, retry, save the profile, log out, reload | one refresh at a time; no request is left behind; the page never keeps an exchanged token | modelled |
| Order pages (`hooks/usePolling.ts`, `app/orders`, `ReviewDialog.tsx`) | the bookings a page shows, polls in flight, the rating prompt, dismissals in localStorage | poll, hide, show, cancel, rate, wave away | the page gets to what has settled; a prompt is due and stays away once waved away | modelled |
| Booking page (`app/book/page.tsx`) | what it loaded, the customer's choices | open, choose, submit | what is charged is what was shown, or the catalogue changed since | modelled |
| Saved addresses (`api/v1/addresses.py`) | addresses, a default | list, add, remove | one default; none of the removed ones in an order | modelled |
| Pricing (`quote`) | none | quote | commission and payout add up to the total, the commission is off by half a paisa at most | modelled |
| Catalogue (`services/catalog_seed.py`) | services, options, prices | seed, withdraw | a deployment rewrites no booking | prices and offers |
| Lists and filters (`serialize`, pool, candidates, earnings, dashboard) | none | views of the tables | they agree with each other and with what operations allow | modelled |
| Worker, admin and account pages; CLI and demo data; migrations; configuration, logging, health, SMS | | | | see "Not modelled" |

Components meet in the database. Bookings read two facts about a worker, whether
they are assignable and for which trades they are cleared; the onboarding
endpoints write them. Reviews and completions write counters of the worker's
profile. A booking is touched by its customer, by any worker while it is open,
by the worker on it, and by every admin. Nothing is shared in memory between
requests. Every authenticated request reads its session's row; the web client
renews the session behind the backs of the requests it retries. A sign-in's code
lives in Redis and its account in PostgreSQL, and nothing ties the two together
but the order of the steps.

The hazards of the code, each with its line and with the properties that watch
it, are listed in `PROJECT.json` under `hazards`.

## Modules

```
Marketplace            the parties: workers, services, NULL
 |-- Lifecycle         transition table, one row, what transition() writes to it
 |-- Roster            what dispatching knows of workers (abstract)
 |    \-- WorkerTrades implements Roster: onboarding, requests, decisions
 \-- Bookings          Lifecycle + Roster: the marketplace, one operation at a time (abstract)
      |-- BookingTxn   implements Bookings where it can: overlapping transactions
      \-- Views        Bookings + Pricing: what lists, filters and totals show of it

Pricing                quote(): total, commission, payout
 \-- Checkout          the booking page, saved addresses, catalogue, create_booking

Sessions               one user's refresh tokens, as the API keeps them
 \-- WebClient         the browser that uses, refreshes and drops them

Otp                    codes, counters and accounts of one phone number
OrderPages             Lifecycle + a customer's page that polls

BookingsProofs         the lifecycle's moves; the inductive invariant of Bookings
ViewsProofs            what follows for lists and phone numbers; sums; the totals
BookingTxnProofs       the inductive invariant of BookingTxn; it implements Bookings
WorkerTradesProofs     the inductive invariant of WorkerTrades; it implements Roster
WebClientProofs        the inductive invariants of Sessions and WebClient
CheckoutProofs         money for all numbers; orders from old pages; one default
OtpProofs              codes, tries and messages, by counting requests
OrderPagesProofs       the prompt for a rating, on pages of any age
MC*                    instances for TLC
```

**Lifecycle** has no variables. `BOOKING_TRANSITIONS` is the table of
`models/enums.py`. `Transition` is `transition()`: the new status and, per
action, the columns it sets or clears. Each assigned column gets a value that
does not depend on the row, so the same operator serves as the UPDATE that a
transaction applies to a row somebody else has changed in the meantime.

**Roster** is what the booking operations read of a worker: verified, available,
cleared for a trade. A clearance can only be added.

**Bookings** is the abstract specification: each endpoint as one atomic action.
`CreateBooking`, `AssignWorker`, `ClaimBooking`, `Act` (accept, reject, travel,
start), `CompleteBooking`, `Cancel`, `SubmitReview`. Its variables are tables:
`booking`, `payment`, `review`, and the two denormalised columns of a profile,
`jobs_completed` and `rated`. `rated[w]` is the set of bookings whose reviews
`rating_avg` and `rating_count` were computed from: the average and the count
are functions of that set, so a wrong set is what a wrong aggregate is.

**BookingTxn** runs the same operations as the server does. `txn[r]` is the
request served in slot `r`, with what it has read; `lock[b]` is the request that
holds the row lock of `b`. A request is *loaded* (or *eligible*, for a claim)
after its first reads, *ready* once all guards have passed, and ends with a
commit or a rollback.

| Handler | Steps |
|---|---|
| `assign` | `AssignLoad` (booking, status) - `AssignCheckRoster` (profile, clearance) - `CommitAttach` |
| `claim_job` | `ClaimCheckProfile` - `ClaimLock` or `ClaimRefused` (FOR UPDATE, status, clearance) - `CommitAttach` |
| `_act`, `reject_job`, `cancel_booking`, `admin_cancel` | `ActLoad` / `CancelLoad` - `CommitMove` |
| `complete_job` | `CompleteLoad` (booking, payment, profile) - `CommitComplete` |
| `review_booking` | `ReviewLoad` - `ReviewInsert` (unique index, aggregate) - `CommitReview` |
| any of them failing | `Abort` |
| `create_booking`, changes of the roster | `CreateOne`, `ChangeRoster`, one statement each |

Two details of SQLAlchemy matter and are in the model. The session keeps loaded
objects (`expire_on_commit=False`, an identity map), so a second SELECT of the
profile in `complete_booking` does not refresh `jobs_completed`, which came with
the booking: `CompleteLoad` reads it. And an UPDATE names only the columns that
were assigned: a commit leaves the others as another request left them.

**WorkerTrades** does the same for `api/v1/worker.py` and the admin's decisions:
`call[c]` is a call in flight, `DeclareLoad`/`DeclareCommit` is `set_services`,
`RequestLoad`/`RequestCommit` is `request_service`, then withdraw and decide.
The unique index on a worker and a trade and the partial index on pending
requests are evaluated at the commit. It implements `Roster`
(`R == INSTANCE Roster WITH verified <- ...`, property `ImplementsRoster`). The
variable `raced` is there for two properties only: it collects the workers about
whom two calls that write what they decided on have overlapped.

**Views** has no variables of its own. `OpenJobs`, `AvailableJobs`, `ActiveJobs`,
`Candidates`, `CanView`, `Serialize`, `Earnings` and `Stats` are the queries of
`open_jobs_for_worker`, `/worker/available-jobs`, `/worker/jobs`, the candidates
of a dispatch, `assert_can_view`, `serialize`, `/worker/earnings` and
`/admin/stats`, as functions of the tables of `Bookings`. Each is written
separately in the code, so that they agree is a property. `Serialize` says which
numbers a viewer gets: those of the two accounts, which are filtered, and the one
saved with the address (`Contacts`), which is not.

**Sessions** has the rows of `refresh_tokens` of one user, numbered in the order
of their creation. Refresh and access token name the row, so a session stands
for its pair of tokens. `rotate_session` is `RotateLoad` (or `RotateRefused`,
`RotateReused`) and, later, `RotateCommit`: the row is read without a lock, so
two exchanges of one token can both find it unrevoked. `RotateReused` commits
the revocation of everything before it answers with an error, as the code does.
`aged[s]` counts the expiries: of the access token, then of the refresh token.

**WebClient** EXTENDS it with the browser. `store` is the session whose tokens
are in localStorage, `saved` whether a user is, `user[t]` whether tab `t`
renders one, `refreshing[t]` the exchange its module-level promise waits for, and
`call[c]` one `request()` in flight. A step is one task of the JavaScript event
loop with the microtasks it leaves behind: storing new tokens, resuming
everybody who awaited them and resetting `refreshing` happen before any other
response is looked at (`Refreshed`).

| Code | Action |
|---|---|
| `adopt` after `verify-otp` or `admin/login` | `SignIn` |
| `send` in `request`, `logout`, `logoutEverywhere`, `updateProfile` | `Send` |
| `get_current_user` and the handler | `Serve`: `ServeDenied`, `ServeApi`, `ServeLogoutAll`, `ServeLogout` |
| `refreshing ??= ...`, `await refreshSession()` | `AwaitRefresh` |
| the answer of `/auth/refresh` | `Refreshed`, `RefreshRefused` |
| what follows a successful request | `Succeed` |
| a 401 that stands | `GiveUp`, `RefreshRefused` |
| `fetch` rejects | `LoseCall`, `LoseRefresh`; `Discard` for the answer nobody receives |
| `AuthProvider` mounts | `Reload` |

**Otp** is one phone number and the requests about it. `call[c]` is a request, at
the Redis command it will send next.

| Code | Action |
|---|---|
| `enforce_rate_limit` (INCR, EXPIRE) | `CountLimit`, `ArmLimit` |
| `issue_otp`: EXISTS cooldown; INCR daily, EXPIRE; the MULTI and the SMS | `LookCooldown`; `CountService`, `ArmService`; `Send` |
| `verify_otp`: GET code; INCR attempts, EXPIRE; DEL when there were too many; compare; DEL | `LookCode`; `CountService`, `ArmService`; `Burn`; `Wrong`, `Use` |
| `get_or_create_user`, session | `LookupUser`, `Register` |
| Redis, PostgreSQL or the process fails | `Fail`, at the steps in `Fragile` |
| a key's time is over | `ExpireCooldown`, `ExpireCode`, `ExpireCounter` |

A code is its number in the order of issue. `guesses`, `spent`, `days` and
`admitted` are history, for the properties.

**OrderPages** is one visit to the list of orders or to one order. `shown` is what
the page renders, `get[g]` a poll in flight with the answer it will bring, `post`
the customer's own request, `rating` the booking whose dialog is open. A step is a
task of the event loop with the render and the effects after it, so that `Render`
is `setBookings` together with the effect that may open the prompt. `Poll`,
`Hide`, `Show` are `usePolling`; `ServeGet`, `ReceiveGet`, `LoseGet` a poll's fate;
`Later`, `AskToRate`, `SendPost`, `ReceivePost`, `FailPost` the dialog and the
buttons (`Asking`: the dialog is on the screen). The list of orders that fails to
load the first time shows an empty list, even if a poll has filled it already
(`LoseGet`). The server moves the bookings by the table of `Lifecycle`, as `Bookings`
does: one request at a time. `BookingTxn` shows that a stale commit can take a finished job
back; a page that learns of that may stop polling or ask about an unfinished job, so
`PromptIsDue`, `SettlesOnPage` and the theorem about prompts are about the atomic server only.

**Checkout** is the booking page between what it loaded and what the server has by
the time of the order: `page`, `listing` (a `GET /addresses` in flight), `order`
(`Submit`, then `LoadPackage`, `LoadService`, `CommitOrder` of `create_booking`),
`catalogue` and `offered` (`SeedCatalog`, `Retire`), `address` with the calls
of other devices that add (`AddLoad`, `AddClear`, `AddCommit`) and remove
(`RemoveLoad`, `RemoveCommit`). Prices are in paisa and rates in thousandths;
`RoundHalfUp` is `ROUND_HALF_UP`. `overlapped` remembers that two addresses
were being added at once.

### Abstractions

* A timestamp is whether it is set; a phone number, whether it is shown. References,
  prices, schedules, addresses (but for the contact's number, `Contacts`), notes and the append-only history decide nothing and are left out.
* A load is one step. The code sends the SELECT of a booking and those of its
  payment and profile one after another; a commit between two of them gives the
  request a mix of two states. Only `complete_booking` and `submit_review`
  use more than the booking.
* A flush and the commit after it are one step. The flush takes the row lock
  and nothing that another request could see happens until the commit, except
  waiting, which the guard `MayUpdate` has for claims. Two flushing requests
  cannot wait for each other: each updates one booking and one profile, in the
  same order.
* An error response changes nothing, so a failing guard is a step that is not
  there, except where the request has already begun (`ClaimRefused`, `Rollback`).
* An UPDATE of `refresh_tokens` that waits for an exchange to commit does not
  see the row that exchange inserts. That is the same as running before it, so
  the revocations are single steps. An access token is checked at the moment the
  request is served.
* A sign-in, from the request to the stored tokens, is one step; the page shows
  nothing but the form meanwhile. An error other than 401 ends a request in the
  same way as a rejected `fetch` does.
* `is_active` is left out: nothing in the API changes a user's status.
* Workers and services exist from the start; a worker's registration gives the
  initial state of `Roster` and `WorkerTrades`.

* Redis executes one command at a time; a MULTI is one step. The cooldown expires
  before the code and the code before its tries, which the times to live in
  `core/config.py` and the order of the EXPIREs guarantee.
* A counter stops one above its limit, since nothing is asked of it beyond that.
* A page's data are the status and whether it is reviewed, of each booking. A
  booking page's services are their prices.
* Loading the catalogue and opening the page are one step; loading the addresses is not.

## Runs

Run one with `tlc -config <cfg> <module>`.

| Run | Configuration | Instance | Shows |
|---|---|---|---|
| `bookings` | `MCBookings.cfg` | 2 workers, 2 bookings of different trades | the marketplace as documented, one operation at a time, is right: `Timeline`, `MoneyMatchesStatus`, `AggregateIsTrue`, `JobsCompletedIsTrue`; and so is what it shows: `EveryJobIsSomewhere`, `AccountPhonesAreForLiveJobs`, `BooksBalance` |
| `races` | `MCBookingTxn_races.cfg` | 2 workers, 1 booking, 2 requests, everything overlaps | what survives any interleaving |
| `claims` | `MCBookingTxn_claims.cfg` | 2 workers, 1 booking, 3 requests; claims, cancellations and ratings overlap | they are serializable, every step is a step of `Bookings`, and no request waits forever for a row lock or another's insert |
| `trades` | `MCWorkerTrades.cfg` | 1 worker, 2 trades, 3 requests, 2 calls at a time | `ApprovedMeansCleared`, `OneLiveRequest`, and `WorkerTrades` implements `Roster`; trades stay frozen and decisions final until two calls race |
| `web_client` | `MCWebClient.cfg` | 1 tab, 2 calls of every kind, 2 exchanges, 3 sessions, anything may get lost | `ExchangedIsRevoked`, `ExchangedOnce`, `HoldsNewest`, and every request ends (`CallsEnd`) |
| `otp` | `MCOtp.cfg` | 2 requests, 2 codes, 2 days, limits of 1 and 2 | codes, tries, messages and accounts stay within what is promised; counters expire |
| `order_pages` | `MCOrderPages.cfg` | 2 bookings, 2 polls in flight, 1 lost request | the prompt is due and stays waved away; the page gets to what has settled |
| `checkout` | `MCCheckout.cfg` | 2 options, 2 releases, 2 addresses, 2 calls, 1 order | money adds up, prices are as shown unless they changed, removed addresses are not used, one default |

Four runs show a promise of the comments or documents that the code does not keep,
three of them in an interleaving. Each finding in `PROJECT.json` quotes the promise.

| Run | Promise | What happens |
|---|---|---|
| `double_booking` | "never a double booking" | an admin's assignment, decided on a stale copy, replaces the worker who has just claimed the job |
| `rating_count` | a review "cannot leave the aggregate wrong" | two ratings of one worker recompute from snapshots that miss each other |
| `still_denied` | "the session is genuinely gone", "nobody is signed out mid-task" | two requests go out with an expired access token; one is answered, refreshes and is retried; the other's 401 comes late and starts a second refresh, which retires the session the retry was sent with; the retry's 401 clears the tokens of the newest, live session |
| `phones` | "Phone numbers are exchanged only while a job is actually live" | the filter covers the numbers of the accounts; the contact's number saved with the address is shown with the booking in every status, to every worker who finds an open job in the pool |

### Variations

Some properties carry a condition because the code breaks them without it. These
were checked while modelling and are not runs of their own.

* `NoIllegalJump` (in `BookingTxn`) fails when an assignment and a cancellation
  overlap: a cancelled booking becomes assigned. `docs/modules.md` calls such a jump
  impossible; the table is consulted for the status that was read.
* `TradesFrozen` without `raced`: two declarations each find an empty list and both
  are kept, although the docstring of `set_services` says that it "succeeds exactly
  once per worker".
* `DecisionsAreFinal` without `raced`: a withdrawal and a decision that both read
  the request as pending overwrite each other ("already been decided").
* `OneDefault` without `overlapped`: two addresses added at once both become the
  default. The list then starts with the older of the two.
* `PriceAsShown` without `changed`: a price that changes between the loading of the
  page and the order is charged though another was shown. `list_services` shows
  withdrawn options too; the order is then refused.
* `NotAtRemovedAddress` if `gone` were taken at the commit: an address removed between
  the check of `create_booking` and its commit is used, for it is read without a lock.
* `StaysWavedAway` with `HasRoom = FALSE`, a localStorage that filled up after the
  sign-in: `dismiss()` stores nothing and the list of orders, whose effect runs as soon
  as the dialog is closed, opens it again in the step that waved it away. The comment
  in `ReviewDialog.tsx` says that "the prompt will simply ask again next time", and does not
  say when that is. Where localStorage is blocked altogether nobody gets that far:
  `tokens.loadUser` and `tokens.save` throw in `auth.tsx` and nobody is signed in.
* `JobsCompletedIsTrue` where completions overlap: two finished jobs are counted once.
* `CountersExpire` with `"limitArm"` or `"countArm"` in `Fragile`: a crash between
  INCR and EXPIRE (`core/redis.py:36`) leaves a counter that never expires.
* `AggregateIsTrue` is for atomic operations; `AggregateNeverInvents` is what is
  left of it when they overlap.

Other behaviours are in the models and contradict nothing that is written. Two sign-ins
with the right code at once both succeed. Two requests for a code at once both pass the
cooldown, and both send a message. A late sign-in deletes a newer code. A late
answer to a poll shows a rated job as unrated and asks again, and the server
refuses the second rating. An order page whose first load fails does not poll. A
late answer to `GET /addresses` replaces the address the customer has chosen.
`submit_review` closes unpaid work, while the enum says closed is "paid for"; this
is deliberate in the code, and `MoneyMatchesStatus` states what does hold.
`verify_worker` sets any verification status from any other. `request_service`
does not ask that the worker is verified. The roster is read without a lock, so a
worker whose verification is withdrawn at that moment can still be attached.

### Where the web client's promises end

`ExchangedOnce` and `HoldsNewest` are about one page that stays where it is. They
fail, when checked, in the variations the comments do not speak of: with two tabs,
each of which has its own `refreshing` but the same tokens, `ExchangedOnce` fails;
with `"abandon"` in `Faults` (the page is reloaded or left while it refreshes)
both do, and the token left in localStorage ends every session at its next use.
Three more behaviours are in the model and contradict nothing that is written: an answer
to `updateProfile` after a logout puts the user back without tokens; an
answer to a refresh after a logout puts the tokens back; an exchange that had
read its row when "log out everywhere" ran leaves its new session live.

### Which operations may overlap

`Serializable` is a question about the constant `Overlapping`. Checked with 2
workers and 2 requests, for each operation against itself and for
each pair: claim, accept, reject, start travel, start work, cancel and roster
changes are each serializable against themselves; assign and complete are not
(two of them lose an update). These pairs are serializable: claim with
accept, start travel, start work or cancel; reject with start travel or start
work; a roster change with accept, reject, start travel, start work or cancel. On one
booking a review is serializable against itself and against everything but assign and
complete; where there are two bookings of one worker, two reviews are not.
All others are not. The lock of `claim_booking` therefore protects claims from
each other and from cancellations, and from nothing that writes `worker_id`
without the lock. `claims` keeps the positive result that matters most; two
ratings of one booking, the double click, are in it too.

That the pairs listed are serializable is proved, for any number of workers,
bookings and requests and for any set of operations that are safe two by two
(`ClaimsAreSerializable`); that the others are not is shown by TLC only.

### Bounds

* Two workers, two requests, three in `claims`, where one waits for a lock while
  another is refused. A race takes two; every guard that mentions others
  (`MayOverlap`, `SlotFree`, the lock) is about one other request at a time.
* One booking in `races` and `claims`: the requests interact through one row, its
  payment, its review and the worker's counters. Two where counters are compared
  with sets of bookings (`bookings`, `rating_count`).
* `MaxJobs` bounds `jobs_completed`, the only counter, in the guard of
  `CompleteLoad`. A booking may be completed more than once when stale requests
  take it back, so without a bound the count would not be finite. In `races` it
  is 1: one completed job, then every continuation that completes no second.
* `Requests`, `Calls` and `RequestIds` are slots. A slot of `txn` and `call` is
  reused; a request id is not.
* Workers and request slots are interchangeable and are declared symmetric.
  `claims`, `web_client` and `order_pages` have no symmetry, which would be unsound
  for liveness.
* `CreateOne` and the roster's changes may happen at any time in every run.

* One worker in `trades`: every guard is about one worker's rows. Two calls, since a
  third finds nothing that the second did not.
* Limits of one and two in `otp`, so that each is reached, and two codes, so that a
  request may hold an older one than Redis does. `MaxDays` = 2: a counter that
  expires, and the next. The proof is for all of them.
* Two polls in `order_pages`, so that one overtakes the other; two bookings, so that
  waving one prompt away may open another. `MaxLost` bounds lost requests.
* `MaxChanges` = 1 in `checkout`: a deployment or a withdrawal between any two
  steps of the page or the order. Rates of 18.5 % and 15 % of 100 and 130 paisa, three
  of them, need rounding, half a paisa included.

* One tab and two calls in `web_client`: the second call is the one that is
  late. Two exchanges, so that one the page has given up on may still be under
  way when the next begins. `MaxSessions` = 3: a session and two exchanges of it;
  `Room` lets a request begin only while a session is left for the refresh it
  may need, so that the bound stops nothing half-way, which `CallsEnd` would
  see as a request that never ends.

### Fairness

`FairTxnSpec` asks strong fairness of "request r takes its next step", the
disjunction of its check, its turn at the lock and its commit. The server runs
a request to its end once it has begun. Strong rather than weak because a claim
waiting for a row lock is enabled only while the lock is free, and PostgreSQL
queues waiters, so a stream of rivals cannot starve it. Nothing is assumed of
clients, of `Abort`, or of the roster.

`FairClientSpec` asks weak fairness of a call's next step (the server serves it,
the page looks at the answer), of an exchange's next step at the server, and of
the page's receipt of a refresh. A `fetch` settles: it is answered or it rejects.
No user, no clock and no loss is obliged to act.

`FairPagesSpec` asks weak fairness of the timer of each poll slot (`Poll`, which is
enabled only while the tab is visible and the page polls), of the server that
answers a poll, and of its answer's arrival. A poll may still be lost, `MaxLost`
times. The properties speak of a tab that stays visible; nobody is obliged to
show it, to rate, or to move a booking.

## Proofs

`tlapm <module>` for each of the eight modules ending in `Proofs`. The theorems hold
for every value of the constants under the assumptions that the modules name: any
sets of workers, services, bookings, requests and calls, any limits, prices and
rates. The assumptions are that NULL is not a worker (`NoneAssumption`) and a worker
is neither `"admin"` nor `"customer"` (`ViewersAssumption`), that workers are finitely many where
their earnings are added up (`WorkersAssumption`) and bookings numbered where a page
picks the oldest (`BookingsAssumption`), that the free mark is not a request
(`FreeAssumption`), that the contacts are of bookings
(`ContactsAssumption`), that there is a booking and each has a service, that
requests in flight are finitely many (`CallsAssumption`), and the types of the bounds.

### The atomic marketplace: BookingsProofs, ViewsProofs

| Theorem | States |
|---|---|
| `BookingsTypeCorrect` | the tables are well typed |
| `TimelineIsCoherent` | status, worker and timestamps tell one story |
| `MoneyFollowsStatus` | paid means closed; closed means paid or rated |
| `AggregatesAreTrue` | an aggregate covers exactly the reviews in the table |
| `JobCountersAreTrue` | `jobs_completed` is the number of finished jobs |
| `JobsAreSomewhere` | a job is in the right pools and on the right list |
| `AccountPhonesStayPrivate` | the accounts' numbers are shown to the parties of a live job only |
| `OnlyContactsAreUnfiltered` | without contacts at addresses, so are all numbers (`PhonesAreForLiveJobs`) |
| `BooksDoBalance` | earnings and commission make up the gross value, for any prices |

`BooksInv` is the conjunction of the properties. None is inductive alone: that
rating an unpaid job closes it keeps `MoneyMatchesStatus` only because a job with
a review has a worker, which is the timeline's business. `Coherent` names what
`Timeline` says of one row, so that the table of transitions is dealt with in lemmas
about rows (`TransitionCoherent`, `AttachCoherent`, `FinishCoherent`). Counting needs
`FinishedAreFinite`, for the bookings may be infinitely many. `TransitionColumns`,
`AttachColumns` and `FinishColumns` say once, for all the modules, what the
lifecycle writes to a row.

The views follow from `BooksInv` without a further induction. The totals are
sums over sets (`SumFunctionOnSet`), and what a fold computes is a matter of
induction over the set, which the provers cannot do. `ViewsProofs` therefore takes a
smallest counterexample instead: were there sets on which the fold did not satisfy
the equation of a sum, there would be one with the least cardinality (`Smallest`),
and taking one element out of it gives the contradiction (`SumEquation`). From it
come the sum of a union (`SumOfUnion`), of a sum of sums (`SumOfSums`), and
`SumByParts`: the jobs of all workers together are the jobs that are done
(`DoneIsEarned`), and each job's total is commission and payout (`MoneySplits`,
which is `quote()`). Workers have to be finitely many for a dashboard to add up
(`WorkersAssumption`); that the finished jobs are is proved.

### Overlapping transactions: BookingTxnProofs

| Theorem | States |
|---|---|
| `TypeCorrect` | tables, requests and locks are well typed |
| `ClaimsAreExclusive` | a claim past its check holds the lock of an open job |
| `OffersAreCoherent` | a pending job has nobody on it, an offer has somebody |
| `EvidenceInOrder` | closed implies completed implies started implies accepted; money and ratings only for completed work |
| `DispatchIsCleared` | the worker on a job is cleared for its trade |
| `AggregatesAreHonest` | an aggregate never counts a rating that is not committed |
| `RatingsAreOnce` | a committed rating is never replaced |

None of these is inductive. A request that read the booking long ago may commit
now, on a row it has never seen, so the invariant has to say of every request in
flight that what it is about to write is harmless. `IInv` is the conjunction of

* `RowInv(b)`: what a committed row satisfies. Statuses imply their timestamps,
  but not the reverse: after a race an `assigned` booking may well have been
  started once. This is why `EvidenceInOrder` speaks of timestamps.
* `Promise(r)`: what request `r` knows whatever others commit. Timestamps of
  acceptance, start and completion are never cleared, so a request that read
  them may rely on them (`start_work` on the acceptance, `complete` on the
  start, `review` on the completion). Clearances are never taken away. A ready
  claim holds the lock, so its row is still open. A ready review has found none
  before it, and its aggregate contains only committed reviews and its own.
* `OneInsert`: two reviews of one booking are never both inserted (the unique
  index), without which the promise of a ready review would not survive.

`PromiseFrame` says which changes keep a promise; `QuietStep` and `CommitStep`
reduce every action to it: a step that writes nothing, and a step that writes
one row. The rest is one lemma per group of actions, `NextIInv` puts them
together, and each theorem follows from `IInv`.

The other half of the module asks what overlapping breaks. Without an assumption
about `Overlapping` the documented promises are false, as two runs show;
the theorems name the assumption under which each is true, and so say whose fault
it is otherwise.

| Theorem | Assumes of `Overlapping` | States |
|---|---|---|
| `ClaimsAreSerializable` | `SafeOverlap` | `BookingTxn` implements `Bookings` (`Serializable`) |
| `BooksStayTrue` | `SafeOverlap` | timeline, money, ratings and counters are as true as in `Bookings` |
| `JumpsAreImpossible` | `SafeOverlap` | the status moves along the transition table only |
| `OnlyAssignmentsDoubleBook` | no `assign` | a job that was taken keeps its worker (`NoDoubleBooking`) |
| `OnlyRatingsLoseRatings` | `LoneReviews` | stored ratings match the reviews table (`RatingCountIsTrue`) |

`SafeOverlap`: any two operations of `Overlapping` are in `SafePairs`, the list of
"Which operations may overlap"; any number of requests may be in flight, over
any bookings. Ratings may overlap if there is one booking to rate: `LoneReviews` is only
this part. Operations that are not in `Overlapping` still happen, one at a time
with nothing else in flight. No assumption can be dropped: an overlapping
assignment and two ratings of one worker for different jobs are what the two runs exhibit,
and TLC has a counterexample for every pair that is not safe.

The refinement mapping is the identity: the committed tables are the variables of
`Bookings`. Every step has to be a step of `Bookings` on them or change none. The
difficulty is in the commits, whose guards were evaluated earlier. `Serial` is the
invariant for it. `Fresh` says what each request has read is still true, guard by
guard: a ready move may still be made by its worker, a completion has the payment and
the counter as they are, a rating's aggregate is what would be computed now.
`Exclusive` says which requests can be in flight together, and the invariant of
`Bookings` itself is the third conjunct: it holds because each step so far was one of
`Bookings` (`NextKeepsBooks`).
A move that somebody has made already is a stutter
(`Made`, `MovesAreIdempotent`): the second of two clicks on "accept" writes the columns
as they are. `CommitRefines` is the refinement of a step, `CommitKeepsFresh` the heart
of the invariant: a request that commits under another leaves the other's guard true,
because the row is locked, or no row is in a status for both (`WhereItCanBe`), or the
other move is still allowed (an accepted job can be cancelled), or it is void by now.
The other two theorems need a single conjunct of `Fresh` (`OfferStands`, `StatsStand`)
and `RequestMoves`, which abstracts every step but a commit. TLC checked `Fresh` and
`Exclusive` for each largest set of safe pairs before they were proved, with three requests
on one booking and with two on two.

### Workers and trades: WorkerTradesProofs

| Theorem | States |
|---|---|
| `TradesTypeCorrect` | profiles, requests and calls are well typed |
| `ApprovalsClear` | an approved request means a clearance |
| `RequestsAreUnique` | one pending request per worker and trade |
| `TradesStayFrozen`, `DecisionsStay` | the two action properties, until calls race |
| `RosterImplemented` | `TradesSpec` implies `Roster`'s specification |

`TradesInv` adds what a call in flight may rely on: a declaration drops nothing
(its trades were empty when it read them, so every pair it will insert is new or the
index refuses it), a decision names the pair its request still has, an approval
inserts the clearance unless it is there (`Promise`); calls that write rows
of one worker are two only if the worker is in `raced` (`NoSecretRace`); and no two
calls insert one row (`OwnIds`). The refinement is then a step-by-step argument: a
commit of a declaration or an approval is a sequence of clearances that `Roster`
allows in one step, everything else leaves what it maps alone.

### Sessions and the web client: WebClientProofs

The theorems about the client hold for any `MaxSessions`, exchanges and calls; the
first two for any number of tabs and any faults, the last two under `OnePage`:
one tab, which is not left while it refreshes. The sections above say why
that is needed.

| Theorem | States |
|---|---|
| `ClientTypeCorrect` | page, calls, exchanges and rows are well typed |
| `ExchangedStaysRevoked` | an exchanged session is revoked for good |
| `TokensAreExchangedOnce` | a session has at most one successor |
| `PageHoldsNewest` | the page keeps an exchanged token only while it awaits that exchange |

`ServerInv` is inductive for the server by itself: a successor is younger than the
row it replaces and that row is revoked. For the page, `ChainInv` adds what is
true of the exchanges in flight: the one awaited is of the stored token and it is
the only one of it (`Single`, `StoreIsAwaited`), and an answer that carries new
tokens carries ones nobody has exchanged (`AnswersAreFresh`). The
hard case is an exchange the page gave up on: it goes on at the server, and what
keeps it harmless is that the page has dropped its token.

### Orders and money: CheckoutProofs

| Theorem | States |
|---|---|
| `CheckoutTypeCorrect` | everything on the page and in the tables is well typed |
| `MoneyAddsUp` | total, commission and payout add up, and the commission is off by half a paisa at most |
| `PricesAreAsShown` | the price charged was shown, or the catalogue changed since |
| `AddressesAreLive` | no order at an address that was removed before `create_booking` began |
| `DefaultIsUnique` | one default, until two addresses are added at once |

`QuoteIsExact` is the arithmetic, for all numbers: `Rounding` bounds the error of
`RoundHalfUp`, and the rest is nonlinear only in names. The page's and the order's
knowledge (`PageKnows`, `OrderKnows`) is the invariant behind the prices: either
the number of changes has grown since the page was opened, or what it holds is the
catalogue's. For the defaults, `AddressInv` says what a call in flight has found:
the rows it will clear contain every default there is, as long as nobody else adds.

### Codes: OtpProofs

| Theorem | States |
|---|---|
| `OtpTypeCorrect` | keys, counters and requests are well typed |
| `LiveCodesAreFresh` | a code in Redis is unused, and guessed at most `OTP_MAX_ATTEMPTS` times |
| `GuessesStayBounded` | no code is guessed more often than that and once for each request in flight |
| `DailyCapStays` | no more messages than the daily counters allow |
| `NumbersHaveOneRole` | one account, one role |
| `CountersDoExpire` | a counter has a time to live or is about to, if nothing fails between INCR and EXPIRE |

What bounds the guesses is how many requests stand between the counter they passed
and the comparison. So the invariant counts requests: for a live code the guesses
made and the requests admitted to try it (`Trying`) are within the counter and
within the limit (`TriesAreCounted`), and guesses and requests that still hold a
code (`Holding`) are within the limit and the number of requests
(`GuessesAreHeld`): whoever reads a code reads a live one. `MessagesAreCounted`
is the same for messages: those sent and those admitted (`Sending`) fit in the days
that were begun, the last of which has room for what its counter has not counted
yet. `Counting` is the lemma about sets of requests that differ in one, and
there is one lemma for each step that moves a count.

### The customer's pages: OrderPagesProofs

| Theorem | States |
|---|---|
| `PagesTypeCorrect` | what the page shows, its polls, its own request and its prompt are well typed |
| `WavedStaysAway` | where localStorage has room for the dismissal, a prompt that was waved away stays away |
| `PromptsAreDue` | the job an open prompt asks about is finished on the server |

A page may be arbitrarily old and its polls may overtake each other, so nothing it
shows is true for good, with one exception: a finished job stays finished. `Honest`
says that of everything the page shows, every answer under way and the answer to the
customer's own request. `Waved` says that what was waved away is in localStorage and
is not what the dialog asks about; without `HasRoom` it is false (see Variations).
The prompt is the oldest of the unrated jobs, which is one of them because bookings
are numbered (`OldestIsOne`). `WavedStaysAway` assumes `HasRoom`, the other two nothing.
That a finished job stays finished is true of the atomic server this page is composed with
and not of `BookingTxn`, where a stale commit may take it back.

### Only model-checked

Liveness: `RequestsEnd`, `CallsEnd`, `SettlesOnPage` and `ListCatchesUp` rest on
fairness and `ENABLED`, which are out of the prover's reach. Every other property
of a passing run is a theorem. `NoDoubleBooking`, `RatingCountIsTrue`
and `PhonesAreForLiveJobs` are theorems under an assumption and are refuted by a run
without it; the fourth refuted promise, `StillDeniedMeansGone`, is in no theorem. The type
invariants of `Bookings`, `Checkout`, `Otp` and `OrderPages` are proved and not in a
run.

## Not modelled

* Migrations (`alembic/`): they create the tables and indexes that the modules
  take from `app/models`, and run while the service is stopped.
* Configuration, logging, health checks, the SMS gateway: no state, or I/O only.
* Worker, admin and account pages: they poll with the hook that `OrderPages`
  models and send the calls of the modelled endpoints.
* `seed-admin` and `seed-demo`: scripts for one operator before anything else runs.
  Two overlapping `seed_catalog` could insert an option twice; deployments do not
  overlap.
* `PATCH /users/me`: one UPDATE behind a unique index on the e-mail.
* Test phone numbers, whose code never changes; references, schedules, notes,
  history rows.

## Plan

*Done.* Everything listed under Modules, with the invariants and action properties of
every run proved and both refinements (`Roster` by `WorkerTrades`, `Bookings` by
`BookingTxn`). What would come next, in this order: how many completed
jobs a counter can miss when completions overlap; two customers and two workers in one
composition of `Checkout` and `BookingTxn`; the worker's page with its own buttons.
