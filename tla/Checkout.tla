------------------------------- MODULE Checkout -------------------------------
(***************************************************************************)
(* Booking a service: the page that is filled in (app/book/page.tsx), the  *)
(* catalogue it shows (models/catalog.py, seed_catalog), the customer's    *)
(* saved addresses (api/v1/addresses.py) and create_booking.               *)
(*                                                                         *)
(* The page works with what it loaded when it was opened.  Meanwhile a     *)
(* deployment may change prices, and the customer may add or remove        *)
(* addresses on another device.  Every API call is a transaction that      *)
(* reads first and writes when it commits; seed_catalog writes everything  *)
(* in one.  One service and one customer; the catalogue gets to the page   *)
(* in one step.                                                            *)
(***************************************************************************)
EXTENDS Pricing, FiniteSets

CONSTANTS Packages,      \* the options of the service
          Releases,      \* what a deployment sets: a rate and the prices
          Deployed,      \* the release in place at the start
          Quantities,    \* how many of an option may be ordered
          MaxAddresses, MaxBookings, MaxChanges,  \* bounds
          Calls,         \* slots for address calls in flight
          NoPackage      \* no option chosen

Prices == Nat \ {0}

Catalogue == [rate : 0..1000, price : [Packages -> Prices]]

ASSUME ReleasesAssumption == Deployed \in Catalogue /\ Releases \subseteq Catalogue

ASSUME QuantitiesAssumption == Quantities \subseteq Nat \ {0}

ASSUME NoPackageAssumption == NoPackage \notin Packages

ASSUME BoundsAssumption ==
  MaxAddresses \in Nat /\ MaxBookings \in Nat /\ MaxChanges \in Nat

VARIABLES catalogue, offered,  \* services and service_packages; is_active
          changes,             \* how often they have changed
          address,             \* customer_addresses, in order of creation
          call,                \* address calls in flight
          overlapped,          \* for the properties: whether two addresses
                               \* have been added at once
          page,                \* the booking page
          listing,             \* GET /addresses in flight
          order,               \* POST /bookings in flight
          booked               \* the bookings and their payments

catalogueVars == <<catalogue, offered, changes>>
addressVars == <<address, call, overlapped>>
vars == <<catalogueVars, addressVars, page, listing, order, booked>>

Addresses == 1..MaxAddresses
BookingIds == 1..MaxBookings

AddressRow == [exists : BOOLEAN, is_default : BOOLEAN, is_deleted : BOOLEAN]
NoAddress == [exists |-> FALSE, is_default |-> FALSE, is_deleted |-> FALSE]

\* The rows it has found to write, and whether a default is made, or removed.
Call == [op : {"idle", "add", "insert", "remove"}, rows : SUBSET Addresses,
         make_default : BOOLEAN]
IdleCall == [op |-> "idle", rows |-> {}, make_default |-> FALSE]

\* pkg and addressId are the customer's choices, services and addresses what
\* they were chosen from; as_of is when services was loaded.
Page == [open : BOOLEAN, services : [Packages -> Prices \cup {0}], as_of : Nat,
         addresses : SUBSET Addresses,
         pkg : Packages \cup {NoPackage}, addressId : Addresses \cup {0}]
ClosedPage == [open |-> FALSE, services |-> [p \in Packages |-> 0], as_of |-> 0,
               addresses |-> {}, pkg |-> NoPackage, addressId |-> 0]

Listing == [phase : {"idle", "sent", "answered"}, addresses : SUBSET Addresses,
            preferred : Addresses \cup {0}]
IdleListing == [phase |-> "idle", addresses |-> {}, preferred |-> 0]

Money == [unit_price : Nat, quantity : Nat, total_amount : Nat,
          commission_rate : 0..1000, commission_amount : Nat, worker_payout : Nat]
NoMoney == Quote(0, 0, 0)

\* What is sent, what the server has read, and, for the properties, the price
\* the page showed, whether the catalogue changed after the page was opened,
\* and whether the address was gone when the server began with the order.
Order == [phase : {"idle", "sent", "loaded", "ready", "refused"},
          pkg : Packages \cup {NoPackage}, addressId : Addresses \cup {0},
          quantity : Nat, unit_price : Nat, priced : Money,
          seen : Nat, gone : BOOLEAN, as_of : Nat, changed : BOOLEAN]
IdleOrder == [phase |-> "idle", pkg |-> NoPackage, addressId |-> 0,
              quantity |-> 0, unit_price |-> 0, priced |-> NoMoney,
              seen |-> 0, gone |-> FALSE, as_of |-> 0, changed |-> FALSE]

\* A booking with the amount of its payment, and what its order knew.
Booked == [exists : BOOLEAN, money : Money, amount : Nat,
           addressId : Addresses \cup {0},
           seen : Nat, gone : BOOLEAN, changed : BOOLEAN]
NotBooked == [exists |-> FALSE, money |-> NoMoney, amount |-> 0, addressId |-> 0,
              seen |-> 0, gone |-> FALSE, changed |-> FALSE]

CheckoutTypeOK ==
  /\ catalogue \in Catalogue /\ offered \in [Packages -> BOOLEAN]
  /\ changes \in Nat
  /\ address \in [Addresses -> AddressRow]
  /\ call \in [Calls -> Call]
  /\ overlapped \in BOOLEAN
  /\ page \in Page
  /\ listing \in Listing
  /\ order \in Order
  /\ booked \in [BookingIds -> Booked]

CheckoutInit ==
  /\ catalogue = Deployed
  /\ offered = [p \in Packages |-> TRUE]
  /\ changes = 0
  /\ address = [a \in Addresses |-> NoAddress]
  /\ call = [c \in Calls |-> IdleCall]
  /\ overlapped = FALSE
  /\ page = ClosedPage
  /\ listing = IdleListing
  /\ order = IdleOrder
  /\ booked = [b \in BookingIds |-> NotBooked]

-----------------------------------------------------------------------------
Kept(a) == address[a].exists /\ ~address[a].is_deleted
KeptOnes == {a \in Addresses : Kept(a)}
Removed == {a \in Addresses : address[a].is_deleted}
Defaults == {a \in KeptOnes : address[a].is_default}

First(S) == CHOOSE a \in S : \A b \in S : a <= b
NextFree(S) == First({a \in Addresses : a \notin S})

\* Mutant: the bookings nobody has taken yet follow the catalogue.
AfterDeployment_Repriced(b, release) ==
  IF ~booked[b].exists THEN booked[b]
  ELSE [booked[b] EXCEPT !.money = Quote(
          release.price[CHOOSE p \in Packages : TRUE], release.rate, @.quantity)]

\* The price was copied onto the booking: a deployment rewrites no history.
AfterDeployment(b, release) == booked[b]

\* seed_catalog: names, rates and prices are set, and everything is offered.
SeedCatalog(release) ==
  /\ changes < MaxChanges
  /\ catalogue' = release
  /\ offered' = [p \in Packages |-> TRUE]
  /\ changes' = changes + 1
  /\ booked' = [b \in BookingIds |-> AfterDeployment(b, release)]
  /\ UNCHANGED <<addressVars, page, listing, order>>

\* Somebody with access to the database withdraws an option.
Retire(p) ==
  /\ changes < MaxChanges /\ offered[p]
  /\ offered' = [offered EXCEPT ![p] = FALSE]
  /\ changes' = changes + 1
  /\ UNCHANGED <<catalogue, addressVars, page, listing, order, booked>>

-----------------------------------------------------------------------------
Adding == {c \in Calls : call[c].op \in {"add", "insert"}}

\* POST /addresses: is there any yet?
AddLoad(c, is_default) ==
  /\ call[c].op = "idle"
  /\ overlapped' = (overlapped \/ Adding # {})
  /\ LET make_default == is_default \/ KeptOnes = {} IN
       call' = [call EXCEPT ![c] = [IdleCall EXCEPT
                  !.op = IF make_default THEN "add" ELSE "insert",
                  !.make_default = make_default]]
  /\ UNCHANGED <<catalogueVars, address, page, listing, order, booked>>

\* _clear_other_defaults finds the defaults of this moment.  It locks them, so
\* that another such UPDATE of them waits, and then finds nothing to change.
AddClear(c) ==
  /\ call[c].op = "add"
  /\ call' = [call EXCEPT ![c].op = "insert", ![c].rows = Defaults]
  /\ UNCHANGED <<catalogueVars, address, overlapped, page, listing, order, booked>>

\* Mutant: the other addresses keep their mark.
Cleared_Nothing(row) == row

Cleared(row) == [row EXCEPT !.is_default = FALSE]

\* The row is inserted, and both are committed.
AddCommit(c) ==
  /\ call[c].op = "insert"
  /\ LET a == NextFree({b \in Addresses : address[b].exists}) IN
       /\ \E b \in Addresses : ~address[b].exists
       /\ address' = [b \in Addresses |->
            IF b = a THEN [exists |-> TRUE, is_default |-> call[c].make_default,
                           is_deleted |-> FALSE]
            ELSE IF b \in call[c].rows THEN Cleared(address[b]) ELSE address[b]]
  /\ call' = [call EXCEPT ![c] = IdleCall]
  /\ UNCHANGED <<catalogueVars, overlapped, page, listing, order, booked>>

\* DELETE /addresses/{id}
RemoveLoad(c, a) ==
  /\ call[c].op = "idle" /\ Kept(a)
  /\ call' = [call EXCEPT ![c] = [op |-> "remove", rows |-> {a},
                 make_default |-> address[a].is_default]]
  /\ UNCHANGED <<catalogueVars, address, overlapped, page, listing, order, booked>>

\* Both columns are assigned, but one that already has the value is not sent.
RemoveCommit(c) ==
  /\ call[c].op = "remove"
  /\ address' = [a \in Addresses |->
       IF a \in call[c].rows
         THEN [address[a] EXCEPT !.is_deleted = TRUE,
                                 !.is_default = @ /\ ~call[c].make_default]
         ELSE address[a]]
  /\ call' = [call EXCEPT ![c] = IdleCall]
  /\ UNCHANGED <<catalogueVars, overlapped, page, listing, order, booked>>

\* The call fails, or the row cannot be inserted.
CallFail(c) ==
  /\ call[c].op # "idle"
  /\ call' = [call EXCEPT ![c] = IdleCall]
  /\ UNCHANGED <<catalogueVars, address, overlapped, page, listing, order, booked>>

-----------------------------------------------------------------------------
\* The page is opened: it gets the catalogue, withdrawn options included, and
\* asks for the addresses.
OpenPage ==
  /\ ~page.open
  /\ \E b \in BookingIds : ~booked[b].exists
  /\ page' = [ClosedPage EXCEPT !.open = TRUE, !.services = catalogue.price,
                                !.as_of = changes]
  /\ listing' = [IdleListing EXCEPT !.phase = "sent"]
  /\ UNCHANGED <<catalogueVars, addressVars, order, booked>>

\* loadAddresses again: an address has been saved, or the login dialog closed.
LoadAddresses ==
  /\ page.open /\ listing.phase = "idle"
  /\ listing' = [IdleListing EXCEPT !.phase = "sent"]
  /\ UNCHANGED <<catalogueVars, addressVars, page, order, booked>>

\* GET /addresses: the default first, then the oldest.
ServeAddresses ==
  /\ listing.phase = "sent"
  /\ listing' = [phase |-> "answered", addresses |-> KeptOnes,
       preferred |-> IF Defaults # {} THEN First(Defaults)
                     ELSE IF KeptOnes # {} THEN First(KeptOnes) ELSE 0]
  /\ UNCHANGED <<catalogueVars, addressVars, page, order, booked>>

\* The answer replaces the list, and the choice if there is anything to choose.
ReceiveAddresses ==
  /\ listing.phase = "answered"
  /\ page' = IF ~page.open THEN page ELSE
       [page EXCEPT !.addresses = listing.addresses,
          !.addressId = IF listing.preferred # 0 THEN listing.preferred ELSE @]
  /\ listing' = IdleListing
  /\ UNCHANGED <<catalogueVars, addressVars, order, booked>>

ChoosePackage(p) ==
  /\ page.open
  /\ page' = [page EXCEPT !.pkg = p]
  /\ UNCHANGED <<catalogueVars, addressVars, listing, order, booked>>

ChooseAddress(a) ==
  /\ page.open /\ a \in page.addresses
  /\ page' = [page EXCEPT !.addressId = a]
  /\ UNCHANGED <<catalogueVars, addressVars, listing, order, booked>>

\* "Confirm booking"; the button is disabled while an order is under way.  The
\* page orders one, other clients of the API may order more.
Submit(quantity) ==
  /\ page.open /\ order.phase = "idle"
  /\ page.pkg # NoPackage /\ page.addressId # 0
  /\ order' = [IdleOrder EXCEPT !.phase = "sent", !.pkg = page.pkg,
                 !.addressId = page.addressId, !.quantity = quantity,
                 !.seen = page.services[page.pkg], !.as_of = page.as_of]
  /\ UNCHANGED <<catalogueVars, addressVars, page, listing, booked>>

-----------------------------------------------------------------------------
\* create_booking reads the package.
LoadPackage ==
  /\ order.phase = "sent"
  /\ order' = IF offered[order.pkg]
       THEN [order EXCEPT !.phase = "loaded",
               !.unit_price = catalogue.price[order.pkg],
               !.changed = order.as_of # changes,
               !.gone = order.addressId \in Removed]
       ELSE [order EXCEPT !.phase = "refused"]
  /\ UNCHANGED <<catalogueVars, addressVars, page, listing, booked>>

\* Mutant: an address that was removed will do.
Usable_Removed(a) == address[a].exists

Usable(a) == address[a].exists /\ ~address[a].is_deleted

\* Then the service and the address, and works out the money.
LoadService ==
  /\ order.phase = "loaded"
  /\ order' = IF Usable(order.addressId)
       THEN [order EXCEPT !.phase = "ready",
               !.priced = Quote(order.unit_price, catalogue.rate, order.quantity)]
       ELSE [order EXCEPT !.phase = "refused"]
  /\ UNCHANGED <<catalogueVars, addressVars, page, listing, booked>>

\* The amount of the payment row.
PaymentAmount(priced) == priced.total_amount

\* The booking and its payment are committed; the page goes to the order.
CommitOrder ==
  /\ order.phase = "ready"
  /\ \E b \in BookingIds :
       /\ ~booked[b].exists
       /\ booked' = [booked EXCEPT ![b] =
            [exists |-> TRUE, money |-> order.priced,
             amount |-> PaymentAmount(order.priced), addressId |-> order.addressId,
             seen |-> order.seen, gone |-> order.gone, changed |-> order.changed]]
  /\ order' = IdleOrder
  /\ page' = ClosedPage
  /\ UNCHANGED <<catalogueVars, addressVars, listing>>

\* The order is refused or fails: a message, and the page stays as it is.
FailOrder ==
  /\ order.phase # "idle"
  /\ order' = IdleOrder
  /\ UNCHANGED <<catalogueVars, addressVars, page, listing, booked>>

CheckoutNext ==
  \/ \E release \in Releases : SeedCatalog(release)
  \/ \E p \in Packages : Retire(p) \/ ChoosePackage(p)
  \/ \E c \in Calls : \/ \E is_default \in BOOLEAN : AddLoad(c, is_default)
                      \/ \E a \in Addresses : RemoveLoad(c, a)
                      \/ AddClear(c) \/ AddCommit(c) \/ RemoveCommit(c) \/ CallFail(c)
  \/ OpenPage \/ LoadAddresses \/ ServeAddresses \/ ReceiveAddresses
  \/ \E a \in Addresses : ChooseAddress(a)
  \/ \E quantity \in Quantities : Submit(quantity)
  \/ LoadPackage \/ LoadService \/ CommitOrder \/ FailOrder

CheckoutSpec == CheckoutInit /\ [][CheckoutNext]_vars

-----------------------------------------------------------------------------
Bookings == {b \in BookingIds : booked[b].exists}

(***************************************************************************)
(* "Commission plus payout always equals the total exactly" (quote), the   *)
(* commission is the rate's to half a paisa, and the payment is for the    *)
(* total, whichever prices and rates of which deployments went into it.    *)
(***************************************************************************)
MoneyIsExact ==
  \A b \in Bookings : /\ Exact(booked[b].money)
                      /\ booked[b].amount = booked[b].money.total_amount

(***************************************************************************)
(* "Fixed price, shown before you commit": the booking carries the price   *)
(* the page showed, for good, unless the catalogue changed between the     *)
(* loading of the page and the order.                                      *)
(***************************************************************************)
PriceAsShown ==
  \A b \in Bookings :
     booked[b].money.unit_price = booked[b].seen \/ booked[b].changed

(***************************************************************************)
(* The page's list of addresses may be old: no job is booked at an address *)
(* that is removed before create_booking begins, be it after the customer  *)
(* confirmed.  (A removal between its check and its commit goes unnoticed: *)
(* the address is read without a lock.)                                    *)
(***************************************************************************)
NotAtRemovedAddress ==
  \A b \in Bookings : ~booked[b].gone

(***************************************************************************)
(* "First address is always the default", and one is: until two are added  *)
(* at once, when each UPDATE misses the row the other has yet to commit, a *)
(* customer has at most one default, not a removed one, and there is one   *)
(* if no address was ever removed.                                         *)
(***************************************************************************)
OneDefault ==
  ~overlapped =>
    /\ \A a, b \in Addresses : address[a].is_default /\ address[b].is_default => a = b
    /\ \A a \in Addresses : address[a].is_default => Kept(a)
    /\ Removed = {} /\ KeptOnes # {} => Defaults # {}
=============================================================================
