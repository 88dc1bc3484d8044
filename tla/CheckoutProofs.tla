---------------------------- MODULE CheckoutProofs ----------------------------
(***************************************************************************)
(* That the money adds up for every price, rate and quantity there can be, *)
(* and what a booking made from an old page is still sure of, for any      *)
(* catalogues, addresses, calls and bookings.                              *)
(***************************************************************************)
EXTENDS Checkout, WellFoundedInduction, TLAPS

(***************************************************************************)
(* Rounding halves up is off by half a unit at most, and stays between the *)
(* bounds that the exact amount is between.                                *)
(***************************************************************************)
LEMMA Rounding ==
  ASSUME NEW n \in Nat, NEW total \in Nat, n <= 1000 * total
  PROVE  LET r == RoundHalfUp(n) IN
           /\ r \in Nat /\ r <= total
           /\ -500 < 1000 * r - n /\ 1000 * r - n <= 500
<1> DEFINE r == (n + 500) \div 1000
<1>1. r \in Int /\ 1000 * r <= n + 500 /\ n + 500 < 1000 * r + 1000
  OBVIOUS
<1> HIDE DEF r
<1>2. r >= 0 /\ r <= total
  BY <1>1
<1>3. -500 < 1000 * r - n /\ 1000 * r - n <= 500
  BY <1>1
<1> QED
  BY <1>1, <1>2, <1>3 DEF RoundHalfUp, r

(***************************************************************************)
(* The commission and the payout of every quote make up the total.         *)
(***************************************************************************)
LEMMA QuoteIsExact ==
  ASSUME NEW price \in Nat, NEW rate \in 0..1000, NEW quantity \in Nat
  PROVE  LET q == Quote(price, rate, quantity) IN
           q \in Money /\ q.unit_price = price /\ Exact(q)
<1> DEFINE total == price * quantity
           share == total * rate
           r == RoundHalfUp(share)
<1>1. total \in Nat
  OBVIOUS
<1> HIDE DEF total
<1>2. share \in Nat /\ share <= 1000 * total
  BY <1>1
<1> HIDE DEF share
<1>3. /\ r \in Nat /\ r <= total
      /\ -500 < 1000 * r - share /\ 1000 * r - share <= 500
  BY <1>1, <1>2, Rounding
<1> HIDE DEF r
<1> DEFINE q == [unit_price |-> price, quantity |-> quantity, total_amount |-> total,
                 commission_rate |-> rate, commission_amount |-> r,
                 worker_payout |-> total - r]
<1>4. Quote(price, rate, quantity) = q
  BY DEF Quote, Commission, Payout, total, share, r
<1>5. q \in Money
  <2>1. total - r \in Nat
    BY <1>1, <1>3
  <2> QED
    BY <1>1, <1>3, <2>1 DEF Money
<1>6. Exact(q)
  <2>1. r + (total - r) = total /\ r >= 0 /\ total - r >= 0
    BY <1>1, <1>3
  <2>2. total = price * quantity /\ total * rate = share
    BY DEF total, share
  <2> QED
    BY <1>3, <2>1, <2>2 DEF Exact
<1> QED
  BY <1>4, <1>5, <1>6

(***************************************************************************)
(* The oldest of some addresses is one of them.                            *)
(***************************************************************************)
LEMMA FirstIsOne ==
  ASSUME NEW S \in SUBSET Addresses, S # {}
  PROVE  First(S) \in S
<1>1. S \subseteq Nat
  BY BoundsAssumption DEF Addresses
<1>2. PICK a \in S : \A b \in S : <<b, a>> \notin OpToRel(<, Nat)
  BY <1>1, WFMin, NatLessThanWellFounded
<1>3. \A b \in S : a <= b
  <2>1. OpToRel(<, Nat) = {ss \in Nat \X Nat : ss[1] < ss[2]}
    BY DEF OpToRel
  <2>2. \A b \in S : b \in Nat /\ a \in Nat /\ ~(b < a)
    <3> SUFFICES ASSUME NEW b \in S, b < a PROVE FALSE
      BY <1>1
    <3>1. <<b, a>> \in Nat \X Nat /\ <<b, a>>[1] < <<b, a>>[2]
      BY <1>1
    <3> QED
      BY <1>2, <2>1, <3>1
  <2> QED
    BY <2>2
<1> QED
  BY <1>3 DEF First

-----------------------------------------------------------------------------
(***************************************************************************)
(* What a page and an order in flight know: either the catalogue has       *)
(* changed since, or the prices they hold are the catalogue's.             *)
(***************************************************************************)
PageKnows ==
  /\ page.as_of <= changes
  /\ page.open /\ page.as_of = changes => page.services = catalogue.price

OrderKnows ==
  /\ order.as_of <= changes
  /\ order.phase # "idle" => order.pkg \in Packages /\ order.addressId \in Addresses
  /\ order.phase = "sent" /\ order.as_of = changes =>
       order.seen = catalogue.price[order.pkg]
  /\ order.phase = "loaded" => order.unit_price = order.seen \/ order.changed
  /\ order.phase = "ready" =>
       /\ order.priced.unit_price = order.seen \/ order.changed
       /\ Exact(order.priced) /\ ~order.gone
  /\ order.phase # "idle" /\ order.gone => order.addressId \in Removed

(***************************************************************************)
(* What an address call in flight knows.  A row never becomes a default    *)
(* after its insertion, so that a removal that found it none is right to   *)
(* leave the column alone; and while nobody else adds, an insertion has    *)
(* found every default there is.                                           *)
(***************************************************************************)
CallKnows(c) ==
  LET k == call[c] IN
    /\ \A a \in k.rows : address[a].exists
    /\ k.op = "remove" =>
         k.rows # {} /\ \A a \in k.rows : address[a].is_default => k.make_default
    /\ k.op = "add" => k.make_default
    /\ k.op = "insert" /\ ~k.make_default =>
         k.rows = {} /\ (KeptOnes # {} \/ Removed # {})
    /\ k.op = "insert" /\ k.make_default /\ ~overlapped => Defaults \subseteq k.rows

AddsApart == ~overlapped => \A c, d \in Adding : c = d

RemovedExist == \A a \in Addresses : address[a].is_deleted => address[a].exists

AddressTypes ==
  /\ address \in [Addresses -> AddressRow]
  /\ call \in [Calls -> Call]
  /\ overlapped \in BOOLEAN

AddressInv ==
  /\ AddressTypes
  /\ RemovedExist
  /\ AddsApart
  /\ OneDefault
  /\ \A c \in Calls : CallKnows(c)

OrderTypes ==
  /\ catalogue \in Catalogue /\ offered \in [Packages -> BOOLEAN]
  /\ changes \in Nat
  /\ page \in Page
  /\ listing \in Listing
  /\ order \in Order
  /\ booked \in [BookingIds -> Booked]

OrderInv ==
  /\ OrderTypes
  /\ PageKnows
  /\ OrderKnows
  /\ MoneyIsExact
  /\ PriceAsShown
  /\ NotAtRemovedAddress

CheckoutInv == AddressInv /\ OrderInv

-----------------------------------------------------------------------------
(***************************************************************************)
(* Addresses: the promises of the calls that a step leaves alone.          *)
(***************************************************************************)
LEMMA CallKnowsFrame ==
  ASSUME AddressInv, NEW d \in Calls, call'[d] = call[d],
         \A a \in Addresses : address[a].exists =>
            address'[a].exists /\ (address'[a].is_default => address[a].is_default),
         Removed \subseteq Removed',
         KeptOnes \subseteq KeptOnes' \cup Removed',
         overlapped => overlapped',
         ~overlapped' /\ call[d].op = "insert" => Defaults' \subseteq Defaults
  PROVE  CallKnows(d)'
<1>1. CallKnows(d) /\ call[d].rows \subseteq Addresses
  BY DEF AddressInv, AddressTypes, Call
<1> QED
  BY <1>1 DEF CallKnows

LEMMA IdleCallType ==
  /\ IdleCall \in Call
  /\ IdleCall.op = "idle" /\ IdleCall.rows = {}
<1> QED
  BY DEF IdleCall, Call

(***************************************************************************)
(* A call that reads, or ends, and writes no address.                      *)
(***************************************************************************)
LEMMA QuietCallStep ==
  ASSUME AddressInv, NEW c \in Calls, NEW k \in Call,
         call' = [call EXCEPT ![c] = k], UNCHANGED address,
         overlapped' \in BOOLEAN, overlapped => overlapped',
         CallKnows(c)',
         ~overlapped' /\ k.op \in {"add", "insert"} => Adding \subseteq {c}
  PROVE  AddressInv'
<1>1. /\ call'[c] = k
      /\ \A d \in Calls \ {c} : call'[d] = call[d]
      /\ AddressTypes'
  BY DEF AddressInv, AddressTypes
<1>2. /\ KeptOnes' = KeptOnes /\ Removed' = Removed /\ Defaults' = Defaults
      /\ RemovedExist'
  BY DEF AddressInv, RemovedExist, KeptOnes, Removed, Defaults, Kept
<1>3. OneDefault'
  BY <1>2 DEF AddressInv, OneDefault, Kept
<1>4. ASSUME NEW d \in Calls PROVE CallKnows(d)'
  <2>1. CASE d # c
    BY <1>1, <1>2, <2>1, CallKnowsFrame
  <2> QED
    BY <2>1
<1>5. AddsApart'
  <2> SUFFICES ASSUME ~overlapped', NEW d \in Calls, NEW e \in Calls,
                      d \in Adding', e \in Adding'
               PROVE  d = e
    BY DEF AddsApart, Adding
  <2>1. \A f \in Calls \ {c} : f \in Adding' => f \in Adding
    BY <1>1 DEF Adding
  <2>2. c \in Adding' => k.op \in {"add", "insert"}
    BY <1>1 DEF Adding
  <2>3. AddsApart
    BY DEF AddressInv
  <2> QED
    BY <2>1, <2>2, <2>3 DEF AddsApart
<1> QED
  BY <1>1, <1>2, <1>3, <1>4, <1>5 DEF AddressInv

LEMMA AddLoadStep ==
  ASSUME AddressInv, NEW c \in Calls, NEW is_default \in BOOLEAN, AddLoad(c, is_default)
  PROVE  AddressInv'
<1> DEFINE make_default == is_default \/ KeptOnes = {}
           k == [IdleCall EXCEPT !.op = IF make_default THEN "add" ELSE "insert",
                                 !.make_default = make_default]
<1>1. /\ call' = [call EXCEPT ![c] = k]
      /\ overlapped' = (overlapped \/ Adding # {})
      /\ UNCHANGED address
  BY DEF AddLoad
<1>2. /\ k \in Call /\ k.rows = {} /\ k.make_default = make_default
      /\ k.op = IF make_default THEN "add" ELSE "insert"
  BY DEF IdleCall, Call
<1> HIDE DEF k
<1>3. CallKnows(c)'
  <2>1. call'[c] = k
    BY <1>1 DEF AddressInv, AddressTypes
  <2>2. make_default \in BOOLEAN /\ (~make_default => KeptOnes # {})
    OBVIOUS
  <2>3. KeptOnes' = KeptOnes
    BY <1>1 DEF KeptOnes, Kept
  <2> HIDE DEF make_default
  <2> QED
    BY <1>2, <2>1, <2>2, <2>3 DEF CallKnows
<1>4. ~overlapped' => Adding \subseteq {c}
  BY <1>1
<1>5. overlapped' \in BOOLEAN
  BY <1>1 DEF AddressInv, AddressTypes
<1> QED
  BY <1>1, <1>2, <1>3, <1>4, <1>5, QuietCallStep

LEMMA AddClearStep ==
  ASSUME AddressInv, NEW c \in Calls, AddClear(c)
  PROVE  AddressInv'
<1> DEFINE k == [call[c] EXCEPT !.op = "insert", !.rows = Defaults]
<1>1. /\ call[c] \in Call /\ call[c].op = "add"
      /\ CallKnows(c) /\ AddsApart /\ call \in [Calls -> Call]
  BY DEF AddressInv, AddressTypes, AddClear
<1>2. call' = [call EXCEPT ![c] = k] /\ UNCHANGED <<address, overlapped>>
  BY DEF AddClear
<1>3. Defaults \in SUBSET Addresses /\ \A a \in Defaults : address[a].exists
  BY DEF Defaults, KeptOnes, Kept
<1>4. k \in Call /\ k.op = "insert" /\ k.rows = Defaults /\ k.make_default
  BY <1>1, <1>3 DEF Call, CallKnows
<1> HIDE DEF k
<1>5. CallKnows(c)'
  <2>1. call'[c] = k /\ Defaults' = Defaults
    BY <1>1, <1>2 DEF Defaults, KeptOnes, Kept
  <2> QED
    BY <1>2, <1>3, <1>4, <2>1 DEF CallKnows
<1>6. ~overlapped' => Adding \subseteq {c}
  BY <1>1, <1>2 DEF AddsApart, Adding
<1>7. overlapped' \in BOOLEAN
  BY <1>2 DEF AddressInv, AddressTypes
<1> QED
  BY <1>2, <1>4, <1>5, <1>6, <1>7, QuietCallStep

LEMMA RemoveLoadStep ==
  ASSUME AddressInv, NEW c \in Calls, NEW a \in Addresses, RemoveLoad(c, a)
  PROVE  AddressInv'
<1> DEFINE k == [op |-> "remove", rows |-> {a}, make_default |-> address[a].is_default]
<1>1. call' = [call EXCEPT ![c] = k] /\ UNCHANGED <<address, overlapped>> /\ Kept(a)
  BY DEF RemoveLoad
<1>2. address[a] \in AddressRow /\ call \in [Calls -> Call] /\ overlapped \in BOOLEAN
  BY DEF AddressInv, AddressTypes
<1>3. /\ k \in Call /\ k.op = "remove" /\ k.rows = {a}
      /\ k.make_default = address[a].is_default
  BY <1>2 DEF Call, AddressRow
<1> HIDE DEF k
<1>4. CallKnows(c)'
  BY <1>1, <1>2, <1>3 DEF CallKnows, Kept
<1> QED
  BY <1>1, <1>2, <1>3, <1>4, QuietCallStep

LEMMA CallFailStep ==
  ASSUME AddressInv, NEW c \in Calls, CallFail(c)
  PROVE  AddressInv'
<1>1. call' = [call EXCEPT ![c] = IdleCall] /\ UNCHANGED <<address, overlapped>>
  BY DEF CallFail
<1>2. call'[c] = IdleCall /\ overlapped \in BOOLEAN
  BY <1>1 DEF AddressInv, AddressTypes
<1>3. CallKnows(c)'
  BY <1>2, IdleCallType DEF CallKnows
<1> QED
  BY <1>1, <1>2, <1>3, IdleCallType, QuietCallStep

(***************************************************************************)
(* The new address is inserted.  If it is to be the default and nobody     *)
(* else is adding, the defaults it found are all there are.                *)
(***************************************************************************)
LEMMA AddCommitStep ==
  ASSUME AddressInv, NEW c \in Calls, AddCommit(c)
  PROVE  AddressInv' /\ Removed \subseteq Removed'
<1> DEFINE free == {b \in Addresses : b \notin {x \in Addresses : address[x].exists}}
           new == NextFree({x \in Addresses : address[x].exists})
           k == call[c]
<1>1. new \in Addresses /\ ~address[new].exists
  <2>1. free # {} /\ free \in SUBSET Addresses
    BY DEF AddCommit
  <2>2. new = First(free)
    BY DEF NextFree
  <2>3. First(free) \in free
    BY <2>1, FirstIsOne
  <2> QED
    BY <2>2, <2>3
<1>2. address' = [b \in Addresses |->
         IF b = new THEN [exists |-> TRUE, is_default |-> k.make_default,
                          is_deleted |-> FALSE]
         ELSE IF b \in k.rows THEN Cleared(address[b]) ELSE address[b]]
  BY DEF AddCommit
<1>3. /\ k.op = "insert" /\ k \in Call /\ CallKnows(c) /\ c \in Adding
      /\ call' = [call EXCEPT ![c] = IdleCall] /\ UNCHANGED overlapped
      /\ call'[c] = IdleCall
      /\ \A d \in Calls \ {c} : call'[d] = call[d]
  BY DEF AddCommit, AddressInv, AddressTypes, Adding
<1> HIDE DEF new
<1>4. /\ address'[new].exists /\ ~address'[new].is_deleted
      /\ address'[new].is_default = k.make_default
      /\ \A b \in Addresses \ {new} :
           /\ address'[b].exists = address[b].exists
           /\ address'[b].is_deleted = address[b].is_deleted
           /\ b \in k.rows => ~address'[b].is_default
           /\ b \notin k.rows => address'[b].is_default = address[b].is_default
  <2>1. \A b \in Addresses : address[b] \in AddressRow
    BY DEF AddressInv, AddressTypes
  <2> QED
    BY <1>1, <1>2, <2>1 DEF Cleared, AddressRow
<1>5. AddressTypes'
  <2>1. \A b \in Addresses : address[b] \in AddressRow /\ Cleared(address[b]) \in AddressRow
    BY DEF AddressInv, AddressTypes, AddressRow, Cleared
  <2>2. [exists |-> TRUE, is_default |-> k.make_default, is_deleted |-> FALSE] \in AddressRow
    BY <1>3 DEF AddressRow, Call
  <2>3. address' \in [Addresses -> AddressRow]
    BY <1>2, <2>1, <2>2
  <2>4. call' \in [Calls -> Call]
    BY <1>3, IdleCallType DEF AddressInv, AddressTypes
  <2> QED
    BY <1>3, <2>3, <2>4 DEF AddressInv, AddressTypes
<1>6. /\ RemovedExist' /\ Removed' = Removed
      /\ KeptOnes' = KeptOnes \cup {new}
  BY <1>1, <1>4 DEF AddressInv, RemovedExist, Removed, KeptOnes, Kept
<1>7. AddsApart'
  BY <1>3, IdleCallType DEF AddressInv, AddsApart, Adding
<1>8. ASSUME NEW d \in Calls PROVE CallKnows(d)'
  <2>1. CASE d = c
    BY <1>3, <2>1, IdleCallType DEF CallKnows
  <2>2. CASE d # c
    <3>1. ~overlapped' => call[d].op # "insert"
      BY <1>3, <2>2 DEF AddressInv, AddsApart, Adding
    <3>2. \A a \in Addresses : address[a].exists =>
            address'[a].exists /\ (address'[a].is_default => address[a].is_default)
      BY <1>1, <1>4
    <3> QED
      BY <1>3, <1>6, <2>2, <3>1, <3>2, CallKnowsFrame
  <2> QED
    BY <2>1, <2>2
<1>9. OneDefault'
  <2> SUFFICES ASSUME ~overlapped
               PROVE  /\ \A a, b \in Addresses :
                            address'[a].is_default /\ address'[b].is_default => a = b
                      /\ \A a \in Addresses : address'[a].is_default => Kept(a)'
                      /\ Removed' = {} /\ KeptOnes' # {} => Defaults' # {}
    BY <1>3 DEF OneDefault
  <2>1. /\ \A a, b \in Addresses : address[a].is_default /\ address[b].is_default => a = b
        /\ \A a \in Addresses : address[a].is_default => Kept(a)
        /\ Removed = {} /\ KeptOnes # {} => Defaults # {}
    BY DEF AddressInv, OneDefault
  <2>2. CASE k.make_default
    <3>1. \A b \in Addresses : address[b].is_default => b \in k.rows
      BY <1>3, <2>1, <2>2 DEF CallKnows, Defaults, KeptOnes
    <3>2. \A b \in Addresses : address'[b].is_default <=> b = new
      BY <1>4, <2>2, <3>1
    <3>3. new \in Defaults'
      BY <1>1, <1>4, <2>2 DEF Defaults, KeptOnes, Kept
    <3> QED
      BY <1>1, <1>4, <3>2, <3>3 DEF Kept
  <2>3. CASE ~k.make_default
    <3>1. k.rows = {} /\ (KeptOnes # {} \/ Removed # {})
      BY <1>3, <2>3 DEF CallKnows
    <3>2. \A b \in Addresses : address'[b].is_default => b # new /\ address[b].is_default
      BY <1>4, <2>3
    <3>3. Defaults \subseteq Defaults'
      BY <1>1, <1>4, <3>1 DEF Defaults, KeptOnes, Kept
    <3>4. \A b \in KeptOnes : Kept(b)'
      BY <1>6 DEF KeptOnes
    <3> QED
      BY <1>6, <2>1, <3>1, <3>2, <3>3, <3>4 DEF KeptOnes
  <2> QED
    BY <2>2, <2>3
<1> QED
  BY <1>5, <1>6, <1>7, <1>8, <1>9 DEF AddressInv

(***************************************************************************)
(* An address is removed, and the mark with it.                            *)
(***************************************************************************)
LEMMA RemoveCommitStep ==
  ASSUME AddressInv, NEW c \in Calls, RemoveCommit(c)
  PROVE  AddressInv' /\ Removed \subseteq Removed'
<1> DEFINE k == call[c]
<1>1. /\ k.op = "remove" /\ k \in Call /\ CallKnows(c)
      /\ call' = [call EXCEPT ![c] = IdleCall] /\ UNCHANGED overlapped
      /\ call'[c] = IdleCall
      /\ \A d \in Calls \ {c} : call'[d] = call[d]
  BY DEF RemoveCommit, AddressInv, AddressTypes
<1>2. address' = [a \in Addresses |->
         IF a \in k.rows
           THEN [address[a] EXCEPT !.is_deleted = TRUE,
                                   !.is_default = @ /\ ~k.make_default]
           ELSE address[a]]
  BY DEF RemoveCommit
<1>3. address \in [Addresses -> AddressRow]
  BY DEF AddressInv, AddressTypes
<1>4. /\ k.rows # {} /\ k.rows \subseteq Addresses
      /\ \A a \in k.rows : address[a].exists
      /\ \A a \in k.rows : address[a].is_default => k.make_default
  BY <1>1 DEF CallKnows, Call
<1>5. \A a \in Addresses :
        /\ address'[a].exists = address[a].exists
        /\ a \in k.rows => address'[a].is_deleted /\ ~address'[a].is_default
        /\ a \notin k.rows => address'[a] = address[a]
  BY <1>2, <1>3, <1>4 DEF AddressRow
<1>6. AddressTypes'
  <2>1. \A a \in Addresses :
          [address[a] EXCEPT !.is_deleted = TRUE,
                             !.is_default = @ /\ ~k.make_default] \in AddressRow
    BY <1>3 DEF AddressRow
  <2>2. address' \in [Addresses -> AddressRow]
    BY <1>2, <1>3, <2>1
  <2>3. call' \in [Calls -> Call]
    BY <1>1, IdleCallType DEF AddressInv, AddressTypes
  <2> QED
    BY <1>1, <2>2, <2>3 DEF AddressInv, AddressTypes
<1>7. /\ RemovedExist'
      /\ Removed' = Removed \cup k.rows
      /\ KeptOnes' = KeptOnes \ k.rows
      /\ Defaults' = Defaults \ k.rows
  BY <1>4, <1>5 DEF AddressInv, RemovedExist, Removed, KeptOnes, Kept, Defaults
<1>8. AddsApart'
  BY <1>1, IdleCallType DEF AddressInv, AddsApart, Adding
<1>9. ASSUME NEW d \in Calls PROVE CallKnows(d)'
  <2>1. CASE d = c
    BY <1>1, <2>1, IdleCallType DEF CallKnows
  <2>2. CASE d # c
    <3>1. \A a \in Addresses : address[a].exists =>
            address'[a].exists /\ (address'[a].is_default => address[a].is_default)
      BY <1>5
    <3> QED
      BY <1>1, <1>7, <2>2, <3>1, CallKnowsFrame
  <2> QED
    BY <2>1, <2>2
<1>10. OneDefault'
  <2>1. \A a \in Addresses : address'[a].is_default =>
          a \notin k.rows /\ address[a].is_default /\ address'[a] = address[a]
    BY <1>5
  <2>2. Removed' # {}
    BY <1>4, <1>7
  <2> QED
    BY <1>1, <2>1, <2>2 DEF AddressInv, OneDefault, Kept
<1> QED
  BY <1>6, <1>7, <1>8, <1>9, <1>10 DEF AddressInv

-----------------------------------------------------------------------------
(***************************************************************************)
(* Orders: what the addresses do to them, and they to the addresses.       *)
(***************************************************************************)
LEMMA OrderFrame ==
  ASSUME OrderInv, UNCHANGED <<catalogueVars, page, listing, order, booked>>,
         Removed \subseteq Removed'
  PROVE  OrderInv'
<1>1. OrderTypes' /\ PageKnows'
  BY DEF OrderInv, OrderTypes, PageKnows, catalogueVars
<1>2. OrderKnows'
  BY DEF OrderInv, OrderKnows, catalogueVars
<1>3. MoneyIsExact' /\ PriceAsShown' /\ NotAtRemovedAddress'
  BY DEF OrderInv, MoneyIsExact, PriceAsShown, NotAtRemovedAddress, Bookings
<1> QED
  BY <1>1, <1>2, <1>3 DEF OrderInv

LEMMA AddressFrame ==
  ASSUME AddressInv, UNCHANGED addressVars
  PROVE  AddressInv' /\ Removed' = Removed
<1>1. UNCHANGED <<address, call, overlapped>>
  BY DEF addressVars
<1>2. /\ KeptOnes' = KeptOnes /\ Removed' = Removed /\ Defaults' = Defaults
      /\ Adding' = Adding
  BY <1>1 DEF KeptOnes, Removed, Defaults, Kept, Adding
<1>3. OneDefault'
  BY <1>1, <1>2 DEF AddressInv, OneDefault, Kept
<1>4. \A c \in Calls : CallKnows(c)'
  BY <1>1, <1>2 DEF AddressInv, CallKnows
<1>5. AddressTypes' /\ RemovedExist' /\ AddsApart'
  BY <1>1, <1>2 DEF AddressInv, AddressTypes, RemovedExist, AddsApart
<1> QED
  BY <1>2, <1>3, <1>4, <1>5 DEF AddressInv

(***************************************************************************)
(* What is booked stays booked as it was.                                  *)
(***************************************************************************)
LEMMA BookedFrame ==
  ASSUME OrderInv, UNCHANGED booked
  PROVE  MoneyIsExact' /\ PriceAsShown' /\ NotAtRemovedAddress'
<1> QED
  BY DEF OrderInv, MoneyIsExact, PriceAsShown, NotAtRemovedAddress, Bookings

(***************************************************************************)
(* The catalogue changes: every page and order of before is now an old one.*)
(***************************************************************************)
LEMMA CatalogueStep ==
  ASSUME OrderInv, (\E release \in Releases : SeedCatalog(release))
                   \/ (\E p \in Packages : Retire(p)),
         Removed' = Removed
  PROVE  OrderInv'
<1>1. /\ catalogue' \in Catalogue /\ offered' \in [Packages -> BOOLEAN]
      /\ changes' = changes + 1 /\ UNCHANGED <<page, listing, order>>
  BY ReleasesAssumption DEF OrderInv, OrderTypes, SeedCatalog, Retire
<1>2. UNCHANGED booked
  <2>1. booked = [b \in BookingIds |-> booked[b]]
    BY DEF OrderInv, OrderTypes
  <2> QED
    BY <2>1 DEF SeedCatalog, AfterDeployment, Retire
<1>3. changes \in Nat /\ page.as_of \in Nat /\ order.as_of \in Nat
  BY DEF OrderInv, OrderTypes, Page, Order
<1>4. OrderTypes'
  BY <1>1, <1>2 DEF OrderInv, OrderTypes
<1>5. PageKnows' /\ OrderKnows'
  BY <1>1, <1>3 DEF OrderInv, PageKnows, OrderKnows
<1> QED
  BY <1>2, <1>4, <1>5, BookedFrame DEF OrderInv

(***************************************************************************)
(* What happens on the page, short of ordering.                            *)
(***************************************************************************)
LEMMA PageStep ==
  ASSUME OrderInv, AddressTypes, UNCHANGED addressVars,
         \/ OpenPage \/ LoadAddresses \/ ServeAddresses \/ ReceiveAddresses
         \/ \E p \in Packages : ChoosePackage(p)
         \/ \E a \in Addresses : ChooseAddress(a)
  PROVE  OrderInv'
<1>1. UNCHANGED <<catalogueVars, order, booked>>
  BY DEF OpenPage, LoadAddresses, ServeAddresses, ReceiveAddresses, ChoosePackage,
         ChooseAddress
<1>2. catalogue \in Catalogue /\ changes \in Nat /\ page \in Page /\ listing \in Listing
  BY DEF OrderInv, OrderTypes
<1> DEFINE Dated ==
      /\ page' \in Page
      /\ page'.as_of <= changes
      /\ page'.open /\ page'.as_of = changes => page'.services = catalogue.price
<1>3. Dated
  <2>1. CASE UNCHANGED page
    BY <1>2, <2>1 DEF OrderInv, PageKnows
  <2>2. CASE OpenPage
    <3>1. page' = [ClosedPage EXCEPT !.open = TRUE, !.services = catalogue.price,
                                     !.as_of = changes]
      BY <2>2 DEF OpenPage
    <3>2. catalogue.price \in [Packages -> Prices \cup {0}]
      BY <1>2 DEF Catalogue
    <3>3. page' = [open |-> TRUE, services |-> catalogue.price, as_of |-> changes,
                   addresses |-> {}, pkg |-> NoPackage, addressId |-> 0]
      BY <3>1 DEF ClosedPage
    <3> QED
      BY <1>2, <3>2, <3>3 DEF Page
  <2>3. CASE ReceiveAddresses
    <3>1. page' = IF ~page.open THEN page ELSE
             [page EXCEPT !.addresses = listing.addresses,
                !.addressId = IF listing.preferred # 0 THEN listing.preferred ELSE @]
      BY <2>3 DEF ReceiveAddresses
    <3>2. /\ listing.addresses \in SUBSET Addresses
          /\ listing.preferred \in Addresses \cup {0}
      BY <1>2 DEF Listing
    <3> QED
      BY <1>2, <3>1, <3>2 DEF OrderInv, PageKnows, Page
  <2>4. ASSUME NEW p \in Packages, ChoosePackage(p) PROVE Dated
    BY <1>2, <2>4 DEF ChoosePackage, OrderInv, PageKnows, Page
  <2>5. ASSUME NEW a \in Addresses, ChooseAddress(a) PROVE Dated
    BY <1>2, <2>5 DEF ChooseAddress, OrderInv, PageKnows, Page
  <2>6. LoadAddresses \/ ServeAddresses => UNCHANGED page
    BY DEF LoadAddresses, ServeAddresses
  <2> HIDE DEF Dated
  <2> QED
    BY <2>1, <2>2, <2>3, <2>4, <2>5, <2>6
<1>4. listing' \in Listing
  <2>1. IdleListing \in Listing /\ [IdleListing EXCEPT !.phase = "sent"] \in Listing
    BY DEF IdleListing, Listing
  <2>2. CASE ServeAddresses
    <3> DEFINE one == IF Defaults # {} THEN First(Defaults)
                      ELSE IF KeptOnes # {} THEN First(KeptOnes) ELSE 0
    <3>1. Defaults \in SUBSET Addresses /\ KeptOnes \in SUBSET Addresses
      BY DEF Defaults, KeptOnes
    <3>2. /\ Defaults # {} => First(Defaults) \in Addresses
          /\ KeptOnes # {} => First(KeptOnes) \in Addresses
      BY <3>1, FirstIsOne
    <3>3. one \in Addresses \cup {0}
      BY <3>2
    <3>4. listing' = [phase |-> "answered", addresses |-> KeptOnes, preferred |-> one]
      BY <2>2 DEF ServeAddresses
    <3> HIDE DEF one
    <3> QED
      BY <3>1, <3>3, <3>4 DEF Listing
  <2> QED
    BY <1>2, <2>1, <2>2 DEF OpenPage, LoadAddresses, ReceiveAddresses, ChoosePackage,
                            ChooseAddress
<1>5. OrderTypes' /\ PageKnows'
  BY <1>1, <1>3, <1>4 DEF OrderInv, OrderTypes, PageKnows, catalogueVars
<1>6. OrderKnows'
  BY <1>1 DEF OrderInv, OrderKnows, Removed, addressVars, catalogueVars
<1> QED
  BY <1>1, <1>5, <1>6, BookedFrame DEF OrderInv

(***************************************************************************)
(* An order moves on without a booking.                                    *)
(***************************************************************************)
LEMMA OrderMoves ==
  ASSUME OrderInv, UNCHANGED <<catalogueVars, addressVars, page, listing, booked>>,
         order' \in Order, OrderKnows'
  PROVE  OrderInv'
<1>1. OrderTypes' /\ PageKnows'
  BY DEF OrderInv, OrderTypes, PageKnows, catalogueVars
<1> QED
  BY <1>1, BookedFrame DEF OrderInv

LEMMA IdleOrderKnows ==
  /\ IdleOrder \in Order
  /\ IdleOrder.phase = "idle" /\ IdleOrder.as_of = 0
<1>1. NoMoney \in Money
  BY QuoteIsExact DEF NoMoney
<1> QED
  BY <1>1 DEF IdleOrder, Order

(***************************************************************************)
(* The customer confirms what the page shows.                              *)
(***************************************************************************)
LEMMA SubmitStep ==
  ASSUME OrderInv, NEW quantity \in Quantities, Submit(quantity)
  PROVE  OrderInv'
<1>1. /\ page \in Page /\ changes \in Nat /\ PageKnows
      /\ page.open /\ page.pkg # NoPackage /\ page.addressId # 0
  BY DEF Submit, OrderInv, OrderTypes
<1>2. /\ page.pkg \in Packages /\ page.addressId \in Addresses
      /\ page.services[page.pkg] \in Nat /\ page.as_of \in Nat
  BY <1>1 DEF Page, Prices
<1>3. quantity \in Nat
  BY QuantitiesAssumption
<1>4. order' = [IdleOrder EXCEPT !.phase = "sent", !.pkg = page.pkg,
                 !.addressId = page.addressId, !.quantity = quantity,
                 !.seen = page.services[page.pkg], !.as_of = page.as_of]
  BY DEF Submit
<1>5. /\ order' \in Order
      /\ order'.phase = "sent" /\ order'.pkg = page.pkg
      /\ order'.addressId = page.addressId
      /\ order'.seen = page.services[page.pkg] /\ order'.as_of = page.as_of
      /\ order'.gone = FALSE
  <2> DEFINE seen == page.services[page.pkg]
  <2>1. seen \in Nat
    BY <1>2
  <2>2. order' = [IdleOrder EXCEPT !.phase = "sent", !.pkg = page.pkg,
                    !.addressId = page.addressId, !.quantity = quantity,
                    !.seen = seen, !.as_of = page.as_of]
    BY <1>4
  <2> HIDE DEF seen
  <2>3. /\ order' \in Order
        /\ order'.phase = "sent" /\ order'.pkg = page.pkg
        /\ order'.addressId = page.addressId
        /\ order'.seen = seen /\ order'.as_of = page.as_of
        /\ order'.gone = FALSE
    BY <1>2, <1>3, <2>1, <2>2, IdleOrderKnows DEF Order, IdleOrder
  <2> QED
    BY <2>3 DEF seen
<1>6. UNCHANGED <<catalogueVars, addressVars, page, listing, booked>>
  BY DEF Submit
<1>7. OrderKnows'
  BY <1>1, <1>2, <1>5, <1>6 DEF OrderKnows, PageKnows, Removed, catalogueVars, addressVars
<1> QED
  BY <1>5, <1>6, <1>7, OrderMoves

(***************************************************************************)
(* The server reads the option, and refuses one that is withdrawn.         *)
(***************************************************************************)
LEMMA LoadPackageStep ==
  ASSUME OrderInv, LoadPackage
  PROVE  OrderInv'
<1>1. /\ order \in Order /\ OrderKnows /\ catalogue \in Catalogue
      /\ changes \in Nat /\ order.phase = "sent"
      /\ UNCHANGED <<catalogueVars, addressVars, page, listing, booked>>
  BY DEF LoadPackage, OrderInv, OrderTypes
<1>2. order.pkg \in Packages /\ catalogue.price[order.pkg] \in Nat
  BY <1>1 DEF OrderKnows, Catalogue, Prices
<1>3. CASE offered[order.pkg]
  <2>1. order' = [order EXCEPT !.phase = "loaded",
               !.unit_price = catalogue.price[order.pkg],
               !.changed = order.as_of # changes,
               !.gone = order.addressId \in Removed]
    BY <1>3 DEF LoadPackage
  <2>2. /\ order' \in Order
        /\ order'.phase = "loaded" /\ order'.unit_price = catalogue.price[order.pkg]
        /\ order'.changed = (order.as_of # changes)
        /\ order'.pkg = order.pkg /\ order'.addressId = order.addressId
        /\ order'.seen = order.seen /\ order'.as_of = order.as_of
        /\ order'.gone = (order.addressId \in Removed)
    <3> DEFINE gone == order.addressId \in Removed
               changed == order.as_of # changes
               price == catalogue.price[order.pkg]
    <3>1. gone \in BOOLEAN /\ changed \in BOOLEAN /\ price \in Nat
      BY <1>2
    <3>2. order' = [order EXCEPT !.phase = "loaded", !.unit_price = price,
                                 !.changed = changed, !.gone = gone]
      BY <2>1
    <3> HIDE DEF gone, changed, price
    <3>3. /\ order' \in Order
          /\ order'.phase = "loaded" /\ order'.unit_price = price
          /\ order'.changed = changed
          /\ order'.pkg = order.pkg /\ order'.addressId = order.addressId
          /\ order'.seen = order.seen /\ order'.as_of = order.as_of
          /\ order'.gone = gone
      BY <1>1, <3>1, <3>2 DEF Order
    <3> QED
      BY <3>3 DEF gone, changed, price
  <2>3. OrderKnows'
    BY <1>1, <2>2 DEF OrderKnows, Removed, catalogueVars, addressVars
  <2> QED
    BY <1>1, <2>2, <2>3, OrderMoves
<1>4. CASE ~offered[order.pkg]
  <2>1. order' = [order EXCEPT !.phase = "refused"]
    BY <1>4 DEF LoadPackage
  <2>2. /\ order' \in Order /\ order'.phase = "refused"
        /\ order'.pkg = order.pkg /\ order'.addressId = order.addressId
        /\ order'.as_of = order.as_of /\ order'.gone = order.gone
    BY <1>1, <2>1 DEF Order
  <2>3. OrderKnows'
    BY <1>1, <2>2 DEF OrderKnows, Removed, catalogueVars, addressVars
  <2> QED
    BY <1>1, <2>2, <2>3, OrderMoves
<1> QED
  BY <1>3, <1>4

(***************************************************************************)
(* The server reads the service and the address, which is not a removed    *)
(* one, and works out the money.                                           *)
(***************************************************************************)
LEMMA LoadServiceStep ==
  ASSUME OrderInv, LoadService
  PROVE  OrderInv'
<1> DEFINE q == Quote(order.unit_price, catalogue.rate, order.quantity)
<1>1. /\ order \in Order /\ OrderKnows /\ order.phase = "loaded"
      /\ UNCHANGED <<catalogueVars, addressVars, page, listing, booked>>
  BY DEF LoadService, OrderInv, OrderTypes
<1>2. q \in Money /\ q.unit_price = order.unit_price /\ Exact(q)
  <2>1. order.unit_price \in Nat /\ order.quantity \in Nat /\ catalogue.rate \in 0..1000
    BY <1>1 DEF Order, OrderInv, OrderTypes, Catalogue
  <2> QED
    BY <2>1, QuoteIsExact
<1> HIDE DEF q
<1>3. CASE Usable(order.addressId)
  <2>1. order' = [order EXCEPT !.phase = "ready", !.priced = q]
    BY <1>3 DEF LoadService, q
  <2>2. /\ order' \in Order /\ order'.phase = "ready" /\ order'.priced = q
        /\ order'.pkg = order.pkg /\ order'.addressId = order.addressId
        /\ order'.seen = order.seen /\ order'.as_of = order.as_of
        /\ order'.gone = order.gone /\ order'.changed = order.changed
    BY <1>1, <1>2, <2>1 DEF Order
  <2>3. ~order.gone
    BY <1>1, <1>3 DEF OrderKnows, Removed, Usable
  <2>4. OrderKnows'
    BY <1>1, <1>2, <2>2, <2>3 DEF OrderKnows, Removed, catalogueVars, addressVars
  <2> QED
    BY <1>1, <2>2, <2>4, OrderMoves
<1>4. CASE ~Usable(order.addressId)
  <2>1. order' = [order EXCEPT !.phase = "refused"]
    BY <1>4 DEF LoadService
  <2>2. /\ order' \in Order /\ order'.phase = "refused"
        /\ order'.pkg = order.pkg /\ order'.addressId = order.addressId
        /\ order'.as_of = order.as_of /\ order'.gone = order.gone
    BY <1>1, <2>1 DEF Order
  <2>3. OrderKnows'
    BY <1>1, <2>2 DEF OrderKnows, Removed, catalogueVars, addressVars
  <2> QED
    BY <1>1, <2>2, <2>3, OrderMoves
<1> QED
  BY <1>3, <1>4

LEMMA FailOrderStep ==
  ASSUME OrderInv, FailOrder
  PROVE  OrderInv'
<1>1. order' = IdleOrder /\ UNCHANGED <<catalogueVars, addressVars, page, listing, booked>>
  BY DEF FailOrder
<1>2. changes \in Nat /\ changes' = changes
  BY <1>1 DEF OrderInv, OrderTypes, catalogueVars
<1>3. OrderKnows'
  BY <1>1, <1>2, IdleOrderKnows DEF OrderKnows
<1> QED
  BY <1>1, <1>3, IdleOrderKnows, OrderMoves

(***************************************************************************)
(* The booking and its payment are written as they were worked out.        *)
(***************************************************************************)
LEMMA CommitOrderStep ==
  ASSUME OrderInv, CommitOrder
  PROVE  OrderInv'
<1>1. /\ order \in Order /\ OrderKnows /\ order.phase = "ready"
      /\ booked \in [BookingIds -> Booked] /\ changes \in Nat
      /\ order' = IdleOrder /\ page' = ClosedPage
      /\ UNCHANGED <<catalogueVars, addressVars, listing>>
  BY DEF CommitOrder, OrderInv, OrderTypes
<1>2. PICK b \in BookingIds : booked' = [booked EXCEPT ![b] =
            [exists |-> TRUE, money |-> order.priced,
             amount |-> PaymentAmount(order.priced), addressId |-> order.addressId,
             seen |-> order.seen, gone |-> order.gone, changed |-> order.changed]]
  BY DEF CommitOrder
<1>3. /\ order.priced \in Money /\ PaymentAmount(order.priced) = order.priced.total_amount
      /\ order.priced.total_amount \in Nat
  BY <1>1 DEF Order, Money, PaymentAmount
<1>4. /\ booked'[b] \in Booked
      /\ booked'[b].money = order.priced
      /\ booked'[b].amount = order.priced.total_amount
      /\ booked'[b].seen = order.seen /\ booked'[b].gone = order.gone
      /\ booked'[b].changed = order.changed
      /\ \A a \in BookingIds \ {b} : booked'[a] = booked[a]
  BY <1>1, <1>2, <1>3 DEF Order, Booked
<1>5. booked' \in [BookingIds -> Booked]
  BY <1>1, <1>2, <1>4
<1>6. ClosedPage \in Page /\ ~ClosedPage.open /\ ClosedPage.as_of = 0
  BY DEF ClosedPage, Page
<1>7. OrderTypes' /\ PageKnows'
  BY <1>1, <1>5, <1>6, IdleOrderKnows DEF OrderInv, OrderTypes, PageKnows, catalogueVars
<1>8. OrderKnows'
  BY <1>1, IdleOrderKnows DEF OrderKnows, catalogueVars
<1>9. MoneyIsExact' /\ PriceAsShown' /\ NotAtRemovedAddress'
  <2>1. Exact(order.priced) /\ ~order.gone
        /\ (order.priced.unit_price = order.seen \/ order.changed)
    BY <1>1 DEF OrderKnows
  <2>2. ASSUME NEW a \in Bookings'
        PROVE  /\ Exact(booked'[a].money)
               /\ booked'[a].amount = booked'[a].money.total_amount
               /\ booked'[a].money.unit_price = booked'[a].seen \/ booked'[a].changed
               /\ ~booked'[a].gone
    <3>1. CASE a = b
      BY <1>4, <2>1, <3>1
    <3>2. CASE a # b
      <4>1. a \in Bookings /\ booked'[a] = booked[a]
        BY <1>4, <2>2, <3>2 DEF Bookings
      <4> QED
        BY <4>1 DEF OrderInv, MoneyIsExact, PriceAsShown, NotAtRemovedAddress
    <3> QED
      BY <3>1, <3>2
  <2> QED
    BY <2>2 DEF MoneyIsExact, PriceAsShown, NotAtRemovedAddress
<1> QED
  BY <1>7, <1>8, <1>9 DEF OrderInv

-----------------------------------------------------------------------------
LEMMA InitCheckout == CheckoutInit => CheckoutInv
<1> SUFFICES ASSUME CheckoutInit PROVE CheckoutInv
  OBVIOUS
<1>1. /\ catalogue = Deployed /\ offered = [p \in Packages |-> TRUE] /\ changes = 0
      /\ address = [a \in Addresses |-> NoAddress]
      /\ call = [c \in Calls |-> IdleCall] /\ overlapped = FALSE
      /\ page = ClosedPage /\ listing = IdleListing /\ order = IdleOrder
      /\ booked = [b \in BookingIds |-> NotBooked]
  BY DEF CheckoutInit
<1>2. AddressTypes
  BY <1>1, IdleCallType DEF AddressTypes, NoAddress, AddressRow
<1>3. \A a \in Addresses : /\ ~address[a].exists
                           /\ ~address[a].is_default /\ ~address[a].is_deleted
  BY <1>1 DEF NoAddress
<1>4. RemovedExist /\ OneDefault
  BY <1>3 DEF RemovedExist, OneDefault, KeptOnes, Kept
<1>5. AddsApart /\ \A c \in Calls : CallKnows(c)
  BY <1>1, IdleCallType DEF AddsApart, Adding, CallKnows
<1>6. OrderTypes
  <2>1. ClosedPage \in Page /\ IdleListing \in Listing
    BY DEF ClosedPage, Page, IdleListing, Listing
  <2>2. NotBooked \in Booked
    BY QuoteIsExact DEF NotBooked, Booked, NoMoney
  <2> QED
    BY <1>1, <2>1, <2>2, IdleOrderKnows, ReleasesAssumption DEF OrderTypes
<1>7. PageKnows /\ OrderKnows
  BY <1>1, IdleOrderKnows DEF PageKnows, OrderKnows, ClosedPage
<1>8. Bookings = {}
  BY <1>1 DEF Bookings, NotBooked
<1>9. MoneyIsExact /\ PriceAsShown /\ NotAtRemovedAddress
  BY <1>8 DEF MoneyIsExact, PriceAsShown, NotAtRemovedAddress
<1> QED
  BY <1>2, <1>4, <1>5, <1>6, <1>7, <1>9 DEF CheckoutInv, AddressInv, OrderInv

LEMMA NextCheckout ==
  ASSUME CheckoutInv, [CheckoutNext]_vars
  PROVE  CheckoutInv'
<1>1. AddressInv /\ OrderInv /\ AddressTypes
  BY DEF CheckoutInv, AddressInv
<1>2. ASSUME NEW c \in Calls,
             \/ \E is_default \in BOOLEAN : AddLoad(c, is_default)
             \/ \E a \in Addresses : RemoveLoad(c, a)
             \/ AddClear(c) \/ AddCommit(c) \/ RemoveCommit(c) \/ CallFail(c)
      PROVE  CheckoutInv'
  <2>1. UNCHANGED <<catalogueVars, page, listing, order, booked>>
    BY <1>2 DEF AddLoad, RemoveLoad, AddClear, AddCommit, RemoveCommit, CallFail
  <2>2. AddressInv' /\ Removed \subseteq Removed'
    <3>1. CASE AddCommit(c) \/ RemoveCommit(c)
      BY <1>1, <3>1, AddCommitStep, RemoveCommitStep
    <3>2. CASE ~(AddCommit(c) \/ RemoveCommit(c))
      <4>1. UNCHANGED address
        BY <1>2, <3>2 DEF AddLoad, RemoveLoad, AddClear, CallFail
      <4>2. Removed' = Removed
        BY <4>1 DEF Removed
      <4>3. AddressInv'
        BY <1>1, <1>2, <3>2, AddLoadStep, RemoveLoadStep, AddClearStep, CallFailStep
      <4> QED
        BY <4>2, <4>3
    <3> QED
      BY <3>1, <3>2
  <2> QED
    BY <1>1, <2>1, <2>2, OrderFrame DEF CheckoutInv
<1>3. ASSUME UNCHANGED addressVars,
             \/ \E release \in Releases : SeedCatalog(release)
             \/ \E p \in Packages : Retire(p) \/ ChoosePackage(p)
             \/ \E a \in Addresses : ChooseAddress(a)
             \/ OpenPage \/ LoadAddresses \/ ServeAddresses \/ ReceiveAddresses
             \/ \E quantity \in Quantities : Submit(quantity)
             \/ LoadPackage \/ LoadService \/ CommitOrder \/ FailOrder
      PROVE  CheckoutInv'
  <2>1. AddressInv' /\ Removed' = Removed
    BY <1>1, <1>3, AddressFrame
  <2>2. OrderInv'
    BY <1>1, <1>3, <2>1, CatalogueStep, PageStep, SubmitStep, LoadPackageStep,
       LoadServiceStep, CommitOrderStep, FailOrderStep
  <2> QED
    BY <2>1, <2>2 DEF CheckoutInv
<1>4. CASE UNCHANGED vars
  <2>1. UNCHANGED <<catalogueVars, page, listing, order, booked>> /\ UNCHANGED addressVars
    BY <1>4 DEF vars
  <2>2. AddressInv' /\ Removed' = Removed
    BY <1>1, <2>1, AddressFrame
  <2> QED
    BY <1>1, <2>1, <2>2, OrderFrame DEF CheckoutInv
<1>5. ASSUME CheckoutNext PROVE CheckoutInv'
  <2>1. ASSUME \/ \E release \in Releases : SeedCatalog(release)
               \/ \E p \in Packages : Retire(p) \/ ChoosePackage(p)
               \/ \E a \in Addresses : ChooseAddress(a)
               \/ OpenPage \/ LoadAddresses \/ ServeAddresses \/ ReceiveAddresses
               \/ \E quantity \in Quantities : Submit(quantity)
               \/ LoadPackage \/ LoadService \/ CommitOrder \/ FailOrder
        PROVE  UNCHANGED addressVars
    BY <2>1 DEF SeedCatalog, Retire, ChoosePackage, ChooseAddress, OpenPage, LoadAddresses,
       ServeAddresses, ReceiveAddresses, Submit, LoadPackage, LoadService, CommitOrder,
       FailOrder
  <2> QED
    BY <1>2, <1>3, <1>5, <2>1 DEF CheckoutNext
<1> QED
  BY <1>4, <1>5

LEMMA CheckoutAlways == CheckoutSpec => []CheckoutInv
<1>1. CheckoutInv /\ [CheckoutNext]_vars => CheckoutInv'
  BY NextCheckout
<1> QED
  BY <1>1, InitCheckout, PTL DEF CheckoutSpec

(***************************************************************************)
(* Catalogue, addresses, page, orders and bookings are always well typed.  *)
(***************************************************************************)
THEOREM CheckoutTypeCorrect == CheckoutSpec => []CheckoutTypeOK
<1>1. CheckoutInv => CheckoutTypeOK
  BY DEF CheckoutInv, AddressInv, AddressTypes, OrderInv, OrderTypes, CheckoutTypeOK
<1> QED
  BY <1>1, CheckoutAlways, PTL

(***************************************************************************)
(* Whatever was ordered at whatever prices and rates, to the last paisa.   *)
(***************************************************************************)
THEOREM MoneyAddsUp == CheckoutSpec => []MoneyIsExact
<1>1. CheckoutInv => MoneyIsExact
  BY DEF CheckoutInv, OrderInv
<1> QED
  BY <1>1, CheckoutAlways, PTL

(***************************************************************************)
(* The price shown is the price booked, unless the catalogue changed while *)
(* the page was open.                                                      *)
(***************************************************************************)
THEOREM PricesAreAsShown == CheckoutSpec => []PriceAsShown
<1>1. CheckoutInv => PriceAsShown
  BY DEF CheckoutInv, OrderInv
<1> QED
  BY <1>1, CheckoutAlways, PTL

(***************************************************************************)
(* No job at an address that was removed before create_booking began.      *)
(***************************************************************************)
THEOREM AddressesAreLive == CheckoutSpec => []NotAtRemovedAddress
<1>1. CheckoutInv => NotAtRemovedAddress
  BY DEF CheckoutInv, OrderInv
<1> QED
  BY <1>1, CheckoutAlways, PTL

(***************************************************************************)
(* One default address, until two are added at once.                       *)
(***************************************************************************)
THEOREM DefaultIsUnique == CheckoutSpec => []OneDefault
<1>1. CheckoutInv => OneDefault
  BY DEF CheckoutInv, AddressInv
<1> QED
  BY <1>1, CheckoutAlways, PTL
=============================================================================
