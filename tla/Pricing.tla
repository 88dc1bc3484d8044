-------------------------------- MODULE Pricing --------------------------------
(***************************************************************************)
(* What a booking costs: quote() of app/services/booking.py.  Money is a   *)
(* whole number of paisa, as the columns are NUMERIC(10, 2), and a         *)
(* commission rate a whole number of thousandths, as NUMERIC(4, 3) is.     *)
(* Constant-level: no variables here.                                      *)
(***************************************************************************)
EXTENDS Integers

\* A fraction of n / 1000 paisa rounded to paisa, halves up.
RoundHalfUp(n) == (n + 500) \div 1000

Commission(total, rate) == RoundHalfUp(total * rate)

\* Mutant: the payout is worked out, and rounded, like the commission.
Payout_Rounded(total, rate) == RoundHalfUp(total * (1000 - rate))

\* By subtraction, so that the two always make up the total.
Payout(total, rate) == total - Commission(total, rate)

Quote(price, rate, quantity) ==
  LET total == price * quantity IN
    [unit_price        |-> price,
     quantity          |-> quantity,
     total_amount      |-> total,
     commission_rate   |-> rate,
     commission_amount |-> Commission(total, rate),
     worker_payout     |-> Payout(total, rate)]

(***************************************************************************)
(* What the money of a booking must satisfy (quote): the parts make up the *)
(* total exactly, nobody is paid less than nothing, and the commission is  *)
(* within half a paisa of the rate, halves rounded up.                     *)
(***************************************************************************)
Exact(q) ==
  /\ q.total_amount = q.unit_price * q.quantity
  /\ q.commission_amount + q.worker_payout = q.total_amount
  /\ q.commission_amount >= 0 /\ q.worker_payout >= 0
  /\ LET error == 1000 * q.commission_amount - q.total_amount * q.commission_rate
     IN  -500 < error /\ error <= 500
=============================================================================
