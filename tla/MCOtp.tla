-------------------------------- MODULE MCOtp --------------------------------
(***************************************************************************)
(* Small limits, and failures anywhere but between INCR and EXPIRE.        *)
(***************************************************************************)
EXTENDS Otp, TLC

CONSTANTS c1, c2

SmallLimits == [phone |-> 1, verify |-> 2, daily |-> 1, attempts |-> 1]
AnywhereElse == {"look", "act", "burn", "lookup", "register"}
CallSymmetry == Permutations(Calls)
=============================================================================
