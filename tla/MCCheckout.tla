------------------------------ MODULE MCCheckout ------------------------------
(***************************************************************************)
(* Two releases of two options; amounts whose commission is half a paisa.  *)
(***************************************************************************)
EXTENDS Checkout, TLC

CONSTANTS repair, installation

OldRelease == [rate |-> 185, price |-> (repair :> 100) @@ (installation :> 300)]
NewRelease == [rate |-> 150, price |-> (repair :> 130) @@ (installation :> 300)]
NextReleases == {NewRelease}
CallSymmetry == Permutations(Calls)
=============================================================================
