------------------------------ MODULE MCCheckout ------------------------------
(* An instance of Checkout for TLC. *)
EXTENDS Checkout, TLC

CheckoutSymmetry == Permutations(Workers) \cup Permutations(Params)
=============================================================================
