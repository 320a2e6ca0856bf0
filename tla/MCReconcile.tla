----------------------------- MODULE MCReconcile -----------------------------
(* An instance of Reconcile for TLC. *)
EXTENDS Reconcile, TLC

CONSTANTS s1, s2, s3, c1, c2

\* One customer with two subscriptions, and one made by hand in Stripe for
\* nobody in particular.
OwnerOf == s1 :> c1 @@ s2 :> c1 @@ s3 :> c2
=============================================================================
