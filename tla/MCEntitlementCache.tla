------------------------- MODULE MCEntitlementCache -------------------------
(* An instance of EntitlementCache for TLC. *)
EXTENDS EntitlementCache, TLC

\* A plan in good standing, the same plan in dunning, and none.
MCSubs == {[tier |-> "plus", dunning |-> FALSE],
           [tier |-> "plus", dunning |-> TRUE],
           [tier |-> "free", dunning |-> FALSE]}

\* A grant that ends by itself.
MCGrants == {[tier |-> "pro", until |-> 3]}

\* extend_grace moves the clock on, or back.
Moves == {-1, 1}

ReaderSymmetry == Permutations(Readers)
=============================================================================
