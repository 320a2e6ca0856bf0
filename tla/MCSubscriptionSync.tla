------------------------- MODULE MCSubscriptionSync -------------------------
(* Instances of SubscriptionSync for TLC. *)
EXTENDS SubscriptionSync, TLC

Sub(provider, tier) == [provider |-> provider, configured |-> tier,
                        stamped |-> NoTier, cancel |-> FALSE,
                        orphaned |-> FALSE]

ActivePlus  == Sub("active", "plus")
PastDuePlus == Sub("past_due", "plus")
Canceled    == Sub("canceled", "plus")
ActiveOther == Sub("active", NoTier)

\* A renewal that fails, is retried, recovers or ends.
DunningStates == {ActivePlus, PastDuePlus, Canceled}

\* A first checkout, on a price of ours or of another application.
CheckoutStates == {NoRemote, ActivePlus, PastDuePlus, Canceled, ActiveOther,
                   [ActivePlus EXCEPT !.orphaned = TRUE]}

WebhookJobs == {"webhook", "dispute"}

CheckoutJobs == {"webhook"}

OperatorJobs == {"webhook", "resync"}

\* extend_grace moves the clock on, or back.
Moves == {-1, 1}

WorkerSymmetry == Permutations(Workers)
=============================================================================
