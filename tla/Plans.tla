------------------------------- MODULE Plans -------------------------------
(***************************************************************************)
(* What the service sells and how Stripe's vocabulary becomes its own:     *)
(* tiers and their order (app/plans.py), internal statuses (app/models.py),*)
(* Stripe's statuses and which of several subscriptions is the current one *)
(* (app/stripe_client.py), and `project`, the one function that says what  *)
(* the local row should hold (app/services/subscriptions.py).              *)
(*                                                                         *)
(* A Stripe subscription object is the record `Remote`.  A price is kept   *)
(* as the two things resolve_tier asks of it: the tier the catalog gives   *)
(* its id, and the tier the seed script stamped on it, each possibly none. *)
(***************************************************************************)
EXTENDS Integers, FiniteSets

---------------------------------------------------------------------------
(* Tiers *)

Tier == {"free", "plus", "pro", "enterprise"}

NoTier == "no_tier"          \* Python's None where a tier is optional

TierRank == [free |-> 0, plus |-> 1, pro |-> 2, enterprise |-> 3]

HigherTier(a, b) == IF TierRank[a] >= TierRank[b] THEN a ELSE b

---------------------------------------------------------------------------
(* Statuses: the service's and Stripe's *)

SubscriptionStatus ==
    {"free", "trialing", "active", "past_due", "incomplete", "paused"}

PaidStatuses == {"trialing", "active", "past_due"}

ProviderStatus ==
    {"active", "trialing", "past_due", "unpaid", "paused", "incomplete",
     "incomplete_expired", "canceled"}

\* Mistaken: Stripe's word passed through as it is.
StatusOfUnmapped(provider) == provider

\* _STATUSES: Stripe's word to ours; a word not listed is no paid access.
StatusOf(provider) ==
    CASE provider \in {"active", "trialing", "past_due", "paused", "incomplete"}
              -> provider
      [] provider = "unpaid" -> "past_due"
      [] OTHER               -> "free"

\* Finished for good: nothing will ever charge these again.
Ended == {"canceled", "incomplete_expired"}

\* _STATUS_PRIORITY: the smaller number wins when a customer has several.
Priority == [active |-> 1, trialing |-> 2, past_due |-> 3, unpaid |-> 4,
             paused |-> 5, incomplete |-> 6,
             incomplete_expired |-> 7, canceled |-> 7]

---------------------------------------------------------------------------
(* A subscription as Stripe reports it *)

Remote == [provider   : ProviderStatus,
           configured : Tier \cup {NoTier},
           stamped    : Tier \cup {NoTier},
           cancel     : BOOLEAN,
           orphaned   : BOOLEAN]

\* The customer has no subscription object at all.
NoRemote == [provider |-> "none", configured |-> NoTier, stamped |-> NoTier,
             cancel |-> FALSE, orphaned |-> FALSE]

RemoteOrNone == Remote \cup {NoRemote}

\* _current: subs is a set of records with a Remote in `sub` and its creation
\* order in `created`.  Stripe lists the newest first, so the first match of
\* the best status is the newest of them; with none live, the newest of all.
Current(subs) ==
    LET beats(a, b) == \/ Priority[a.sub.provider] < Priority[b.sub.provider]
                       \/ /\ Priority[a.sub.provider] = Priority[b.sub.provider]
                          /\ a.created >= b.created
    IN  IF subs = {} THEN NoRemote
        ELSE (CHOOSE a \in subs : \A b \in subs : beats(a, b)).sub

\* A configured price id wins over the tier stamped on the price.
ResolveTier(remote) ==
    IF remote.configured # NoTier THEN remote.configured ELSE remote.stamped

BelongsToThisService(remote) ==
    /\ remote # NoRemote
    /\ ResolveTier(remote) # NoTier

GrantsAccess(status) == status \in PaidStatuses

NoSubscription == [tier |-> "free", status |-> "free", cancel |-> FALSE]

\* Stripe's answer in the shape of the row.  An ended subscription mirrors as
\* none, and a price nobody can resolve is never guessed upward.
Project(remote) ==
    LET status == StatusOf(remote.provider)
        tier   == ResolveTier(remote)
    IN  IF status = "free" THEN NoSubscription
        ELSE [tier   |-> IF GrantsAccess(status) /\ tier # NoTier
                         THEN tier ELSE "free",
              status |-> status,
              cancel |-> remote.cancel]

Mirrored == [tier : Tier, status : SubscriptionStatus, cancel : BOOLEAN]
=============================================================================
