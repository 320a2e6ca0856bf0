------------------------------- MODULE Catalog -------------------------------
(***************************************************************************)
(* What each tier allows and how it is sold: the table of app/plans.py and *)
(* the lookups on it that decide which tier a blocked user is offered      *)
(* (upgrade_tier_for, minimum_tier_for_feature) and which Stripe price a   *)
(* checkout charges, a subscription is read back by and the portal is told *)
(* to change to (price_catalog, price_id_for, _plan_change_flow).          *)
(*                                                                         *)
(* `configured` is what the environment says about prices, for a set of    *)
(* price ids of Stripe's.                                                  *)
(***************************************************************************)
EXTENDS Plans, Sequences

Unlimited == -1                 \* a limit of None

Amount == Nat \cup {Unlimited}

\* A limit that is no lower.
AtLeast(a, b) == a = Unlimited \/ (b # Unlimited /\ a >= b)

---------------------------------------------------------------------------
(* CATALOG *)

QuotaKeys == {"messages_per_day", "file_uploads_per_day"}

Quota == [messages_per_day |->
             [free |-> 20, plus |-> 300, pro |-> 1500, enterprise |-> Unlimited],
          file_uploads_per_day |->
             [free |-> 3, plus |-> 50, pro |-> Unlimited, enterprise |-> Unlimited]]

Models == [free       |-> {"small"},
           plus       |-> {"small", "large"},
           pro        |-> {"small", "large", "reasoning"},
           enterprise |-> {"small", "large", "reasoning"}]

ContextTokens ==
    [free |-> 32000, plus |-> 200000, pro |-> 1000000, enterprise |-> Unlimited]

HistoryRetentionDays ==
    [free |-> 30, plus |-> 365, pro |-> Unlimited, enterprise |-> Unlimited]

ApiAccess == [free |-> FALSE, plus |-> FALSE, pro |-> TRUE, enterprise |-> TRUE]

SalesLed == {"enterprise"}

PurchasableTiers == Tier \ ({"free"} \cup SalesLed)

---------------------------------------------------------------------------
(* Which tier to offer *)

Cheaper(a, b) == TierRank[a] < TierRank[b]

\* The first tier of `tiers` in ascending order.
Cheapest(tiers) ==
    IF tiers = {} THEN NoTier
    ELSE CHOOSE a \in tiers : \A b \in tiers : ~Cheaper(b, a)

\* The tiers whose cap lifts `current`'s, and that can be bought.
Raising(cap, current) ==
    { a \in PurchasableTiers :
        /\ Cheaper(current, a)
        /\ \/ cap[a] = Unlimited
           \/ cap[current] # Unlimited /\ cap[a] > cap[current] }

UpgradeTierFor(key, current) == Cheapest(Raising(Quota[key], current))

\* minimum_tier_for_feature("models", model)
MinimumTierForModel(model) == Cheapest({ a \in Tier : model \in Models[a] })

\* POST /demo/chat answers 403, with the tier to go to, or meters the message.
ChatRefused(tier, model) == model \notin Models[tier]

---------------------------------------------------------------------------
(* Prices *)

BillingInterval == {"monthly", "annual"}

Offer == PurchasableTiers \X BillingInterval

NoPrice == "no_price"           \* a variable that is not set

\* stripe_price_ids: what the environment says, for any tier whatever.
Configuration(prices) == [Tier \X BillingInterval -> prices \cup {NoPrice}]

\* CATALOG lists the tiers in ascending order, BillingInterval the monthly
\* price first; of two variables that name one price the later counts.
Later(a, b) ==
    \/ Cheaper(b[1], a[1])
    \/ a[1] = b[1] /\ a[2] = "annual" /\ b[2] = "monthly"

\* price_catalog: price id -> (tier, interval).
PriceCatalog(configured) ==
    [price \in { configured[offer] : offer \in Offer } \ {NoPrice} |->
        CHOOSE offer \in Offer :
            /\ configured[offer] = price
            /\ \A other \in Offer :
                  configured[other] = price => ~Later(other, offer)]

\* price_id_for: the price a checkout of this tier and interval charges.
PriceIdFor(configured, offer) ==
    LET catalog == PriceCatalog(configured)
    IN  IF \E price \in DOMAIN catalog : catalog[price] = offer
        THEN CHOOSE price \in DOMAIN catalog : catalog[price] = offer
        ELSE NoPrice

\* What resolve_tier makes of a subscription to a price: the tier configured
\* for it, else the tier the seed script stamped on it.
TierOfPrice(configured, stamped, price) ==
    ResolveTier([configured |-> IF price \in DOMAIN PriceCatalog(configured)
                                THEN PriceCatalog(configured)[price][1]
                                ELSE NoTier,
                 stamped    |-> stamped])

NoId == "no_id"                 \* a column that is not set

PortalHome == [subscription |-> NoId, item |-> NoId, price |-> NoPrice]

\* _plan_change_flow: what the portal is asked to confirm for the offer a
\* button named, or its home page.  `sub` is the row: its subscription and
\* price; `items` the lines of the subscription Stripe shows now, none if it
\* shows none.
PlanChangeFlow(configured, sub, items, offer) ==
    LET price == PriceIdFor(configured, offer)
    IN  IF /\ offer[1] \in PurchasableTiers
           /\ price # NoPrice /\ price # sub.price
           /\ sub.subscription # NoId
           /\ Len(items) = 1
        THEN [subscription |-> sub.subscription, item |-> items[1], price |-> price]
        ELSE PortalHome
=============================================================================
