---------------------------- MODULE CatalogProofs ----------------------------
(***************************************************************************)
(* What the table promises, and what the lookups on it may be relied on    *)
(* for, whatever prices are configured.                                    *)
(***************************************************************************)
EXTENDS Catalog, TLAPS

\* Everything `b` allows, `a` allows.
Covers(a, b) ==
    /\ \A key \in QuotaKeys : AtLeast(Quota[key][a], Quota[key][b])
    /\ Models[b] \subseteq Models[a]
    /\ AtLeast(ContextTokens[a], ContextTokens[b])
    /\ AtLeast(HistoryRetentionDays[a], HistoryRetentionDays[b])
    /\ ApiAccess[b] => ApiAccess[a]

---------------------------------------------------------------------------
\* A tier covers every tier ranked at or below it: what entitlement resolution
\* relies on when it takes the higher tier and nothing else of the lower one.
THEOREM TableIsMonotone ==
    \A a, b \in Tier : TierRank[a] >= TierRank[b] => Covers(a, b)
BY SMT DEF Tier, TierRank, Covers, QuotaKeys, Quota, Models, ContextTokens,
       HistoryRetentionDays, ApiAccess, AtLeast, Unlimited

\* A grant takes nothing away from somebody who pays (create_grant: "never
\* silently downgrades a paying one"), and a subscription nothing from
\* somebody with a grant: the effective tier covers both.
THEOREM GrantTakesNothingAway ==
    \A subscribed, granted \in Tier :
        LET effective == HigherTier(subscribed, granted)
        IN  Covers(effective, subscribed) /\ Covers(effective, granted)
<1> TAKE subscribed, granted \in Tier
<1>1. /\ HigherTier(subscribed, granted) \in Tier
      /\ TierRank[HigherTier(subscribed, granted)] >= TierRank[subscribed]
      /\ TierRank[HigherTier(subscribed, granted)] >= TierRank[granted]
      BY DEF HigherTier, Tier, TierRank
<1>2. QED BY <1>1, TableIsMonotone

\* There is a cheapest tier among any that there are.
LEMMA CheapestIsFirst ==
    ASSUME NEW tiers \in SUBSET Tier, tiers # {}
    PROVE  /\ Cheapest(tiers) \in tiers
           /\ \A b \in tiers : ~Cheaper(b, Cheapest(tiers))
<1>1. \E a \in tiers : \A b \in tiers : ~Cheaper(b, a)
  <2>1. CASE "free" \in tiers
        BY <2>1 DEF Cheaper, Tier, TierRank
  <2>2. CASE "free" \notin tiers /\ "plus" \in tiers
        BY <2>2 DEF Cheaper, Tier, TierRank
  <2>3. CASE "free" \notin tiers /\ "plus" \notin tiers /\ "pro" \in tiers
        BY <2>3 DEF Cheaper, Tier, TierRank
  <2>4. CASE tiers = {"enterprise"}
        BY <2>4 DEF Cheaper, Tier, TierRank
  <2>5. QED BY <2>1, <2>2, <2>3, <2>4 DEF Tier
<1>2. QED BY <1>1 DEF Cheapest

\* The tier that a user at his cap is pointed to can be bought, ranks above
\* his, lifts the cap, and is the cheapest that does; and when he is pointed
\* to none there is none.
THEOREM UpgradeHelps ==
    \A key \in QuotaKeys, current \in Tier :
        LET target == UpgradeTierFor(key, current)
        IN  IF target = NoTier THEN Raising(Quota[key], current) = {}
            ELSE /\ target \in PurchasableTiers
                 /\ Cheaper(current, target)
                 /\ AtLeast(Quota[key][target], Quota[key][current])
                 /\ Quota[key][target] # Quota[key][current]
                 /\ \A other \in Raising(Quota[key], current) :
                       ~Cheaper(other, target)
<1> TAKE key \in QuotaKeys, current \in Tier
<1> DEFINE raising == Raising(Quota[key], current)
<1>1. raising \in SUBSET Tier /\ NoTier \notin Tier
      BY DEF Raising, PurchasableTiers, Tier, NoTier
<1>2. CASE raising = {}
      BY <1>2 DEF UpgradeTierFor, Cheapest
<1>3. CASE raising # {}
  <2>1. /\ UpgradeTierFor(key, current) \in raising
        /\ \A other \in raising : ~Cheaper(other, UpgradeTierFor(key, current))
        BY <1>1, <1>3, CheapestIsFirst DEF UpgradeTierFor
  <2>2. \A a \in PurchasableTiers : Cheaper(current, a) => Quota[key][current] # Unlimited
        BY DEF PurchasableTiers, SalesLed, Cheaper, TierRank, Tier, Quota,
               QuotaKeys, Unlimited
  <2>3. \A a \in Tier : Quota[key][a] = Unlimited \/ Quota[key][a] \in Nat
        BY DEF Quota, QuotaKeys, Tier, Unlimited
  <2>4. \A a \in raising : /\ a \in PurchasableTiers /\ Cheaper(current, a)
                           /\ AtLeast(Quota[key][a], Quota[key][current])
                           /\ Quota[key][a] # Quota[key][current]
        BY <1>1, <2>2, <2>3 DEF Raising, AtLeast, Unlimited
  <2>5. QED BY <1>1, <1>3, <2>1, <2>4
<1>4. QED BY <1>2, <1>3

\* The tier a chat user is pointed to for a model has that model, and no
\* cheaper tier has; and a tier that refuses the model ranks below it.
THEOREM RequiredTierHasModel ==
    \A model \in Models["enterprise"], current \in Tier :
        LET required == MinimumTierForModel(model)
        IN  /\ required \in Tier /\ model \in Models[required]
            /\ \A other \in Tier : model \in Models[other] => ~Cheaper(other, required)
            /\ ChatRefused(current, model) <=> Cheaper(current, required)
<1> TAKE model \in Models["enterprise"], current \in Tier
<1> DEFINE having == { a \in Tier : model \in Models[a] }
<1>1. having \in SUBSET Tier /\ having # {}
      BY DEF Tier
<1>2. MinimumTierForModel(model) \in having
      /\ \A other \in having : ~Cheaper(other, MinimumTierForModel(model))
      BY <1>1, CheapestIsFirst DEF MinimumTierForModel
<1>3. \A a, b \in Tier : ~Cheaper(b, a) => Models[a] \subseteq Models[b]
      BY DEF Tier, TierRank, Cheaper, Models
<1>4. QED BY <1>2, <1>3 DEF ChatRefused

---------------------------------------------------------------------------
\* Of the variables that name a price, one is the last.
LEMMA LastOffer ==
    ASSUME NEW offers \in SUBSET Offer, offers # {}
    PROVE  \E offer \in offers : \A other \in offers : ~Later(other, offer)
<1>1. Offer = {<<"plus", "monthly">>, <<"plus", "annual">>,
               <<"pro", "monthly">>, <<"pro", "annual">>}
      BY DEF Offer, PurchasableTiers, SalesLed, Tier, BillingInterval
<1>2. CASE <<"pro", "annual">> \in offers
      BY <1>1, <1>2 DEF Later, Cheaper, TierRank
<1>3. CASE <<"pro", "annual">> \notin offers /\ <<"pro", "monthly">> \in offers
      BY <1>1, <1>3 DEF Later, Cheaper, TierRank
<1>4. CASE /\ <<"pro", "annual">> \notin offers
           /\ <<"pro", "monthly">> \notin offers
           /\ <<"plus", "annual">> \in offers
      BY <1>1, <1>4 DEF Later, Cheaper, TierRank
<1>5. CASE offers = {<<"plus", "monthly">>}
      BY <1>5 DEF Later, Cheaper, TierRank
<1>6. QED BY <1>1, <1>2, <1>3, <1>4, <1>5

\* price_catalog gives every price that is configured for a tier on sale a
\* tier and interval it is configured for.
LEMMA CatalogIsConfigured ==
    ASSUME NEW prices, NEW configured \in Configuration(prices),
           NEW price \in DOMAIN PriceCatalog(configured)
    PROVE  /\ price # NoPrice
           /\ PriceCatalog(configured)[price] \in Offer
           /\ configured[PriceCatalog(configured)[price]] = price
<1> DEFINE offers == { offer \in Offer : configured[offer] = price }
<1>1. price \in { configured[offer] : offer \in Offer } \ {NoPrice}
      BY DEF PriceCatalog
<1>2. offers # {} /\ offers \in SUBSET Offer
      BY <1>1
<1>3. \E offer \in Offer :
         /\ configured[offer] = price
         /\ \A other \in Offer : configured[other] = price => ~Later(other, offer)
      BY <1>2, LastOffer
<1>4. QED BY <1>1, <1>3 DEF PriceCatalog

\* What is bought is what is granted: a subscription to the price that a
\* checkout charges for a tier is read back as that tier, whatever is
\* configured, one id under two names included, and whatever is stamped on the
\* price.
THEOREM BoughtIsGranted ==
    \A prices : \A configured \in Configuration(prices), offer \in Offer, stamped \in Tier \cup {NoTier} :
        LET price == PriceIdFor(configured, offer)
        IN  price # NoPrice => TierOfPrice(configured, stamped, price) = offer[1]
<1> SUFFICES ASSUME NEW prices, NEW configured \in Configuration(prices), NEW offer \in Offer,
                    NEW stamped \in Tier \cup {NoTier},
                    PriceIdFor(configured, offer) # NoPrice
             PROVE  TierOfPrice(configured, stamped,
                                PriceIdFor(configured, offer)) = offer[1]
    OBVIOUS
<1> DEFINE price == PriceIdFor(configured, offer)
<1>1. /\ price \in DOMAIN PriceCatalog(configured)
      /\ PriceCatalog(configured)[price] = offer
      BY DEF PriceIdFor
<1>2. offer[1] \in Tier /\ offer[1] # NoTier
      BY DEF Offer, PurchasableTiers, Tier, NoTier
<1>3. QED BY <1>1, <1>2 DEF TierOfPrice, ResolveTier

\* Nothing that is not for sale has a price, whatever is configured for it;
\* and a price configured for one offer alone is found.
THEOREM OnlyOffersArePriced ==
    \A prices : \A configured \in Configuration(prices) :
        /\ \A tier \in Tier \ PurchasableTiers, interval \in BillingInterval :
              PriceIdFor(configured, <<tier, interval>>) = NoPrice
        /\ \A offer \in Offer :
              /\ configured[offer] # NoPrice
              /\ \A other \in Offer : configured[other] = configured[offer] => other = offer
              => PriceIdFor(configured, offer) = configured[offer]
<1> TAKE prices
<1> TAKE configured \in Configuration(prices)
<1>1. ASSUME NEW tier \in Tier \ PurchasableTiers, NEW interval \in BillingInterval
      PROVE  PriceIdFor(configured, <<tier, interval>>) = NoPrice
  <2>1. <<tier, interval>> \notin Offer
        BY DEF Offer
  <2>2. QED BY <2>1, CatalogIsConfigured DEF PriceIdFor
<1>2. ASSUME NEW offer \in Offer, configured[offer] # NoPrice,
             \A other \in Offer : configured[other] = configured[offer] => other = offer
      PROVE  PriceIdFor(configured, offer) = configured[offer]
  <2> DEFINE catalog == PriceCatalog(configured)
  <2>1. configured[offer] \in DOMAIN catalog
        BY <1>2 DEF PriceCatalog
  <2>2. catalog[configured[offer]] = offer
        BY <1>2, <2>1, CatalogIsConfigured
  <2>3. \A price \in DOMAIN catalog : catalog[price] = offer => price = configured[offer]
        BY CatalogIsConfigured
  <2>4. QED BY <2>1, <2>2, <2>3 DEF PriceIdFor
<1>3. QED BY <1>1, <1>2

\* The page the portal opens for a button is about the customer's own
\* subscription and a price he does not pay yet, and confirming it gives him
\* the tier that the button named (open_portal: "a confirmation for exactly
\* the tier and interval the button named"); for what is not sold it is the
\* home page.
THEOREM ConfirmedIsNamed ==
    \A prices, sub, items : \A configured \in Configuration(prices),
            offer \in Tier \X BillingInterval, stamped \in Tier \cup {NoTier} :
        LET flow == PlanChangeFlow(configured, sub, items, offer)
        IN  flow # PortalHome =>
                /\ flow.subscription = sub.subscription /\ flow.price # sub.price
                /\ offer \in Offer /\ PriceCatalog(configured)[flow.price] = offer
                /\ TierOfPrice(configured, stamped, flow.price) = offer[1]
<1> SUFFICES ASSUME NEW prices, NEW sub, NEW items, NEW configured \in Configuration(prices),
                    NEW offer \in Tier \X BillingInterval, NEW stamped \in Tier \cup {NoTier},
                    PlanChangeFlow(configured, sub, items, offer) # PortalHome
             PROVE  LET flow == PlanChangeFlow(configured, sub, items, offer)
                    IN  /\ flow.subscription = sub.subscription /\ flow.price # sub.price
                        /\ offer \in Offer /\ PriceCatalog(configured)[flow.price] = offer
                        /\ TierOfPrice(configured, stamped, flow.price) = offer[1]
    OBVIOUS
<1> DEFINE price == PriceIdFor(configured, offer)
<1>1. /\ offer[1] \in PurchasableTiers /\ price # NoPrice /\ price # sub.price
      /\ PlanChangeFlow(configured, sub, items, offer)
            = [subscription |-> sub.subscription, item |-> items[1], price |-> price]
      BY DEF PlanChangeFlow
<1>2. offer \in Offer
      BY <1>1 DEF Offer
<1>3. PriceCatalog(configured)[price] = offer
      BY <1>1 DEF PriceIdFor
<1>4. TierOfPrice(configured, stamped, price) = offer[1]
      BY <1>1, <1>2, BoughtIsGranted
<1>5. QED BY <1>1, <1>2, <1>3, <1>4
=============================================================================
