----------------------- MODULE EntitlementCacheProofs -----------------------
(***************************************************************************)
(* Theorems about the entitlement cache, for any readers and writers, any  *)
(* subscriptions and grants, any TTLs and any length of the grace window.  *)
(***************************************************************************)
EXTENDS EntitlementCache, TLAPS

USE SessionsAssumption, TargetsAssumption, GrantsAssumption, TicksAssumption,
    ClockAssumption

SubSet == [tier : Tier, since : Time]

---------------------------------------------------------------------------
(* What the operators return *)

\* Rounding down to whole seconds never adds time.
LEMMA WholeBounds ==
    ASSUME NEW n \in Nat PROVE Whole(n) \in Nat /\ Whole(n) <= n
BY DEF Whole

\* A TTL is at most the configured one, and while the grace window is open it
\* ends inside the window.
LEMMA TTLBounds ==
    ASSUME NEW g \in Time, NEW t \in Nat
    PROVE  /\ TTLFor(g, t) \in Nat /\ TTLFor(g, t) <= TTL
           /\ g # NoTime /\ t < g => t + TTLFor(g, t) <= g
<1>1. CASE g = NoTime \/ g - t <= 0
  BY <1>1 DEF TTLFor, Time
<1>2. CASE g # NoTime /\ g - t > 0
  <2>1. g - t \in Nat
        BY <1>2 DEF Time
  <2>2. Whole(g - t) \in Nat /\ Whole(g - t) <= g - t
        BY <2>1, WholeBounds
  <2>3. QED BY <1>2, <2>1, <2>2 DEF TTLFor, Time
<1>3. QED BY <1>1, <1>2 DEF Time

LEMMA HigherTierIs ==
    ASSUME NEW a \in Tier, NEW b \in Tier
    PROVE  /\ HigherTier(a, b) \in {a, b} /\ HigherTier(a, b) \in Tier
           /\ TierRank[a] <= TierRank[HigherTier(a, b)]
           /\ TierRank[b] <= TierRank[HigherTier(a, b)]
BY DEF HigherTier, Tier, TierRank

\* Tiers are told apart by their rank.
LEMMA RankInjective ==
    ASSUME NEW a \in Tier, NEW b \in Tier, TierRank[a] <= TierRank[b],
           TierRank[b] <= TierRank[a]
    PROVE  a = b
BY DEF Tier, TierRank

\* Of some tiers one is the highest.
LEMMA HighestTier ==
    ASSUME NEW S \in SUBSET Tier, S # {}
    PROVE  \E b \in S : \A c \in S : TierRank[b] >= TierRank[c]
<1>1. /\ TierRank["free"] = 0 /\ TierRank["plus"] = 1
      /\ TierRank["pro"] = 2 /\ TierRank["enterprise"] = 3
    BY DEF TierRank
<1>2. \A c \in S : c \in {"free", "plus", "pro", "enterprise"}
    BY DEF Tier
<1>3. CASE "enterprise" \in S
    BY <1>1, <1>2, <1>3
<1>4. CASE "enterprise" \notin S /\ "pro" \in S
    BY <1>1, <1>2, <1>4
<1>5. CASE "enterprise" \notin S /\ "pro" \notin S /\ "plus" \in S
    BY <1>1, <1>2, <1>5
<1>6. CASE "enterprise" \notin S /\ "pro" \notin S /\ "plus" \notin S
    BY <1>1, <1>2, <1>6
<1>7. QED BY <1>3, <1>4, <1>5, <1>6

\* The CHOOSE of GrantTier has something to choose.
LEMMA GrantTierIs ==
    ASSUME NEW g \in SUBSET Grants, NEW t \in Nat
    PROVE  /\ GrantTier(g, t) \in Tier
           /\ GrantTier(g, t) \in {"free"} \cup {x.tier : x \in ActiveGrants(g, t)}
           /\ \A x \in ActiveGrants(g, t) :
                 TierRank[x.tier] <= TierRank[GrantTier(g, t)]
<1> DEFINE T == {"free"} \cup {x.tier : x \in ActiveGrants(g, t)}
           Best(b) == b \in T /\ \A x \in ActiveGrants(g, t) :
                                    TierRank[b] >= TierRank[x.tier]
<1>1. T \subseteq Tier /\ \A x \in ActiveGrants(g, t) : x.tier \in T
    BY DEF ActiveGrants, Tier
<1>2. \E b : Best(b)
  <2>1. PICK b \in T : \A c \in T : TierRank[b] >= TierRank[c]
    <3>1. T # {}
          OBVIOUS
    <3>2. QED BY <1>1, <3>1, HighestTier
  <2>2. Best(b)
        BY <1>1, <2>1
  <2>3. QED BY <2>2
<1>3. Best(GrantTier(g, t))
    BY <1>2 DEF GrantTier
<1>4. TierRank \in [Tier -> Nat]
    BY DEF TierRank, Tier
<1>5. QED BY <1>1, <1>3, <1>4

LEMMA SubscriptionTierType ==
    ASSUME NEW s \in SubSet, NEW t \in Nat
    PROVE  SubscriptionTier(s, t) \in Tier
BY DEF SubscriptionTier, SubSet, Tier

LEMMA TruthType ==
    ASSUME NEW s \in SubSet, NEW g \in SUBSET Grants, NEW t \in Nat
    PROVE  Truth(s, g, t) \in Tier
BY HigherTierIs, SubscriptionTierType, GrantTierIs DEF Truth

---------------------------------------------------------------------------
(* Types *)

LEMMA HeldType == ASSUME TypeOK, NEW r \in Readers PROVE held[r] \in Holding
BY DEF TypeOK

LEMMA NotReadingType == NotReading \in Holding
BY DEF NotReading, Holding, NoSub, Tier, Time

LEMMA NoEntryType == NoEntry \in CacheEntry
BY DEF NoEntry, CacheEntry, Time

LEMMA InitTyped == Init => TypeOK
<1> SUFFICES ASSUME Init PROVE TypeOK
    OBVIOUS
<1>1. PICK s \in Subs :
         sub = [tier |-> s.tier, since |-> IF s.dunning THEN 0 ELSE NoTime]
    BY DEF Init
<1>2. sub \in SubSet
    BY <1>1 DEF SubSet, Time
<1>3. held \in [Readers -> Holding] /\ entry \in CacheEntry
    BY NotReadingType, NoEntryType DEF Init
<1>4. QED BY <1>2, <1>3 DEF Init, TypeOK, SubSet, Time

LEMMA FaultsTyped ==
    ASSUME TypeOK, RedisFails \/ DatabaseDown \/ UNCHANGED faults
    PROVE  failures' \in Nat /\ redisDown' \in BOOLEAN
<1>1. failures' \in Nat
    BY DEF TypeOK, RedisFails, DatabaseDown, faults
<1>2. redisDown' = TRUE \/ redisDown' = redisDown
    BY DEF RedisFails, DatabaseDown, faults
<1>3. QED BY <1>1, <1>2 DEF TypeOK

\* What a write may store is typed.
LEMMA StoreTyped ==
    ASSUME TypeOK, Store
    PROVE  sub' \in SubSet /\ grants' \subseteq Grants
<1>1. sub \in SubSet /\ now \in Nat
    BY DEF TypeOK, SubSet
<1>2. CASE Synced
  <2>1. PICK to \in Subs :
           sub' = [tier  |-> to.tier,
                   since |-> IF ~to.dunning THEN NoTime
                             ELSE IF sub.since = NoTime THEN now ELSE sub.since]
        BY <1>2 DEF Synced
  <2>2. QED BY <1>1, <1>2, <2>1 DEF Synced, SubSet, TypeOK, Time
<1>3. CASE Extended
  BY <1>1, <1>3 DEF Extended, SubSet, TypeOK, Time
<1>4. CASE Granted \/ Revoked \/ LapseReported
  BY <1>1, <1>4 DEF Granted, Revoked, LapseReported, TypeOK
<1>5. QED BY <1>2, <1>3, <1>4 DEF Store

LEMMA ReadGrantsTyped ==
    ASSUME TypeOK, NEW r \in Readers, ReadGrants(r)
    PROVE  TypeOK'
<1> DEFINE h == held[r]
           ours == SubscriptionTier(h.sub, h.at)
           until == GraceEndsAt(h.sub)
           ttl == TTLFor(until, now)
<1>1. h \in Holding /\ h.sub \in SubSet /\ h.at \in Nat /\ now \in Nat
    BY HeldType DEF Holding, SubSet, TypeOK
<1>2. until \in Time
    BY <1>1 DEF GraceEndsAt, SubSet, Time
<1>3. ttl \in Nat
    BY <1>1, <1>2, TTLBounds
<1>4. HigherTier(ours, GrantTier(grants, h.at)) \in Tier
    BY <1>1, SubscriptionTierType, GrantTierIs, HigherTierIs DEF TypeOK
<1>5. NoSub \in SubSet /\ NoTime \in Time /\ GraceExpired(h.sub, now) \in BOOLEAN
    BY DEF NoSub, SubSet, Tier, Time, GraceExpired
<1> HIDE DEF ours, until, ttl
<1>6. [h EXCEPT !.sub = NoSub,
                !.tier = HigherTier(ours, GrantTier(grants, h.at)),
                !.grace = IF ours = "free" THEN NoTime ELSE until,
                !.lapsed = GraceExpired(h.sub, now),
                !.ttl = ttl] \in Holding
    BY <1>1, <1>2, <1>3, <1>4, <1>5 DEF Holding, SubSet
<1>7. held' \in [Readers -> Holding]
    BY <1>6 DEF ReadGrants, TypeOK, ours, until, ttl
<1>8. QED BY <1>7 DEF ReadGrants, Go, TypeOK, dbVars, cacheVars, watch, faults

LEMMA StepTyped == TypeOK /\ [Next]_vars => TypeOK'
<1> SUFFICES ASSUME TypeOK, [Next]_vars PROVE TypeOK'
    OBVIOUS
<1>1. CASE Tick
  BY <1>1 DEF Tick, TypeOK, cacheVars, watch, faults
<1>2. ASSUME NEW r \in Readers,
             \/ CacheMiss(r) \/ DatabaseFails(r) \/ ServeStale(r) \/ Refuse(r)
             \/ AskAgain(r)
      PROVE  TypeOK'
  <2>1. failures' \in Nat /\ redisDown' \in BOOLEAN
        BY <1>2, FaultsTyped DEF CacheMiss, DatabaseFails, ServeStale, Refuse,
                                 AskAgain
  <2>2. held' \in [Readers -> Holding]
        BY <1>2, NotReadingType DEF CacheMiss, DatabaseFails, ServeStale, Refuse,
                                    AskAgain, TypeOK
  <2>3. UNCHANGED <<now, dbVars, cacheVars, watch, marks>>
        BY <1>2 DEF CacheMiss, DatabaseFails, ServeStale, Refuse, AskAgain
  <2>4. \E p \in {"read_sub", "fall_back", "idle", "refused"} : Go(r, p)
        BY <1>2 DEF CacheMiss, DatabaseFails, ServeStale, Refuse, AskAgain
  <2>5. QED BY <2>1, <2>2, <2>3, <2>4 DEF TypeOK, Go, dbVars, cacheVars, watch
<1>3. ASSUME NEW r \in Readers, ReadSub(r) PROVE TypeOK'
  <2>1. [NotReading EXCEPT !.sub = sub, !.at = now, !.of = version] \in Holding
        BY NotReadingType DEF TypeOK, Holding
  <2>2. QED BY <1>3, <2>1 DEF ReadSub, Go, TypeOK, dbVars, cacheVars, watch,
                              faults
<1>4. ASSUME NEW r \in Readers, SetEntry(r) PROVE TypeOK'
  <2>1. held[r] \in Holding
        BY HeldType
  <2>2. [tier |-> held[r].tier, grace |-> held[r].grace,
         lapsed |-> held[r].lapsed, of |-> held[r].of,
         over |-> version, expires |-> now + held[r].ttl] \in CacheEntry
        BY <2>1 DEF Holding, CacheEntry, TypeOK
  <2>3. [NotReading EXCEPT !.at = held[r].at] \in Holding
        BY <2>1, NotReadingType DEF Holding
  <2>4. entry' \in CacheEntry /\ held' \in [Readers -> Holding]
        BY <1>4, <2>2, <2>3 DEF SetEntry, TypeOK
  <2>5. failures' \in Nat /\ redisDown' \in BOOLEAN
        BY <1>4, FaultsTyped DEF SetEntry
  <2>6. QED BY <1>4, <2>4, <2>5 DEF SetEntry, Go, TypeOK, dbVars, watch
<1>5. ASSUME NEW r \in Readers, SetStale(r) PROVE TypeOK'
  <2>1. failures' \in Nat /\ redisDown' \in BOOLEAN
        BY <1>5, FaultsTyped DEF SetStale
  <2>2. stale' \in Nat /\ filled' \in Time
        BY <1>5 DEF SetStale, TypeOK, Time
  <2>3. QED BY <1>5, <2>1, <2>2, NotReadingType DEF SetStale, Go, TypeOK, dbVars,
                                                   watch
<1>6. ASSUME NEW w \in Writers, Commit(w) PROVE TypeOK'
  BY <1>6, StoreTyped DEF Commit, Go, TypeOK, SubSet, cacheVars, watch, faults
<1>7. ASSUME NEW w \in Writers,
             \/ BeginWrite(w) \/ CommitUnmarked(w) \/ Invalidate(w)
             \/ Rollback(w) \/ RecordError(w)
      PROVE  TypeOK'
  <2>1. failures' \in Nat /\ redisDown' \in BOOLEAN
        BY <1>7, FaultsTyped DEF BeginWrite, CommitUnmarked, Invalidate, Rollback, RecordError
  <2>2. missed' \in BOOLEAN
    <3>1. missed' = TRUE \/ missed' = missed
          BY <1>7 DEF BeginWrite, CommitUnmarked, Invalidate, Rollback, RecordError, watch
    <3>2. QED BY <3>1 DEF TypeOK
  <2>3. undrained' \in BOOLEAN
    <3>1. undrained' = undrained \/ undrained' = (undrained \/ w \in marks)
          BY <1>7 DEF BeginWrite, CommitUnmarked, Invalidate, Rollback, RecordError, watch
    <3>2. QED BY <3>1 DEF TypeOK
  <2>4. entry' \in CacheEntry
        BY <1>7, NoEntryType DEF BeginWrite, CommitUnmarked, Invalidate, Rollback, RecordError,
                                 cacheVars, TypeOK
  <2>5. marks' \subseteq Writers
        BY <1>7 DEF BeginWrite, CommitUnmarked, Invalidate, Rollback, RecordError, TypeOK
  <2>6. \E p \in {"commit", "idle", "record_error"} : Go(w, p)
        BY <1>7 DEF BeginWrite, CommitUnmarked, Invalidate, Rollback, RecordError
  <2>7. UNCHANGED <<now, dbVars, stale, filled, held>>
        BY <1>7 DEF BeginWrite, CommitUnmarked, Invalidate, Rollback, RecordError, cacheVars
  <2>8. QED BY <2>1, <2>2, <2>3, <2>4, <2>5, <2>6, <2>7 DEF TypeOK, Go, dbVars
<1>8. CASE UNCHANGED vars
  BY <1>8 DEF vars, TypeOK, dbVars, cacheVars, watch, faults
<1>9. QED
  BY <1>1, <1>2, <1>3, <1>4, <1>5, <1>6, <1>7, <1>8, ReadGrantsTyped
     DEF Next, ReaderStep, WriterStep

\* Every variable keeps its type.
THEOREM TypeCorrect == Spec => []TypeOK
BY InitTyped, StepTyped, PTL DEF Spec

---------------------------------------------------------------------------
(* Marks, and the stale copy *)

\* Only a session on its way to the commit has marked the user.
MarksInv == /\ \A w \in marks : w \in Writers /\ pc[w] = "commit"
            /\ ~undrained

\* The stale copy lives from its last fill.
StaleInv == filled = NoTime \/ stale = filled + StaleTTL

ReaderSteps == {"read_sub", "read_grants", "set_entry", "set_stale", "idle",
                "fall_back"}

\* Where a session goes on; a reader is refused by Refuse alone.
LEMMA ReaderGoes ==
    ASSUME NEW r \in Readers, ReaderStep(r)
    PROVE  \/ Refuse(r) /\ Go(r, "refused")
           \/ \E p \in ReaderSteps : Go(r, p)
<1>1. CASE CacheMiss(r)
    BY <1>1 DEF CacheMiss, ReaderSteps
<1>2. CASE ReadSub(r)
    BY <1>2 DEF ReadSub, ReaderSteps
<1>3. CASE ReadGrants(r)
  <2>1. Go(r, "set_entry") \/ Go(r, "set_stale")
        BY <1>3, Zenon DEF ReadGrants
  <2>2. QED BY <2>1 DEF ReaderSteps
<1>4. CASE SetEntry(r)
    BY <1>4 DEF SetEntry, ReaderSteps
<1>5. CASE SetStale(r)
    BY <1>5 DEF SetStale, ReaderSteps
<1>6. CASE DatabaseFails(r)
    BY <1>6 DEF DatabaseFails, ReaderSteps
<1>7. CASE ServeStale(r) \/ AskAgain(r)
    BY <1>7 DEF ServeStale, AskAgain, ReaderSteps
<1>8. CASE Refuse(r)
    BY <1>8 DEF Refuse
<1>9. QED BY <1>1, <1>2, <1>3, <1>4, <1>5, <1>6, <1>7, <1>8 DEF ReaderStep

LEMMA WriterGoes ==
    ASSUME NEW w \in Writers, WriterStep(w)
    PROVE  \E p \in {"commit", "invalidate", "idle", "record_error"} : Go(w, p)
BY DEF WriterStep, BeginWrite, Commit, CommitUnmarked, Invalidate, Rollback,
       RecordError

LEMMA StepMarks == TypeOK /\ MarksInv /\ [Next]_vars => MarksInv'
<1> SUFFICES ASSUME TypeOK, MarksInv, [Next]_vars PROVE MarksInv'
    OBVIOUS
<1>1. ASSUME NEW r \in Readers, ReaderStep(r) PROVE MarksInv'
  <2>1. \E p : Go(r, p)
        BY <1>1, ReaderGoes
  <2>2. marks' = marks /\ undrained' = undrained
        BY <1>1 DEF ReaderStep, CacheMiss, ReadSub, ReadGrants, SetEntry, SetStale,
           DatabaseFails, ServeStale, Refuse, AskAgain, watch
  <2>3. \A w \in Writers : pc'[w] = pc[w]
        BY <2>1 DEF Go, TypeOK
  <2>4. QED BY <2>2, <2>3 DEF MarksInv
<1>2. ASSUME NEW w \in Writers, WriterStep(w) PROVE MarksInv'
  <2>1. \A v \in Writers \ {w} : pc'[v] = pc[v]
        BY <1>2 DEF WriterStep, BeginWrite, Commit, CommitUnmarked, Invalidate, Rollback,
                    RecordError, Go, TypeOK
  <2>2. CASE BeginWrite(w)
        BY <2>1, <2>2 DEF BeginWrite, Go, MarksInv, TypeOK, watch
  <2>3. CASE Commit(w)
        BY <2>1, <2>3 DEF Commit, Go, MarksInv, TypeOK, watch
  <2>4. CASE Invalidate(w)
        BY <2>1, <2>4 DEF Invalidate, Go, MarksInv, TypeOK
  <2>5. CASE Rollback(w)
        BY <2>1, <2>5 DEF Rollback, Go, MarksInv, TypeOK, watch
  <2>6. CASE RecordError(w)
        BY <2>1, <2>6 DEF RecordError, Go, MarksInv, TypeOK
  <2>7. CASE CommitUnmarked(w)
        BY <2>1, <2>7 DEF CommitUnmarked, Go, MarksInv, TypeOK, watch
  <2>8. QED BY <1>2, <2>2, <2>3, <2>4, <2>5, <2>6, <2>7 DEF WriterStep
<1>3. CASE Tick \/ UNCHANGED vars
  BY <1>3 DEF Tick, vars, watch, MarksInv
<1>4. QED BY <1>1, <1>2, <1>3 DEF Next

\* A write that rolls back leaves no mark for the commit that records the error.
THEOREM NoMarkUndrained == Spec => []MarksDrained
<1>1. Init => MarksInv
    BY DEF Init, MarksInv
<1>2. MarksInv => MarksDrained
    BY DEF MarksInv, MarksDrained
<1>3. QED BY TypeCorrect, <1>1, <1>2, StepMarks, PTL DEF Spec

LEMMA StepStale == TypeOK /\ StaleInv /\ [Next]_vars => StaleInv'
<1> SUFFICES ASSUME TypeOK, StaleInv, [Next]_vars PROVE StaleInv'
    OBVIOUS
<1>1. (stale' = now + StaleTTL /\ filled' = now) \/ UNCHANGED <<stale, filled>>
  BY DEF Next, ReaderStep, WriterStep, Tick, CacheMiss, ReadSub, ReadGrants,
     SetEntry, SetStale, DatabaseFails, ServeStale, Refuse, AskAgain, BeginWrite,
     Commit, CommitUnmarked, Invalidate, Rollback, RecordError, vars, cacheVars
<1>2. QED BY <1>1 DEF StaleInv

\* A database outage alone refuses nobody answered from it within a StaleTTL.
THEOREM OutageLocksNobodyOut == Spec => NoLockout
<1>1. Init => StaleInv
    BY DEF Init, StaleInv
<1>2. TypeOK /\ StaleInv /\ [Next]_vars =>
        [\A r \in Readers :
          pc[r] = "fall_back" /\ pc'[r] = "refused"
              => \/ redisDown'
                 \/ filled = NoTime \/ now >= filled + StaleTTL]_vars
  <2> SUFFICES ASSUME TypeOK, StaleInv, Next, NEW r \in Readers,
                      pc[r] = "fall_back", pc'[r] = "refused",
                      ~redisDown', filled # NoTime
               PROVE  now >= filled + StaleTTL
      OBVIOUS
  <2>1. Refuse(r)
    <3>1. ASSUME NEW p \in Readers \cup Writers, NEW q, Go(p, q),
                 q # "refused"
          PROVE  FALSE
          BY <3>1 DEF Go, TypeOK
    <3>2. ASSUME NEW p \in Readers, Refuse(p) PROVE p = r
          BY <3>2 DEF Refuse, Go, TypeOK
    <3>3. ASSUME NEW p \in Readers, ReaderStep(p) PROVE Refuse(r)
          BY <3>1, <3>2, <3>3, ReaderGoes DEF ReaderSteps
    <3>4. ASSUME NEW p \in Writers, WriterStep(p) PROVE FALSE
          BY <3>1, <3>4, WriterGoes
    <3>5. ~Tick
          BY DEF Tick
    <3>6. QED BY <3>3, <3>4, <3>5 DEF Next
  <2>2. ~Live(stale)
        BY <2>1 DEF Refuse, RedisFails
  <2>3. QED BY <2>2 DEF Live, StaleInv, TypeOK, Time
<1>3. QED BY TypeCorrect, <1>1, <1>2, StepStale, PTL DEF Spec, NoLockout

---------------------------------------------------------------------------
(* The entry, its age and what it says *)

Filling(r) == pc[r] \in {"read_grants", "set_entry", "set_stale"}

\* A fill is no older than MaxFill; an entry no older than its TTL.
AgeInv ==
    /\ changed <= now
    /\ entry.expires <= now + TTL
    /\ \A r \in Readers :
        /\ Filling(r) => held[r].at <= now /\ now <= held[r].at + MaxFill
        /\ pc[r] = "set_entry" => held[r].ttl <= TTL

\* A TTL taken inside the grace window ends inside it, but for the time from
\* reading the row to the SET.
GraceInv ==
    /\ entry.grace # NoTime /\ ~entry.lapsed
          => entry.expires <= entry.grace + MaxFill
    /\ \A r \in Readers :
          pc[r] = "set_entry" /\ held[r].grace # NoTime /\ ~held[r].lapsed
              => held[r].at + held[r].ttl <= held[r].grace

\* An entry that was there when a write committed is being deleted, was missed,
\* or had been overtaken by another write already when it was filled.
VersionInv ==
    /\ \A r \in Readers : held[r].of <= version
    /\ entry.of <= entry.over
    /\ \/ entry.expires = 0
       \/ missed
       \/ \E w \in Writers : pc[w] = "invalidate"
       \/ entry.over = version
       \/ entry.of < entry.over

\* What was read after the last change is right, and stays right in the cache.
TruthInv ==
    /\ entry.expires > changed + MaxFill + TTL
          => entry.tier = Truth(sub, grants, now)
    /\ \A r \in Readers :
        /\ pc[r] = "read_grants" /\ held[r].at > changed
              => /\ held[r].sub = sub
                 /\ Truth(sub, grants, held[r].at) = Truth(sub, grants, now)
        /\ pc[r] = "set_entry" /\ held[r].at > changed
              => held[r].tier = Truth(sub, grants, now)

Inv == AgeInv /\ GraceInv /\ VersionInv /\ TruthInv

LEMMA InitInv == Init => TypeOK /\ Inv
<1> SUFFICES ASSUME Init PROVE Inv
    BY InitTyped
<1>1. AgeInv /\ GraceInv
    BY DEF Init, AgeInv, GraceInv, NoEntry, Filling
<1>2. VersionInv
    BY DEF Init, VersionInv, NoEntry, NotReading
<1>3. TruthInv
    BY DEF Init, TruthInv, NoEntry
<1>4. QED BY <1>1, <1>2, <1>3 DEF Inv

\* The clock moves: what changes the truth counts as a change.
LEMMA TickInv ==
    ASSUME TypeOK, Inv, Tick
    PROVE  Inv'
<1>1. /\ now \in Nat /\ now' = now + 1 /\ changed \in Nat
      /\ changed' = IF Truth(sub, grants, now') # Truth(sub, grants, now)
                    THEN now' ELSE changed
      /\ sub' = sub /\ grants' = grants /\ version' = version
      /\ entry' = entry /\ missed' = missed /\ pc' = pc /\ held' = held
    BY DEF Tick, TypeOK, cacheVars, watch
<1>2. entry \in CacheEntry /\ \A r \in Readers : held[r] \in Holding
    BY HeldType DEF TypeOK
<1>3. \A r \in Readers : Filling(r) => now < held[r].at + MaxFill
    BY DEF Tick, Filling
<1>4. AgeInv'
    BY <1>1, <1>2, <1>3 DEF Inv, AgeInv, Filling, CacheEntry, Holding
<1>5. GraceInv' /\ VersionInv'
    BY <1>1 DEF Inv, GraceInv, VersionInv
<1>6. TruthInv'
  <2>1. CASE Truth(sub, grants, now') = Truth(sub, grants, now)
        BY <1>1, <2>1 DEF Inv, TruthInv
  <2>2. CASE Truth(sub, grants, now') # Truth(sub, grants, now)
    <3>1. changed' = now'
          BY <1>1, <2>2
    <3>2. ~(entry.expires > changed' + MaxFill + TTL)
          BY <1>1, <1>2, <3>1 DEF Inv, AgeInv, CacheEntry
    <3>3. \A r \in Readers : Filling(r) => ~(held[r].at > changed')
          BY <1>1, <1>2, <3>1 DEF Inv, AgeInv, Holding
    <3>4. QED BY <1>1, <3>2, <3>3 DEF TruthInv, Filling
  <2>3. QED BY <2>1, <2>2
<1>7. QED BY <1>4, <1>5, <1>6 DEF Inv

\* A step of a reader before its fill, after it, or past the cache.
LEMMA AsideInv ==
    ASSUME TypeOK, Inv, NEW r \in Readers,
           UNCHANGED <<now, dbVars, entry, missed>>,
           \A v \in Writers : pc'[v] = pc[v],
           \A v \in Readers \ {r} : pc'[v] = pc[v] /\ held'[v] = held[v],
           pc'[r] \notin {"read_grants", "set_entry"},
           pc'[r] = "set_stale" => Filling(r) /\ held'[r].at = held[r].at,
           held'[r].of <= version
    PROVE  Inv'
<1>1. AgeInv'
    BY DEF Inv, AgeInv, Filling, dbVars
<1>2. GraceInv' /\ TruthInv'
    BY DEF Inv, GraceInv, TruthInv, dbVars
<1>3. VersionInv'
    BY DEF Inv, VersionInv, dbVars
<1>4. QED BY <1>1, <1>2, <1>3 DEF Inv

LEMMA ReadSubInv ==
    ASSUME TypeOK, Inv, NEW r \in Readers, ReadSub(r)
    PROVE  Inv'
<1>1. /\ pc'[r] = "read_grants"
      /\ held'[r].sub = sub /\ held'[r].at = now /\ held'[r].of = version
      /\ \A v \in Readers \ {r} : pc'[v] = pc[v] /\ held'[v] = held[v]
      /\ \A v \in Writers : pc'[v] = pc[v]
      /\ now' = now /\ sub' = sub /\ grants' = grants /\ version' = version
      /\ changed' = changed /\ entry' = entry /\ missed' = missed
    BY DEF ReadSub, Go, TypeOK, dbVars, cacheVars, watch, NotReading
<1>2. AgeInv'
    BY <1>1 DEF Inv, AgeInv, Filling, TypeOK
<1>3. GraceInv' /\ TruthInv'
    BY <1>1 DEF Inv, GraceInv, TruthInv
<1>4. VersionInv'
    BY <1>1 DEF Inv, VersionInv, TypeOK
<1>5. QED BY <1>2, <1>3, <1>4 DEF Inv

LEMMA ReadGrantsInv ==
    ASSUME TypeOK, Inv, NEW r \in Readers, ReadGrants(r)
    PROVE  Inv'
<1> DEFINE h == held[r]
           ours == SubscriptionTier(h.sub, h.at)
           until == GraceEndsAt(h.sub)
           ttl == TTLFor(until, now)
<1>1. h \in Holding /\ h.sub \in SubSet /\ h.at \in Nat /\ now \in Nat
    BY HeldType DEF Holding, SubSet, TypeOK
<1>2. /\ ttl \in Nat /\ ttl <= TTL
      /\ until # NoTime /\ now < until => now + ttl <= until
      /\ until \in Time
  <2>1. until \in Time
        BY <1>1 DEF GraceEndsAt, SubSet, Time
  <2>2. QED BY <1>1, <2>1, TTLBounds
<1>3. /\ pc[r] = "read_grants"
      /\ pc'[r] = IF ttl > 0 THEN "set_entry" ELSE "set_stale"
      /\ \A v \in Readers \ {r} : pc'[v] = pc[v] /\ held'[v] = held[v]
      /\ \A v \in Writers : pc'[v] = pc[v]
      /\ now' = now /\ sub' = sub /\ grants' = grants /\ version' = version
      /\ changed' = changed /\ entry' = entry /\ missed' = missed
    BY DEF ReadGrants, Go, TypeOK, dbVars, cacheVars, watch
<1>4. held'[r] = [h EXCEPT !.sub = NoSub,
                           !.tier = HigherTier(ours, GrantTier(grants, h.at)),
                           !.grace = IF ours = "free" THEN NoTime ELSE until,
                           !.lapsed = GraceExpired(h.sub, now),
                           !.ttl = ttl]
    BY DEF ReadGrants, TypeOK
<1>5. /\ held'[r].at = h.at /\ held'[r].of = h.of /\ held'[r].ttl = ttl
      /\ held'[r].grace # NoTime => held'[r].grace = until
      /\ held'[r].lapsed = GraceExpired(h.sub, now)
      /\ held'[r].tier = HigherTier(ours, GrantTier(grants, h.at))
    BY <1>1, <1>4 DEF Holding
<1>6. h.at <= now /\ now <= h.at + MaxFill
    BY <1>3 DEF Inv, AgeInv, Filling
<1>7. GraceExpired(h.sub, now) <=> until # NoTime /\ now >= until
    BY <1>1 DEF GraceExpired, GraceEndsAt, SubSet, Time
<1>8. h.at > changed => HigherTier(ours, GrantTier(grants, h.at))
                          = Truth(sub, grants, now)
    BY <1>3 DEF Inv, TruthInv, Truth
<1> HIDE DEF ours, until, ttl, h
<1>9. AgeInv'
    BY <1>2, <1>3, <1>5, <1>6 DEF Inv, AgeInv, Filling, h
<1>10. GraceInv'
    BY <1>1, <1>2, <1>3, <1>5, <1>6, <1>7 DEF Inv, GraceInv, Time
<1>11. VersionInv'
    BY <1>3, <1>5 DEF Inv, VersionInv, h
<1>12. TruthInv'
    BY <1>3, <1>5, <1>8 DEF Inv, TruthInv, h
<1>13. QED BY <1>9, <1>10, <1>11, <1>12 DEF Inv

LEMMA SetEntryInv ==
    ASSUME TypeOK, Inv, NEW r \in Readers, SetEntry(r)
    PROVE  Inv'
<1> DEFINE h == held[r]
<1>1. h \in Holding /\ now \in Nat /\ version \in Nat /\ changed \in Nat
    BY HeldType DEF TypeOK
<1>2. /\ pc[r] = "set_entry" /\ pc'[r] = "set_stale"
      /\ \A v \in Readers \ {r} : pc'[v] = pc[v] /\ held'[v] = held[v]
      /\ \A v \in Writers : pc'[v] = pc[v]
      /\ now' = now /\ sub' = sub /\ grants' = grants /\ version' = version
      /\ changed' = changed /\ missed' = missed
      /\ held'[r].at = h.at /\ held'[r].of = 0
    BY DEF SetEntry, Go, TypeOK, dbVars, watch, NotReading
<1>3. h.at <= now /\ now <= h.at + MaxFill /\ h.ttl <= TTL /\ h.of <= version
    BY <1>2 DEF Inv, AgeInv, VersionInv, Filling
<1>4. CASE entry' = entry
  BY <1>1, <1>2, <1>4, AsideInv DEF Filling, dbVars
<1>5. CASE entry' = [tier |-> h.tier, grace |-> h.grace, lapsed |-> h.lapsed,
                     of |-> h.of, over |-> version, expires |-> now + h.ttl]
  <2>1. /\ entry'.tier = h.tier /\ entry'.grace = h.grace
        /\ entry'.lapsed = h.lapsed /\ entry'.of = h.of
        /\ entry'.over = version /\ entry'.expires = now + h.ttl
        BY <1>5
  <2>2. AgeInv'
        BY <1>1, <1>2, <1>3, <2>1 DEF Inv, AgeInv, Filling, Holding
  <2>3. GraceInv'
    <3>1. h.grace # NoTime /\ ~h.lapsed => h.at + h.ttl <= h.grace
          BY <1>2 DEF Inv, GraceInv
    <3>2. h.grace # NoTime /\ ~h.lapsed => now + h.ttl <= h.grace + MaxFill
          BY <1>1, <1>3, <3>1 DEF Holding, Time
    <3>3. QED BY <1>2, <2>1, <3>2 DEF Inv, GraceInv
  <2>4. VersionInv'
        BY <1>1, <1>2, <1>3, <2>1 DEF Inv, VersionInv
  <2>5. TruthInv'
    <3>1. now + h.ttl > changed + MaxFill + TTL => h.at > changed
          BY <1>1, <1>3 DEF Holding
    <3>2. h.at > changed => h.tier = Truth(sub, grants, now)
          BY <1>2 DEF Inv, TruthInv
    <3>3. QED BY <1>2, <2>1, <3>1, <3>2 DEF Inv, TruthInv
  <2>6. QED BY <2>2, <2>3, <2>4, <2>5 DEF Inv
<1>6. QED BY <1>4, <1>5 DEF SetEntry

LEMMA OtherReadsInv ==
    ASSUME TypeOK, Inv, NEW r \in Readers,
           \/ CacheMiss(r) \/ SetStale(r) \/ DatabaseFails(r) \/ ServeStale(r)
           \/ Refuse(r) \/ AskAgain(r)
    PROVE  Inv'
<1>1. /\ UNCHANGED <<now, dbVars, entry, missed>>
      /\ \E p \in {"read_sub", "idle", "fall_back", "refused"} : Go(r, p)
      /\ held' = held \/ held' = [held EXCEPT ![r] = NotReading]
    BY DEF CacheMiss, SetStale, DatabaseFails, ServeStale, Refuse, AskAgain,
       cacheVars, watch
<1>2. /\ pc'[r] \in {"read_sub", "idle", "fall_back", "refused"}
      /\ \A v \in Writers : pc'[v] = pc[v]
      /\ \A v \in Readers \ {r} : pc'[v] = pc[v] /\ held'[v] = held[v]
    BY <1>1 DEF Go, TypeOK
<1>3. held'[r].of <= version
    BY <1>1 DEF TypeOK, NotReading, Inv, VersionInv
<1>4. QED BY <1>1, <1>2, <1>3, AsideInv

LEMMA CommitInv ==
    ASSUME TypeOK, Inv, NEW w \in Writers, Commit(w)
    PROVE  Inv'
<1>1. /\ pc'[w] = "invalidate"
      /\ \A v \in Readers : pc'[v] = pc[v]
      /\ now' = now /\ version' = version + 1 /\ changed' = now
      /\ entry' = entry /\ missed' = missed /\ held' = held
    BY DEF Commit, Go, TypeOK, cacheVars, watch
<1>2. entry \in CacheEntry /\ now \in Nat /\ version \in Nat
      /\ \A r \in Readers : held[r] \in Holding
    BY HeldType DEF TypeOK
<1>3. AgeInv' /\ GraceInv'
    BY <1>1, <1>2 DEF Inv, AgeInv, GraceInv, Filling
<1>4. VersionInv'
    BY <1>1, <1>2 DEF Inv, VersionInv, Holding
<1>5. TruthInv'
  <2>1. ~(entry.expires > now + MaxFill + TTL)
        BY <1>2 DEF Inv, AgeInv, CacheEntry
  <2>2. \A r \in Readers : Filling(r) => ~(held[r].at > now)
        BY <1>2 DEF Inv, AgeInv, Holding
  <2>3. QED BY <1>1, <2>1, <2>2 DEF TruthInv, Filling
<1>6. QED BY <1>3, <1>4, <1>5 DEF Inv

LEMMA OtherWritesInv ==
    ASSUME TypeOK, Inv, NEW w \in Writers,
           \/ BeginWrite(w) \/ CommitUnmarked(w) \/ Invalidate(w)
             \/ Rollback(w) \/ RecordError(w)
    PROVE  Inv'
<1>1. /\ UNCHANGED <<now, dbVars, held>>
      /\ \E p \in {"commit", "idle", "record_error"} : Go(w, p)
    BY DEF BeginWrite, CommitUnmarked, Invalidate, Rollback, RecordError
<1>2. /\ \A v \in Readers : pc'[v] = pc[v]
      /\ \A v \in Writers \ {w} : pc'[v] = pc[v]
    BY <1>1 DEF Go, TypeOK
<1>3. CASE entry' = NoEntry
  BY <1>1, <1>2, <1>3 DEF Inv, AgeInv, GraceInv, VersionInv, TruthInv, Filling,
     NoEntry, dbVars, TypeOK
<1>4. CASE entry' = entry /\ entry' # NoEntry
  <2>1. missed' \/ (missed' = missed /\ pc[w] # "invalidate")
        BY <1>4 DEF BeginWrite, CommitUnmarked, Invalidate, Rollback, RecordError, watch
  <2>2. QED BY <1>1, <1>2, <1>4, <2>1 DEF Inv, AgeInv, GraceInv, VersionInv,
               TruthInv, Filling, dbVars
<1>5. QED BY <1>3, <1>4 DEF BeginWrite, CommitUnmarked, Invalidate, Rollback, RecordError,
                            cacheVars

LEMMA StepInv == TypeOK /\ Inv /\ [Next]_vars => Inv'
<1> SUFFICES ASSUME TypeOK, Inv, [Next]_vars PROVE Inv'
    OBVIOUS
<1>1. CASE UNCHANGED vars
  BY <1>1 DEF vars, dbVars, cacheVars, watch, Inv, AgeInv, GraceInv, VersionInv,
     TruthInv, Filling
<1>2. QED
  BY <1>1, TickInv, ReadSubInv, ReadGrantsInv, SetEntryInv, OtherReadsInv,
     CommitInv, OtherWritesInv DEF Next, ReaderStep, WriterStep

LEMMA Invariance == Spec => [](TypeOK /\ Inv)
BY InitInv, StepTyped, StepInv, PTL DEF Spec

\* "For up to the TTL": whatever races, deletes are lost or processes die, the
\* cache is right once nothing has changed for a TTL and the time of a fill.
THEOREM WrongForATTLAtMost == Spec => []StalenessBounded
<1>1. TypeOK /\ Inv => StalenessBounded
    BY DEF TypeOK, CacheEntry, Inv, TruthInv, StalenessBounded, Live
<1>2. QED BY Invariance, <1>1, PTL

\* Only a fill that was under way when a write committed leaves in the cache
\* what it read before the write.
THEOREM DeleteLeavesOnlyRacingFills == Spec => []NoCopyFromBefore
<1>1. TypeOK /\ Inv => NoCopyFromBefore
    BY DEF TypeOK, Inv, VersionInv, NoCopyFromBefore, Live
<1>2. QED BY Invariance, <1>1, PTL

\* Paid access whose TTL was taken inside the grace window ends with it.
THEOREM GraceEndsInTheCache == Spec => []GraceCapped
<1>1. TypeOK /\ Inv => GraceCapped
    BY DEF TypeOK, CacheEntry, Inv, GraceInv, GraceCapped, Live, Time
<1>2. QED BY Invariance, <1>1, PTL
=============================================================================
