-------------------------- MODULE EntitlementCache --------------------------
(***************************************************************************)
(* The read path of one user, app/services/entitlements.py, against the    *)
(* writes that change what the user may do.                                *)
(*                                                                         *)
(* A reader is a request in resolve_entitlements: it asks the cache, on a  *)
(* miss reads the subscription and then the grants in two statements,      *)
(* fills the cache and fills the stale copy kept for database outages.  A  *)
(* writer is a session that marks the user, commits through                *)
(* commit_and_invalidate and then drops the cached entry.  Each call to    *)
(* Postgres or Redis is a step, and each may fail.                         *)
(*                                                                         *)
(* Time runs in ticks, Second of them to a second, because a TTL is whole  *)
(* seconds and the grace boundary is not.                                  *)
(***************************************************************************)
EXTENDS Plans

CONSTANTS
    Readers, Writers,   \* the sessions
    Subs,               \* what a sync may write: [tier, dunning]
    Grants,             \* the grants an operator may make: [tier, until]
    Second,             \* ticks to a second
    TTL, StaleTTL,      \* lives of the entry and of the stale copy
    NoTime,             \* no time: a clock or an end that is not set
    Grace,              \* the grace window
    Extensions,         \* by how much extend_grace may move the clock: any
                        \*   number of days, negative ones and zero too
    MaxFill,            \* longest time from reading the row to filling
    MaxTime,            \* bound on the clock
    MaxCommits,         \* bound on the writes
    MaxFailures         \* bound on failing calls and dying processes

Time == Int \cup {NoTime}

ASSUME SessionsAssumption == Readers \cap Writers = {}
ASSUME TargetsAssumption  == Subs \subseteq [tier : Tier, dunning : BOOLEAN]
ASSUME GrantsAssumption   == Grants \subseteq [tier : Tier, until : Time]
ASSUME ClockAssumption   == NoTime \notin Int /\ Extensions \subseteq Int
ASSUME TicksAssumption ==
    /\ Second \in Nat \ {0} /\ TTL \in Nat \ {0} /\ StaleTTL \in Nat \ {0}
    /\ Grace \in Nat /\ MaxFill \in Nat
    /\ MaxTime \in Nat /\ MaxCommits \in Nat /\ MaxFailures \in Nat

VARIABLES
    now,        \* the clock, in ticks
    sub,        \* the committed subscription: tier, past_due_since
    grants,     \* the committed grants not revoked
    version,    \* commits so far
    changed,    \* when what the user may do last changed
    entry,      \* ent:v2:<user>
    stale,      \* ent:v2:stale:<user>: when it expires
    filled,     \* when the stale copy was last written
    missed,     \* TRUE once a commit was not followed by its delete
    undrained,  \* TRUE once a plain commit dropped marks
    redisDown,  \* TRUE once a call to Redis failed
    failures,   \* calls that failed so far
    pc,         \* per session: its next step
    held,       \* per reader: what it has computed
    marks       \* the writers whose session has marked the user

dbVars    == <<sub, grants, version, changed>>
cacheVars == <<entry, stale, filled>>
watch     == <<missed, undrained>>
faults    == <<failures, redisDown>>
vars == <<now, dbVars, cacheVars, watch, faults, pc, held, marks>>

---------------------------------------------------------------------------
(* What the database says *)

GraceEndsAt(s) == IF s.since = NoTime THEN NoTime ELSE s.since + Grace

GraceExpired(s, t) == s.since # NoTime /\ t >= GraceEndsAt(s)

SubscriptionTier(s, t) == IF GraceExpired(s, t) THEN "free" ELSE s.tier

ActiveGrants(g, t) == {x \in g : x.until = NoTime \/ x.until > t}

\* The highest active grant; free, which lifts nobody, when there is none.
GrantTier(g, t) ==
    CHOOSE best \in {"free"} \cup {x.tier : x \in ActiveGrants(g, t)} :
        \A x \in ActiveGrants(g, t) : TierRank[best] >= TierRank[x.tier]

Truth(s, g, t) == HigherTier(SubscriptionTier(s, t), GrantTier(g, t))

---------------------------------------------------------------------------
(* What the cache holds *)

\* Of the answer, its tier.  The rest is for the properties: the end of the
\* grace window its access depends on, whether that had passed when the TTL
\* was taken, the version read and the version the fill landed on.
NoEntry == [tier |-> NoTier, grace |-> NoTime, lapsed |-> FALSE,
            of |-> 0, over |-> 0, expires |-> 0]

Live(expires) == now < expires

Whole(ticks) == (ticks \div Second) * Second

\* Mistaken: the entry lives for the TTL, wherever the boundary is.
TTLUncapped(graceUntil, t) == TTL

\* Mistaken: nothing is said of a boundary that has passed.
TTLUnguarded(graceUntil, t) ==
    LET remaining == graceUntil - t
    IN  IF graceUntil # NoTime /\ remaining < TTL THEN remaining ELSE TTL

\* _ttl_for: never beyond the grace boundary; 0 is "do not cache this".
TTLFor(graceUntil, t) ==
    LET remaining == graceUntil - t
    IN  IF graceUntil = NoTime \/ remaining <= 0 THEN TTL
        ELSE IF remaining < Second THEN 0
        ELSE IF TTL <= Whole(remaining) THEN TTL ELSE Whole(remaining)

NoSub == [tier |-> "free", since |-> NoTime]

NotReading == [at |-> 0, of |-> 0, sub |-> NoSub,
               tier |-> NoTier, grace |-> NoTime, lapsed |-> FALSE, ttl |-> 0]

---------------------------------------------------------------------------
Init ==
    /\ now = 0
    /\ sub \in {[tier |-> s.tier, since |-> IF s.dunning THEN 0 ELSE NoTime]
                   : s \in Subs}
    /\ grants = {}
    /\ version = 0
    /\ changed = 0
    /\ entry = NoEntry
    /\ stale = 0
    /\ filled = NoTime
    /\ missed = FALSE
    /\ undrained = FALSE
    /\ failures = 0
    /\ redisDown = FALSE
    /\ pc = [p \in Readers \cup Writers |-> "idle"]
    /\ held = [r \in Readers |-> NotReading]
    /\ marks = {}

Go(p, step) == pc' = [pc EXCEPT ![p] = step]

RedisFails ==
    /\ failures < MaxFailures
    /\ failures' = failures + 1
    /\ redisDown' = TRUE

DatabaseDown ==
    /\ failures < MaxFailures
    /\ failures' = failures + 1
    /\ UNCHANGED redisDown

\* The clock does not overtake a fill: its calls have timeouts.
Tick ==
    /\ now < MaxTime
    /\ \A r \in Readers :
          pc[r] \in {"read_grants", "set_entry", "set_stale"}
              => now < held[r].at + MaxFill
    /\ now' = now + 1
    /\ changed' = IF Truth(sub, grants, now') # Truth(sub, grants, now)
                  THEN now' ELSE changed
    /\ UNCHANGED <<sub, grants, version, cacheVars, watch, faults, pc,
                   held, marks>>

---------------------------------------------------------------------------
(* resolve_entitlements *)

\* A live entry is the answer, and nothing more happens.  The request goes
\* on when there is none, or the cache cannot be reached.
CacheMiss(r) ==
    /\ pc[r] = "idle"
    /\ \/ ~Live(entry.expires) /\ UNCHANGED faults
       \/ Live(entry.expires) /\ RedisFails
    /\ Go(r, "read_sub")
    /\ UNCHANGED <<now, dbVars, cacheVars, watch, held, marks>>

\* The subscription, and whether its grace window is over, as of now.
ReadSub(r) ==
    /\ pc[r] = "read_sub"
    /\ held' = [held EXCEPT ![r] =
                  [NotReading EXCEPT !.sub = sub, !.at = now, !.of = version]]
    /\ Go(r, "read_grants")
    /\ UNCHANGED <<now, dbVars, cacheVars, watch, faults, marks>>

\* The grants, a statement later, taken as active or not by the time before
\* that statement; then the answer and its TTL.
ReadGrants(r) ==
    LET h     == held[r]
        ours  == SubscriptionTier(h.sub, h.at)
        until == GraceEndsAt(h.sub)
        ttl   == TTLFor(until, now)
    IN  /\ pc[r] = "read_grants"
        /\ held' = [held EXCEPT ![r] =
               [h EXCEPT !.sub = NoSub,
                         !.tier = HigherTier(ours, GrantTier(grants, h.at)),
                         !.grace = IF ours = "free" THEN NoTime ELSE until,
                         !.lapsed = GraceExpired(h.sub, now),
                         !.ttl = ttl]]
        /\ Go(r, IF ttl > 0 THEN "set_entry" ELSE "set_stale")
        /\ UNCHANGED <<now, dbVars, cacheVars, watch, faults, marks>>

\* Mistaken: the entry gets the stale copy's life.
SetEntryForTooLong(r) ==
    LET h == held[r]
    IN  /\ pc[r] = "set_entry"
        /\ entry' = [tier |-> h.tier, grace |-> h.grace, lapsed |-> h.lapsed,
                     of |-> h.of, over |-> version, expires |-> now + StaleTTL]
        /\ Go(r, "set_stale")
        /\ held' = [held EXCEPT ![r] = [NotReading EXCEPT !.at = h.at]]
        /\ UNCHANGED <<now, dbVars, stale, filled, watch, faults, marks>>

\* SET overwrites whatever is there.
SetEntry(r) ==
    LET h == held[r]
    IN  /\ pc[r] = "set_entry"
        /\ \/ /\ entry' = [tier |-> h.tier, grace |-> h.grace,
                            lapsed |-> h.lapsed, of |-> h.of,
                            over |-> version, expires |-> now + h.ttl]
              /\ UNCHANGED faults
           \/ RedisFails /\ UNCHANGED entry
        /\ Go(r, "set_stale")
        /\ held' = [held EXCEPT ![r] = [NotReading EXCEPT !.at = h.at]]
        /\ UNCHANGED <<now, dbVars, stale, filled, watch, marks>>

\* The stale copy is written whatever the TTL was.
SetStale(r) ==
    /\ pc[r] = "set_stale"
    /\ \/ /\ stale' = now + StaleTTL
          /\ filled' = now
          /\ UNCHANGED faults
       \/ RedisFails /\ UNCHANGED <<stale, filled>>
    /\ Go(r, "idle")
    /\ held' = [held EXCEPT ![r] = NotReading]
    /\ UNCHANGED <<now, dbVars, entry, watch, marks>>

\* The database does not answer: the stale copy is asked for.
DatabaseFails(r) ==
    /\ pc[r] \in {"read_sub", "read_grants"}
    /\ DatabaseDown
    /\ Go(r, "fall_back")
    /\ held' = [held EXCEPT ![r] = NotReading]
    /\ UNCHANGED <<now, dbVars, cacheVars, watch, marks>>

ServeStale(r) ==
    /\ pc[r] = "fall_back"
    /\ Live(stale)
    /\ Go(r, "idle")
    /\ UNCHANGED <<now, dbVars, cacheVars, watch, faults, held, marks>>

\* With no stale copy within reach the request fails.
Refuse(r) ==
    /\ pc[r] = "fall_back"
    /\ \/ ~Live(stale) /\ UNCHANGED faults
       \/ Live(stale) /\ RedisFails
    /\ Go(r, "refused")
    /\ UNCHANGED <<now, dbVars, cacheVars, watch, held, marks>>

AskAgain(r) ==
    /\ pc[r] = "refused"
    /\ Go(r, "idle")
    /\ UNCHANGED <<now, dbVars, cacheVars, watch, faults, held, marks>>

---------------------------------------------------------------------------
(* The write paths *)

\* A write is flushed and the user marked, though not by a sync that finds
\* nothing of the answer changed; what it writes shows at the commit.
BeginWrite(w) ==
    /\ pc[w] = "idle"
    /\ version < MaxCommits
    /\ marks' \in {marks, marks \cup {w}}
    /\ Go(w, "commit")
    /\ UNCHANGED <<now, dbVars, cacheVars, watch, faults, held>>

\* The sync's _write; the clock is stamped on entry, kept and cleared.
Synced ==
    /\ \E to \in Subs :
          sub' = [tier  |-> to.tier,
                  since |-> IF ~to.dunning THEN NoTime
                            ELSE IF sub.since = NoTime THEN now ELSE sub.since]
    /\ UNCHANGED grants

Extended ==
    /\ sub.since # NoTime
    /\ \E days \in Extensions : sub' = [sub EXCEPT !.since = @ + days]
    /\ UNCHANGED grants

Granted ==
    /\ \E g \in Grants \ grants : grants' = grants \cup {g}
    /\ UNCHANGED sub

Revoked ==
    /\ \E g \in grants : grants' = grants \ {g}
    /\ UNCHANGED sub

\* expire_grace writes an audit row only, and invalidates all the same.
LapseReported ==
    /\ GraceExpired(sub, now) /\ sub.tier # "free"
    /\ UNCHANGED <<sub, grants>>

Store == Synced \/ Extended \/ Granted \/ Revoked \/ LapseReported

\* Mistaken: the entry is dropped before the commit, not after it.
InvalidateFirst(w) ==
    /\ pc[w] = "commit" /\ w \in marks
    /\ version < MaxCommits
    /\ \/ /\ entry # NoEntry
          /\ entry' = NoEntry
          /\ UNCHANGED <<sub, grants, version, changed, marks, pc>>
       \/ /\ Store
          /\ version' = version + 1
          /\ changed' = now
          /\ marks' = marks \ {w}
          /\ Go(w, "idle")
          /\ UNCHANGED entry
    /\ UNCHANGED <<now, stale, filled, watch, faults, held>>

\* commit_and_invalidate: the marks are taken, then the commit.
Commit(w) ==
    /\ pc[w] = "commit" /\ w \in marks
    /\ version < MaxCommits
    /\ Store
    /\ version' = version + 1
    /\ changed' = now
    /\ marks' = marks \ {w}
    /\ Go(w, "invalidate")
    /\ UNCHANGED <<now, cacheVars, watch, faults, held>>

\* ... and with no marks there is nothing to drop, nor anything it would show.
CommitUnmarked(w) ==
    /\ pc[w] = "commit" /\ w \notin marks
    /\ Go(w, "idle")
    /\ UNCHANGED <<now, dbVars, cacheVars, watch, faults, held, marks>>

\* Mistaken: the stale copy is dropped with the entry.
InvalidateBoth(w) ==
    /\ pc[w] = "invalidate"
    /\ entry' = NoEntry
    /\ stale' = 0
    /\ Go(w, "idle")
    /\ UNCHANGED <<now, dbVars, filled, watch, faults, held, marks>>

\* ... and then the delete.  One that fails is logged and never raised, and
\* a process that dies here leaves the entry as it is too.
Invalidate(w) ==
    /\ pc[w] = "invalidate"
    /\ \/ entry' = NoEntry /\ UNCHANGED <<missed, faults>>
       \/ RedisFails /\ missed' = TRUE /\ UNCHANGED entry
    /\ Go(w, "idle")
    /\ UNCHANGED <<now, dbVars, stale, filled, undrained, held, marks>>

\* Mistaken: the marks outlive the rollback.
RollbackKeepingMarks(w) ==
    /\ pc[w] = "commit"
    /\ DatabaseDown
    /\ Go(w, "record_error")
    /\ UNCHANGED <<now, dbVars, cacheVars, watch, held, marks>>

\* The write fails and rolls back; the marks go with it.
Rollback(w) ==
    /\ pc[w] = "commit"
    /\ DatabaseDown
    /\ marks' = marks \ {w}
    /\ Go(w, "record_error")
    /\ UNCHANGED <<now, dbVars, cacheVars, watch, held>>

\* The webhook's error record goes in with a plain commit, and the detector
\* reports any mark that finds.
RecordError(w) ==
    /\ pc[w] = "record_error"
    /\ undrained' = (undrained \/ w \in marks)
    /\ marks' = marks \ {w}
    /\ Go(w, "idle")
    /\ UNCHANGED <<now, dbVars, cacheVars, missed, faults, held>>

ReaderStep(r) ==
    \/ CacheMiss(r) \/ ReadSub(r) \/ ReadGrants(r)
    \/ SetEntry(r) \/ SetStale(r)
    \/ DatabaseFails(r) \/ ServeStale(r) \/ Refuse(r) \/ AskAgain(r)

WriterStep(w) ==
    \/ BeginWrite(w)
    \/ Commit(w) \/ CommitUnmarked(w) \/ Invalidate(w) \/ Rollback(w) \/ RecordError(w)

Next ==
    \/ Tick
    \/ \E r \in Readers : ReaderStep(r)
    \/ \E w \in Writers : WriterStep(w)

Spec == Init /\ [][Next]_vars

---------------------------------------------------------------------------
(* Properties *)

Holding == [at : Nat, of : Nat, sub : [tier : Tier, since : Time],
            tier : Tier \cup {NoTier}, grace : Time, lapsed : BOOLEAN,
            ttl : Nat]

CacheEntry == [tier : Tier \cup {NoTier}, grace : Time, lapsed : BOOLEAN,
               of : Nat, over : Nat, expires : Nat]

\* Every variable keeps its type.
TypeOK ==
    /\ now \in Nat /\ version \in Nat /\ changed \in Nat
    /\ sub \in [tier : Tier, since : Time]
    /\ grants \subseteq Grants
    /\ entry \in CacheEntry /\ stale \in Nat
    /\ filled \in Time
    /\ missed \in BOOLEAN /\ undrained \in BOOLEAN /\ redisDown \in BOOLEAN
    /\ failures \in Nat
    /\ pc \in [Readers \cup Writers ->
                 {"idle", "read_sub", "read_grants", "set_entry", "set_stale",
                  "fall_back", "refused", "commit", "invalidate",
                  "record_error"}]
    /\ held \in [Readers -> Holding]
    /\ marks \subseteq Writers

\* A customer holds a stale answer "for up to the TTL" (commit_and_invalidate)
\* and no longer: whatever races, deletes are lost or processes die, what the
\* cache answers is right once nothing has changed for a TTL and a fill.
StalenessBounded ==
    Live(entry.expires) /\ now >= changed + TTL + MaxFill
        => entry.tier = Truth(sub, grants, now)

\* What was cached before a write does not survive the write's delete; only
\* a fill that was under way when the write committed can leave its answer.
NoCopyFromBefore ==
    Live(entry.expires) /\ ~missed /\ (\A w \in Writers : pc[w] # "invalidate")
        => entry.over = version \/ entry.of < entry.over

\* Paid access whose TTL was taken inside the grace window does not outlive
\* the window by more than the SET took.
GraceCapped ==
    Live(entry.expires) /\ entry.grace # NoTime /\ ~entry.lapsed
        => now < entry.grace + MaxFill

\* A write that rolls back leaves no mark for the commit that records the
\* error, so the detector of undrained marks stays silent.
MarksDrained == ~undrained

\* Failing open: a database outage alone refuses nobody who was answered from
\* the database within the life of the stale copy, whatever was written since.
NoLockout ==
    [][\A r \in Readers :
          pc[r] = "fall_back" /\ pc'[r] = "refused"
              => \/ redisDown'
                 \/ filled = NoTime \/ now >= filled + StaleTTL]_vars
=============================================================================
