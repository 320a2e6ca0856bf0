-------------------------- MODULE SubscriptionSync --------------------------
(***************************************************************************)
(* The write path of one Stripe customer: sync_subscription_from_stripe    *)
(* and everything that can change the customer's row around it.            *)
(*                                                                         *)
(* Each worker is one database session, running one of the jobs            *)
(*    webhook       routers/webhooks.py   _handle, a subscription event    *)
(*    dispute       routers/webhooks.py   _handle, a dispute event         *)
(*    resync        routers/admin.py      resync                           *)
(*    extend_grace  routers/admin.py      extend_grace                     *)
(*    cancel        schedule_cancellation                                  *)
(*    resume        resume_subscription                                    *)
(*    reconcile     jobs/reconcile.py     _reconcile_one                   *)
(* A job is split at every await at which another session can run: each    *)
(* statement sent to Postgres and each call to Stripe is a step.           *)
(*                                                                         *)
(* Postgres runs READ COMMITTED, so what a session writes appears at its   *)
(* commit; until then it holds the row's lock.  SQLAlchemy's session keeps *)
(* the row it first loaded (`loaded`): a later SELECT ... FOR UPDATE takes *)
(* the lock and returns the object already held without refreshing it, and *)
(* a flush sends only the columns that differ from what was loaded.        *)
(***************************************************************************)
EXTENDS Plans, Sequences

CONSTANTS
    Workers,         \* sessions that can be open at once
    NoWorker,        \* nobody, as the holder of the lock
    Jobs,            \* the jobs they may run
    RemoteStates,    \* the states Stripe can be in
    Onboarded,       \* TRUE: the row already carries the customer id
    Named,           \* TRUE: Stripe's customer carries our user_id, as one
                     \*   made by this service does
    NoTime,          \* past_due_since of None
    Burst,           \* events in flight when it does not: a first checkout
    Extensions,      \* by how much extend_grace may move past_due_since:
                     \*   any number of days, negative ones and zero too
    MaxVersions,     \* bound on the states Stripe goes through
    MaxTime,         \* bound on the clock, and on how far it is moved
    MaxAborts        \* bound on the sessions that fail

AllJobs == {"webhook", "dispute", "resync", "extend_grace", "cancel",
            "resume", "reconcile"}

ASSUME WorkersAssumption == NoWorker \notin Workers
ASSUME JobsAssumption    == Jobs \subseteq AllJobs
ASSUME RemoteAssumption  == RemoteStates \subseteq RemoteOrNone
ASSUME FlagAssumption    == Onboarded \in BOOLEAN /\ Named \in BOOLEAN
ASSUME TimeAssumption    == NoTime \notin Int /\ Extensions \subseteq Int
ASSUME BoundsAssumption  == /\ Burst \in Nat /\ MaxVersions \in Nat
                            /\ MaxTime \in Nat /\ MaxAborts \in Nat

VARIABLES
    hist,      \* the states Stripe has been in; the last is true now
    pending,   \* change notifications Stripe still has to get a 200 for
    row,       \* the committed subscriptions row
    lock,      \* the worker holding the row's lock
    synced,    \* index in hist of the answer the last sync wrote
    audit,     \* the newest subscription_audit row of a sync
    now,       \* the clock past_due_since is stamped from
    aborts,    \* sessions that failed so far
    job, pc,   \* per worker: what it runs and its next step
    loaded,    \* per worker: the Subscription object its session holds
    answer     \* per worker: index in hist of Stripe's answer, 0 if none

stripeVars == <<hist, pending>>
dbVars     == <<row, lock, synced, audit>>
workerVars == <<job, pc, loaded, answer>>
vars == <<hist, pending, row, lock, synced, audit, now, aborts,
          job, pc, loaded, answer>>

Time == Int \cup {NoTime}

Row == [present : BOOLEAN, cust : BOOLEAN, tier : Tier,
        status : SubscriptionStatus, cancel : BOOLEAN,
        pastDueSince : Time, disputed : BOOLEAN]

NoRow == [present |-> FALSE, cust |-> FALSE, tier |-> "free",
          status |-> "free", cancel |-> FALSE,
          pastDueSince |-> NoTime, disputed |-> FALSE]

\* What get_or_create_subscription inserts.
SignupRow == [NoRow EXCEPT !.present = TRUE]

JobNames == AllJobs \cup {"none", "disputed"}

Steps == {"idle", "select", "fetch", "write", "fetch_unlocked", "attach",
          "flush_attach", "relock", "ask_stripe", "compare", "mark",
          "flush_grace"}

StripeNow == hist[Len(hist)]

MirrorOf(r) == [tier |-> r.tier, status |-> r.status, cancel |-> r.cancel]

Snapshot(r) == <<r.tier, r.status>>

\* Mistaken: the tier is left as it was.
WriteWithoutTier(r, state, t) ==
    [r EXCEPT !.status = state.status, !.cancel = state.cancel,
              !.pastDueSince =
                  IF state.status # "past_due" THEN NoTime
                  ELSE IF r.pastDueSince = NoTime THEN t
                  ELSE r.pastDueSince]

\* Mistaken: every failed retry stamps past_due_since again.
WriteRestamping(r, state, t) ==
    [r EXCEPT !.tier = state.tier, !.status = state.status,
              !.cancel = state.cancel,
              !.pastDueSince =
                  IF state.status = "past_due" THEN t ELSE NoTime]

\* Mistaken: past_due_since is not cleared on the way out.
WriteKeepingClock(r, state, t) ==
    [r EXCEPT !.tier = state.tier, !.status = state.status,
              !.cancel = state.cancel,
              !.pastDueSince =
                  IF state.status = "past_due" /\ @ = NoTime THEN t ELSE @]

\* _write: every mirrored column from Stripe; past_due_since is stamped on
\* entry, kept while it lasts and cleared on the way out.
Write(r, state, t) ==
    [r EXCEPT !.tier = state.tier, !.status = state.status,
              !.cancel = state.cancel,
              !.pastDueSince =
                  IF state.status # "past_due" THEN NoTime
                  ELSE IF r.pastDueSince = NoTime THEN t
                  ELSE r.pastDueSince]

\* A flush: UPDATE sets the columns that differ from what was loaded.
Flush(stored, before, after) ==
    LET column(s, b, a) == IF a # b THEN a ELSE s
    IN  [present |-> TRUE,
         cust    |-> column(stored.cust, before.cust, after.cust),
         tier    |-> column(stored.tier, before.tier, after.tier),
         status  |-> column(stored.status, before.status, after.status),
         cancel  |-> column(stored.cancel, before.cancel, after.cancel),
         pastDueSince |-> column(stored.pastDueSince, before.pastDueSince,
                                 after.pastDueSince),
         disputed |-> column(stored.disputed, before.disputed,
                             after.disputed)]

---------------------------------------------------------------------------
Init ==
    /\ hist \in {<<r>> : r \in RemoteStates}
    /\ row = IF Onboarded
             THEN Write([SignupRow EXCEPT !.cust = TRUE], Project(hist[1]), 0)
             ELSE NoRow
    /\ pending = IF Onboarded THEN 0 ELSE Burst
    /\ synced  = IF Onboarded THEN 1 ELSE 0
    /\ audit   = [from |-> Snapshot(row), to |-> Snapshot(row)]
    /\ lock = NoWorker
    /\ now = 0
    /\ aborts = 0
    /\ job = [w \in Workers |-> "none"]
    /\ pc = [w \in Workers |-> "idle"]
    /\ loaded = [w \in Workers |-> NoRow]
    /\ answer = [w \in Workers |-> 0]

---------------------------------------------------------------------------
(* The environment *)

\* Stripe's state changes, and it owes us an event about it.
StripeChanges ==
    /\ Len(hist) < MaxVersions
    /\ \E r \in RemoteStates \ {StripeNow} : hist' = Append(hist, r)
    /\ pending' = pending + 1
    /\ UNCHANGED <<dbVars, now, aborts, workerVars>>

Tick ==
    /\ now < MaxTime
    /\ now' = now + 1
    /\ UNCHANGED <<stripeVars, dbVars, aborts, workerVars>>

\* GET /v1/billing/subscription: every account gets a row on first use.
MySubscription ==
    /\ ~row.present
    /\ lock = NoWorker
    /\ row' = SignupRow
    /\ UNCHANGED <<stripeVars, lock, synced, audit, now, aborts, workerVars>>

---------------------------------------------------------------------------
(* Starting a job *)

Become(w, j, step, object, version) ==
    /\ pc[w] = "idle"
    /\ j \in Jobs
    /\ job' = [job EXCEPT ![w] = j]
    /\ pc' = [pc EXCEPT ![w] = step]
    /\ loaded' = [loaded EXCEPT ![w] = object]
    /\ answer' = [answer EXCEPT ![w] = version]
    /\ UNCHANGED <<hist, dbVars, now, aborts>>

\* A subscription event is claimed; nothing has been loaded yet.
StartWebhook(w) ==
    /\ pending > 0
    /\ Become(w, "webhook", "select", NoRow, 0)
    /\ pending' = pending - 1

\* mark_disputed reads the row without a lock; with no row it does nothing.
StartDispute(w) ==
    /\ Become(w, "dispute", IF row.cust THEN "mark" ELSE "select",
              IF row.cust THEN row ELSE NoRow, 0)
    /\ UNCHANGED pending

\* POST /resync: _require_subscription loads the row, then syncs.
StartResync(w) ==
    /\ row.cust
    /\ Become(w, "resync", "select", row, 0)
    /\ UNCHANGED pending

\* POST /extend-grace: the row is read, moved and written back.
StartExtendGrace(w) ==
    /\ row.pastDueSince # NoTime
    /\ row.pastDueSince \in (-MaxTime)..MaxTime
    /\ Become(w, "extend_grace", "flush_grace", row, 0)
    /\ UNCHANGED pending

\* A row carries a subscription id exactly when its status is not free.
StartCancel(w) ==
    /\ GrantsAccess(row.status)
    /\ ~row.cancel
    /\ Become(w, "cancel", "ask_stripe", row, 0)
    /\ UNCHANGED pending

StartResume(w) ==
    /\ row.status # "free"
    /\ row.cancel
    /\ Become(w, "resume", "ask_stripe", row, 0)
    /\ UNCHANGED pending

\* The nightly job lists the customer's subscription; the row is read later.
StartReconcile(w) ==
    /\ StripeNow # NoRemote
    /\ Become(w, "reconcile", "compare", NoRow, Len(hist))
    /\ UNCHANGED pending

---------------------------------------------------------------------------
(* The steps *)

Go(w, step) == pc' = [pc EXCEPT ![w] = step]

Unlocked(w) == IF lock = w THEN NoWorker ELSE lock

Finish(w) ==
    /\ job' = [job EXCEPT ![w] = "none"]
    /\ pc' = [pc EXCEPT ![w] = "idle"]
    /\ loaded' = [loaded EXCEPT ![w] = NoRow]
    /\ answer' = [answer EXCEPT ![w] = 0]

\* set_cancel_at_period_end; asking for what is already so changes nothing.
AskStripe(w) ==
    /\ pc[w] = "ask_stripe"
    /\ StripeNow # NoRemote /\ StripeNow.provider \notin Ended
    /\ LET wanted == [StripeNow EXCEPT !.cancel = (job[w] = "cancel")]
       IN  \/ /\ wanted = StripeNow
              /\ UNCHANGED stripeVars
           \/ /\ wanted # StripeNow
              /\ Len(hist) < MaxVersions
              /\ hist' = Append(hist, wanted)
              /\ pending' = pending + 1
    /\ Go(w, "select")
    /\ UNCHANGED <<dbVars, now, aborts, job, loaded, answer>>

\* _reconcile_one: re-sync only on a difference in tier or status, or when
\* the customer has no row; `answer` is the listed state, dropped here.
Compare(w) ==
    LET listed == hist[answer[w]]
        differs == Snapshot(row) # Snapshot(Project(listed))
    IN  /\ pc[w] = "compare"
        /\ \/ /\ IF row.cust THEN differs ELSE BelongsToThisService(listed)
              /\ Go(w, "select")
              /\ loaded' = [loaded EXCEPT ![w] =
                                IF row.cust THEN row ELSE NoRow]
              /\ answer' = [answer EXCEPT ![w] = 0]
              /\ UNCHANGED job
           \/ /\ IF row.cust THEN ~differs ELSE ~BelongsToThisService(listed)
              /\ Finish(w)
        /\ UNCHANGED <<stripeVars, dbVars, now, aborts>>

\* mark_disputed: its UPDATE takes the row lock, and the object is let go,
\* so the sync that follows loads the row afresh.
MarkDisputed(w) ==
    /\ pc[w] = "mark"
    /\ lock = NoWorker
    /\ lock' = w
    /\ job' = [job EXCEPT ![w] = "disputed"]
    /\ loaded' = [loaded EXCEPT ![w] = NoRow]
    /\ Go(w, "select")
    /\ UNCHANGED <<stripeVars, row, synced, audit, now, aborts, answer>>

\* Mistaken: the row is read without FOR UPDATE.
SelectWithoutLock(w) ==
    /\ pc[w] = "select"
    /\ row.cust
    /\ loaded' = [loaded EXCEPT ![w] =
                      IF loaded[w].present THEN loaded[w] ELSE row]
    /\ Go(w, "fetch")
    /\ UNCHANGED <<stripeVars, dbVars, now, aborts, job, answer>>

\* _find_by_customer(lock=True) on a row that carries the customer id.
SelectForUpdate(w) ==
    /\ pc[w] = "select"
    /\ row.cust
    /\ lock \in {NoWorker, w}
    /\ lock' = w
    /\ loaded' = [loaded EXCEPT ![w] =
                      IF loaded[w].present THEN loaded[w] ELSE row]
    /\ Go(w, "fetch")
    /\ UNCHANGED <<stripeVars, row, synced, audit, now, aborts, job, answer>>

\* Mistaken: a customer without a row is not looked up in Stripe.
SelectGivesUp(w) ==
    /\ pc[w] = "select"
    /\ ~row.cust
    /\ Finish(w)
    /\ UNCHANGED <<stripeVars, dbVars, now, aborts>>

\* ... and when no committed row does: there is nothing to lock.
SelectNothing(w) ==
    /\ pc[w] = "select"
    /\ ~row.cust
    /\ Go(w, "fetch_unlocked")
    /\ UNCHANGED <<stripeVars, dbVars, now, aborts, job, loaded, answer>>

\* fetch_current_subscription, holding the row's lock.
FetchLocked(w) ==
    /\ pc[w] = "fetch"
    /\ answer' = [answer EXCEPT ![w] = Len(hist)]
    /\ Go(w, "write")
    /\ UNCHANGED <<stripeVars, dbVars, now, aborts, job, loaded>>

\* Mistaken: the customer naming a user is enough to claim a subscription.
FetchUnchecked(w) ==
    /\ pc[w] = "fetch_unlocked"
    /\ answer' = [answer EXCEPT ![w] = Len(hist)]
    /\ Go(w, "attach")
    /\ UNCHANGED <<stripeVars, dbVars, now, aborts, job, loaded>>

\* fetch_current_subscription with no row: the answer also decides whether
\* the subscription is ours to record at all.  retrieve_customer follows when
\* it is; whom it names does not change, so the two awaits are one step.
FetchUnlocked(w) ==
    /\ pc[w] = "fetch_unlocked"
    /\ \/ /\ BelongsToThisService(StripeNow) /\ Named /\ ~StripeNow.orphaned
          /\ answer' = [answer EXCEPT ![w] = Len(hist)]
          /\ Go(w, "attach")
          /\ UNCHANGED <<job, loaded>>
       \/ /\ ~BelongsToThisService(StripeNow) \/ ~Named \/ StripeNow.orphaned
          /\ Finish(w)
    /\ UNCHANGED <<stripeVars, dbVars, now, aborts>>

\* get_or_create_subscription: read by user id, without a lock.
Attach(w) ==
    /\ pc[w] = "attach"
    /\ loaded' = [loaded EXCEPT ![w] = row]
    /\ Go(w, "flush_attach")
    /\ UNCHANGED <<stripeVars, dbVars, now, aborts, job, answer>>

\* The flush in the savepoint: an INSERT, an UPDATE of the customer id, or
\* nothing at all when the row read had it already.  An INSERT that meets a
\* row somebody else committed is the lost race.
FlushAttach(w) ==
    /\ pc[w] = "flush_attach"
    /\ \/ /\ loaded[w].cust
          /\ Go(w, "write")
          /\ UNCHANGED lock
       \/ /\ ~loaded[w].cust /\ lock = NoWorker
          /\ loaded[w].present \/ ~row.present
          /\ lock' = w
          /\ Go(w, "write")
       \/ /\ ~loaded[w].present /\ row.present /\ lock = NoWorker
          /\ Go(w, "relock")
          /\ UNCHANGED lock
    /\ UNCHANGED <<stripeVars, row, synced, audit, now, aborts, job, loaded,
                   answer>>

\* The loser takes the winner's row: by customer id and locked, or by user
\* id.  It keeps the answer it fetched before there was a row to lock.
Relock(w) ==
    /\ pc[w] = "relock"
    /\ \/ /\ row.cust
          /\ lock = NoWorker
          /\ lock' = w
       \/ /\ ~row.cust
          /\ UNCHANGED lock
    /\ loaded' = [loaded EXCEPT ![w] = row]
    /\ Go(w, "write")
    /\ UNCHANGED <<stripeVars, row, synced, audit, now, aborts, job, answer>>

\* The row the session wants: Stripe's answer written over the one it holds.
Target(w) ==
    LET held == IF loaded[w].present THEN loaded[w] ELSE SignupRow
        ours == [held EXCEPT !.cust = TRUE,
                     !.disputed = @ \/ job[w] = "disputed"]
    IN  Write(ours, Project(hist[answer[w]]), now)

\* _write, audit.record, flush and the caller's commit.  The audit row is
\* skipped only when nothing moved and no reason was given, and every job
\* gives one.
WriteAndCommit(w) ==
    /\ pc[w] = "write"
    /\ lock \in {NoWorker, w}
    /\ row' = IF loaded[w].present THEN Flush(row, loaded[w], Target(w))
              ELSE Target(w)
    /\ audit' = [from |-> Snapshot(loaded[w]), to |-> Snapshot(Target(w))]
    /\ synced' = answer[w]
    /\ lock' = NoWorker
    /\ Finish(w)
    /\ UNCHANGED <<stripeVars, now, aborts>>

\* extend_grace's flush and commit.  Zero days are no change to flush.
ExtendGrace(w) ==
    /\ pc[w] = "flush_grace"
    /\ lock = NoWorker
    /\ \E days \in Extensions :
          row' = Flush(row, loaded[w],
                       [loaded[w] EXCEPT !.pastDueSince = @ + days])
    /\ Finish(w)
    /\ UNCHANGED <<stripeVars, lock, synced, audit, now, aborts>>

\* A lock timeout, a failed call to Stripe or the end of the process: the
\* transaction rolls back, and Stripe will deliver a webhook's event again.
Abort(w) ==
    /\ pc[w] # "idle"
    /\ aborts < MaxAborts
    /\ aborts' = aborts + 1
    /\ pending' = IF job[w] = "webhook" THEN pending + 1 ELSE pending
    /\ lock' = Unlocked(w)
    /\ Finish(w)
    /\ UNCHANGED <<hist, row, synced, audit, now>>

Start(w) ==
    \/ StartWebhook(w) \/ StartDispute(w) \/ StartResync(w)
    \/ StartExtendGrace(w) \/ StartCancel(w) \/ StartResume(w)
    \/ StartReconcile(w)

Step(w) ==
    \/ AskStripe(w) \/ Compare(w) \/ MarkDisputed(w)
    \/ SelectForUpdate(w) \/ SelectNothing(w)
    \/ FetchLocked(w) \/ FetchUnlocked(w)
    \/ Attach(w) \/ FlushAttach(w) \/ Relock(w)
    \/ WriteAndCommit(w) \/ ExtendGrace(w)

Next ==
    \/ StripeChanges \/ Tick \/ MySubscription
    \/ \E w \in Workers : Start(w) \/ Step(w) \/ Abort(w)

Spec == Init /\ [][Next]_vars

\* A request that was started is finished: Postgres queues lock waiters, and
\* Stripe retries an event until it is answered, whatever else is going on.
Fairness ==
    \A w \in Workers : SF_vars(StartWebhook(w)) /\ SF_vars(Step(w))

FairSpec == Spec /\ Fairness

---------------------------------------------------------------------------
(* Properties *)

\* Every variable keeps its type; in particular the row holds one of the
\* service's own statuses whatever word Stripe used.
TypeOK ==
    /\ hist \in Seq(RemoteOrNone) /\ Len(hist) > 0
    /\ pending \in Nat
    /\ row \in Row
    /\ lock \in Workers \cup {NoWorker}
    /\ synced \in 0..Len(hist)
    /\ audit \in [from : Tier \X SubscriptionStatus,
                  to   : Tier \X SubscriptionStatus]
    /\ now \in Nat /\ aborts \in Nat
    /\ job \in [Workers -> JobNames]
    /\ pc \in [Workers -> Steps]
    /\ loaded \in [Workers -> Row]
    /\ answer \in [Workers -> Nat]

\* A row that is locked before Stripe is asked never goes back to an older
\* answer: the second worker "necessarily sees state at least as new"
\* (sync_subscription_from_stripe).
MonotonicMirror == [][synced' >= synced]_synced

\* No change is lost: once Stripe has had its 200 for every change, the row
\* shows what Stripe says now, however the events were interleaved with
\* each other and with the other writers.
QuiescentMirror ==
    (pending = 0 /\ row.cust /\ \A w \in Workers : job[w] # "webhook")
        => MirrorOf(row) = Project(StripeNow)

\* The grace clock: set on entry to past_due, cleared on the way out.
ClockOnlyInDunning ==
    (row.pastDueSince # NoTime) <=> (row.status = "past_due")

\* ... and it does not restart while the row stays past_due (_write: "the
\* grace window must not restart every time a retry fails").
GraceNotRestarted ==
    [][(row.status = "past_due" /\ row'.status = "past_due"
        /\ row.pastDueSince # NoTime)
           => row'.pastDueSince = row.pastDueSince]_row

\* Every transition of (tier, status) is in the audit trail as it happened.
EveryTransitionAudited ==
    [][Snapshot(row') # Snapshot(row)
           => audit'.from = Snapshot(row) /\ audit'.to = Snapshot(row')]_row

\* A row is attached to the customer only if Stripe showed a subscription on
\* one of our prices, not marked as belonging to a deleted account.
OnlyOursRecorded ==
    row.cust => \E v \in 1..synced : /\ BelongsToThisService(hist[v])
                                     /\ ~hist[v].orphaned

\* The burst of events of a first checkout ends with the subscription
\* recorded, however the creations race, if Stripe does not move meanwhile
\* and its customer names the user.
FirstCheckoutLands ==
    [](Len(hist) = 1) =>
        <>[](BelongsToThisService(StripeNow) /\ Named /\ ~StripeNow.orphaned
                => row.cust /\ MirrorOf(row) = Project(StripeNow))

\* With Stripe quiet and failures over, the row catches up for good.
EventuallyMirrored == <>[](row.cust => MirrorOf(row) = Project(StripeNow))

\* A sync inside the lock refines the promise of module Mirror.
Promise == INSTANCE Mirror WITH shown <- synced, mirror <- MirrorOf(row)
MirrorPromise == Promise!MirrorSpec
=============================================================================
