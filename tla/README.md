# Verification of subscription-service

TLA+ models of the billing service under `app/`, the TLC configurations that
check them on small instances, and TLAPS proofs of the results that matter
most for instances of any size. Paths below are relative to the repository
root; `S.py` stands for `app/services/subscriptions.py`.

## 1. The system

A FastAPI service keeps, in Postgres, a *mirror* of what Stripe says about each
user, answers "what may this user do" from that mirror through a Redis cache,
and meters usage in Redis. Nothing grants access but the mirror, and nothing
writes the mirror's columns but the sync, which "asks Stripe what is true for a
customer and writes that down" (`S.py`).

| part | state it keeps | operations | talks to |
|---|---|---|---|
| catalog, projection (`plans.py`, `billing_provider.py`, `subscriptions.py:132-180,351-402`) | none | the table of tiers; price_id_for, upgrade_tier_for; resolve_tier, belongs_to_this_service, project | – |
| subscription sync (`subscriptions.py:188-327`) | `subscriptions`, `subscription_audit` | lock the row, ask Stripe, write, audit, commit | Stripe, Postgres |
| webhook intake (`routers/webhooks.py`) | `processed_events` | claim, handle, mark, answer | the sync; Stripe's retries |
| operator endpoints (`routers/admin.py`) | `entitlement_grants`, the grace clock | resync, extend_grace, create_grant, revoke_grant | the sync, the cache |
| cancel, resume (`subscriptions.py:526-582`) | none of their own | call Stripe, then sync | Stripe, the sync |
| portal (`subscriptions.py:585-642`) | none | a link into Stripe's pages, for one plan change | Stripe |
| checkout (`subscriptions.py:429-523`) | the row's customer id; Stripe's customers, sessions, idempotency keys | start_checkout | Stripe |
| entitlements (`services/entitlements.py`, `policy.py`) | `ent:v2:<user>`, `ent:v2:stale:<user>`, marks on the session | resolve_entitlements, mark_entitlements_stale, commit_and_invalidate | Postgres, Redis |
| quota (`services/quota.py`, `cache.py`) | Redis counters, `usage_counters` | consume, _mirror | Redis, Postgres |
| rate limit, contact-sales (`ratelimit.py`, `routers/billing.py`) | Redis counters, `sales_inquiries` | enforce over an hour and a day, then the INSERT | Redis, Postgres |
| reconcile (`jobs/reconcile.py`) | marks in Stripe's metadata | a nightly walk over Stripe, the orphan marks, the email | Stripe, the sync, the account directory, SMTP |
| grace expiry (`jobs/expire_grace.py`) | audit rows | a nightly report of closed grace windows | Postgres; the row that sync and operators move |
| the rest | | auth, flags, health, views, web pages, scripts | |

The parts meet in three places: the `subscriptions` row (seven different jobs
write it or run the sync), the database session (which carries the row it
loaded, the row's lock and the invalidation marks to the commit), and the
cached entry (filled by readers, dropped by writers after their commit).

What is hard here is what happens between two awaits: two events of one
customer; a session that read the row before it locked it; a delivery repeated
while the first is still at work; a fill of the cache under way while a write
commits; the grace window, which ends by the passing of time and not by a
write; processes that die between two calls. What makes each part correct:

* sync: never an older answer over a newer one, no change lost, no row for a
  stranger, the grace clock set once, every transition audited;
* intake: a 200 only for work that is done, and every event handled in the end;
* entitlements: a wrong answer is bounded in time, paid access ends with the
  grace window, a database outage locks nobody out;
* quota and rate limit: no window lets through more than its cap, whatever
  fails; a counter never outlives its window for good; a refused hour does not
  use up the day; the durable copy counts what was admitted;
* dunning: a window that closed is put on record, once, and every one is;
* reconcile: rows end up as Stripe has them, every orphan is told about, and
  no mark claims what did not happen;
* checkout: one intent is paid once, nobody who has paid gets a second
  checkout, and the row always names the customer who pays;
* catalog: a dearer tier takes nothing away, the tier a blocked user is pointed
  to helps him, and what is bought is what is granted.

## 2. The modules

| module | models | proved in |
|---|---|---|
| `Plans` | tiers, statuses, Stripe's answer and what the sync writes for it (`project`) | |
| `SubscriptionSync` | the write path of one customer, EXTENDS `Plans` | `SubscriptionSyncProofs` |
| `Mirror` | the abstract promise: what is shown is some state of Stripe's, and it only moves forward | implemented by `SubscriptionSync` |
| `WebhookDelivery` | `processed_events` against Stripe's retries | `WebhookDeliveryProofs` |
| `Catalog` | the table of tiers, the tier to offer, prices, the portal's deep link, EXTENDS `Plans` | `CatalogProofs` |
| `EntitlementCache` | the read path and commit_and_invalidate, EXTENDS `Plans` | `EntitlementCacheProofs` |
| `Metering` | one quota of one user and the rate limit of one caller, EXTENDS `Catalog` | `MeteringProofs` |
| `Dunning` | the grace clock from a failed renewal to its report | `DunningProofs` |
| `Checkout` | start_checkout of one user, Stripe and the user who pays | `CheckoutProofs` |
| `Reconcile` | the nightly walk over all of Stripe's subscriptions, the orphan marks and the email | `ReconcileProofs` |

`MC*` modules hold the values that the `.cfg` files give to constants. An
operator whose comment begins with *Mistaken* is not part of a model: it is a
variant of the definition after it with a plausible bug, kept to show that the
properties notice such a bug.

### SubscriptionSync

State: `hist`, the states Stripe went through, the last one being true now;
`pending`, notifications without a 200; the committed `row`, its `lock`, the
newest `audit` row; `synced`, which state of `hist` the row was last written
from; and per worker the `job`, its next step `pc`, the object its session
`loaded`, and the `answer` Stripe gave.

A worker is one SQLAlchemy session. Its steps are the awaits of the code:
`SelectForUpdate` is `_find_by_customer(lock=True)`, `FetchLocked` and
`FetchUnlocked` the call to Stripe inside and outside the lock,
`SelectNothing` the case of no row, `Attach`, `FlushAttach` and `Relock` the
creation of one, `WriteAndCommit` everything from `_write` to the caller's
`commit_and_invalidate`. Two facts of SQLAlchemy are part of the model because
the code meets them: a `SELECT ... FOR UPDATE` returns the object the session
already holds without refreshing it, and a flush sends only the columns that
differ from what was loaded (`Flush`). The jobs that read the row before they
sync (resync, cancel, resume, reconcile) come in through `Become` with that
object in hand. Sessions fail at any step (`Abort`); `pending` is what makes
Stripe deliver again.

`FetchUnlocked` stands for two awaits, the subscription and then the customer
it belongs to: nothing of ours happens between them, and whom a customer names
does not change. `Named` says whether he names a user; one made by hand in
Stripe may not, and then no row is made. The theorems are about both, the runs
about `Named`.

Left out: billing dates, discount, price and ids (the mirrored columns are
tier, status and cancel_at_period_end, the ones that decide access, and the
grace clock); the choice among a customer's several subscriptions is `Current`
in `Plans`, but a run's Stripe shows one at a time.

### Mirror

`hist`, `shown`, `mirror`: Stripe changes, or the mirror takes the projection of
a state at least as new as the one it shows. `SubscriptionSync!Promise` is the
refinement mapping: `shown <- synced`, `mirror <-` the mirrored columns.

### WebhookDelivery

State: `claim`, the status of each event's row; `applied`, events whose
handling is committed; `accepted`, events with a 200; per worker the event, the
step and the status it `seen` in the claim table. `ReadClaim`, `InsertClaim`,
`TakeClaim` are `_claim`, each ending in its own commit; `Handle` is `_handle`,
`_mark` and the commit that makes both durable; `HandleFails`/`MarkFailed` the
error path; `Die` is a process that stops. `Deliver` is Stripe: at the first
time, again after anything but a 200, and once more after a 200.

`Overlapping` names the events whose *first* deliveries may overlap, because
there the code gives a 200 for work it may lose (section 5). For all others
the claims below are unconditional.

### EntitlementCache

State: the clock; the committed subscription and grants; the entry and the
stale copy with their expiry; per reader what it has read; the writers' marks.
Time runs in ticks, `Second` of them to a second, because TTLs are whole
seconds and the grace boundary is not. Reader: `CacheMiss`, `ReadSub`,
`ReadGrants` (two statements, as in `_resolve_from_db`), `SetEntry`,
`SetStale`; `DatabaseFails`, `ServeStale`, `Refuse` when Postgres is down.
Grants are active or not as of the time before their statement, as in
`_active_grant_tier`. Writer: `BeginWrite` marks, or does not: a sync that
leaves the fingerprint as it was registers nobody, and then `CommitUnmarked`
changes nothing of the answer and drops nothing. Otherwise `Commit` takes the
mark and commits one of `Synced`, `Extended`, `Granted`, `Revoked`,
`LapseReported`, and `Invalidate` deletes; `Rollback` and `RecordError` are the
webhook's error path. An extension may be of any number of days, negative or
zero. The
fields of an entry beyond the tier are there for the properties only.

### Catalog

No state: the table of `plans.py` and the lookups on it. `UpgradeTierFor` and
`MinimumTierForModel` name the tier in a 402 or 403; `PriceCatalog` and
`PriceIdFor` go from the environment's price ids to offers and back;
`PlanChangeFlow` is what the portal is asked to confirm. There is nothing to
explore, so it is proved about (section 4) and used by `Metering`, whose caps
must be ordered as the table's are.

### Metering

State: the Redis keys by window (`Never` is a key without TTL); the usage rows;
what was admitted; per worker the request, the windows it has still to be
counted in and what INCR said. `Incr`, `CheckTTL`, `Expire` are the three calls
of `RedisBackend.incr`; `Decide` is increment-then-check; `Update` and `Insert`
the two statements of `_mirror`; `StoreInquiry` the handler of contact-sales;
`FailOpen`, `MirrorFails` and `Die` what goes wrong. `Consume` counts against
one daily window with the cap of the tier the caller has *then* (`Callers`);
`ContactSales` against the hour and, if that lets it through, the day. `Floor`
stands for the 60 s. `within` counts, per key and cap, the requests let through
with that cap or a lower one, so that an upgrade in mid-day is part of the
claim. A key can go before its window has (in the last second, because of
`int()`, or under a request held up past the end): what is counted that late is
marked and left out of the claim.

### Dunning

State: the row (past due or not, tier above free or not, its clock); the
reports, each with `created`, the time its transaction *began*, and the clock it
speaks of; the run and the operator's request under way, each with what it read.
`Sync` starts and stops the clock as `_write` does; `ExtendReads` and
`ExtendWrites` are the two halves of extend_grace, which takes no lock between
them; `Select`, `Check`, `Commit` the job, `JobFails` its rollback.
`days` of extend_grace is any integer (`admin.py:116` sets no bound), so the
clock may also be moved back, or not at all, which sends no UPDATE. `Patience`
bounds how long a run takes, a SELECT and one commit; the only assumption on it
is that a run is shorter than a grace window. A request may take any time.
`overtaken` names the clocks that an operator set to before a report that was
there, or to before the beginning of a run under way, which may make one: for
these the job's test cannot work, whether the window was extended after it had
closed or cut short while it was open (section 5). Two runs that
overlap are not modelled, and the several customers of a run are independent of
each other but for the common commit.

### Checkout

State: the row as far as checkout reads it, its lock; Stripe's customers,
sessions, and what it answered under `customer:<user>`; the hosted checkouts
the user was `shown`, `paid`, and which are `live`. One action per await of
start_checkout (`Begin`, `InsertRow`, `AskStripe`, `EnsureCustomer`, `Attach`,
`CreateSession`, `Commit`). Days pass, since the idempotency key carries the
date. `Webhook` is the sync's effect on the row, at any time after the
payment. A second request with a key that Stripe has seen gets the first one's session
if customer and parameters agree, and an error otherwise (`CreateSession`). A
request that is under way in the very second in which the customer's
idempotency key expires is left out.

### Reconcile

State: Stripe's subscriptions (`running`, and the metadata marks `orphaned`,
`notified`), the `accounts` Supabase has and whether it can be asked
(`canTell`), each customer's `row`, and the `run`: its page, its item, its
step, and its report. `ListPage` takes a snapshot of a page, as the code does.
`Take`, `AskDirectory`, `MarkOrphan`, `ClearMarks`, `Lock` and `Write` are the
awaits of `_reconcile_one` and of the sync it calls; `WalkEnds`, `Send`,
`MarkNotified` those of `_notify`. `FailOne` is the `except` of the loop,
`SendFails` a send that raises, whether or not the message went out, and `Die`
the end of the process at any point. Meanwhile subscriptions end with their
webhooks lost, webhooks sync, and accounts are deleted and restored. `Foreign`
are another application's customers, `Nameless` those of ours on whom no user id
is found: not in the row, since there is none, and neither on the subscription
nor on the customer, which `_user_id_of` asks Stripe for. The directory is not
asked about a nameless one, so he is never an orphan, and the sync makes no row
for him. What `_user_id_of` returns does not change during a run, so its call is
one step with the directory's. `mails`
and `touched` are there for the properties only. A subscription runs and grants
access, or has ended: the statuses between are `SubscriptionSync`'s. New
subscriptions do not appear during the runs, and two runs do not overlap.

## 3. The runs

Bounds: the model's counters (`Max...`) stop the environment, so every run is
finite; where nothing more can happen the system rests, and for that reason
alone the configurations say `CHECK_DEADLOCK FALSE`. `Reconcile`'s and
`WebhookDelivery`'s do not: the job runs for ever, and Stripe may always deliver
once more.

| run | instance | what it shows |
|---|---|---|
| `SyncWebhooks` | 2 workers, webhook and dispute jobs, 3 states of Stripe out of active, past due, canceled; 1 failing session | the grace clock (`ClockOnlyInDunning`, `GraceNotRestarted`), the trail (`EveryTransitionAudited`), the refinement of `Mirror` (`MirrorPromise`), `EventuallyMirrored` |
| `SyncAllActors` | the same with all seven jobs, extend_grace moving the clock by −1 or 1 | types; no change lost (`QuiescentMirror`) and no sync going back (`MonotonicMirror`), even with rows read before the lock |
| `SyncFirstCheckout` | no row, two events in flight, six states of Stripe including a foreign price and an orphaned account | only our subscriptions are recorded (`OnlyOursRecorded`); the first checkout lands (`FirstCheckoutLands`) |
| `WebhookDelivery` | 3 workers, 2 events, one of them with overlapping first deliveries, 2 failures | a 200 stands for committed work (`AcceptedMeansApplied`), or for work in somebody's hands (`AcceptedMeansOwned`), and so does the mark (`ProcessedMeansApplied`); the rest is handled in the end (`EventuallyHandled`) |
| `EntitlementCache` | 2 readers, 1 writer, 2 commits, TTL 2 ticks, grace 3, moved by −1 or 1, clock to 5, 1 failure | `StalenessBounded`, `NoCopyFromBefore`, `GraceCapped`, `MarksDrained`, `NoLockout` |
| `Metering` | 2 workers, 3 requests, callers with cap 1 and with none, hour and day capped at 1, hour 3 ticks, day 6, seconds of 2, clock over the end of a day, 1 failure | `QuotaHolds`, `CounterExpires`, `DaySpared`, `MirrorCounts` |
| `Dunning` | grace 3, moved by −3, 0, 1, 3 or 4, a run up to 1 tick, clock to 9, 3 changes of Stripe, 2 extensions, 1 failing run | `ReportedOnce`, `LapseReported`, `EventuallyReported` |
| `Reconcile` | 2 subscriptions of one customer and 1 of a nameless one, pages of 2, any number of runs, 2 changes outside, 1 failure or death | `DriftRepaired`, `NotifiedMeansTold`, `ToldOnce`, `ToldInTheEnd` |
| `Checkout` | 2 requests at once, 4 in all, 2 sets of parameters, 3 days, 2 failures | `IntentPaidOnce`, `SingleCustomer`, `NoCheckoutWhilePaid`, `RepeatAnswered` |

The three runs `Viol...` are those of section 5.

Why these bounds are enough to meet the hazards: two workers are what each of
the races needs, and a third adds only a repetition; three states of Stripe let
a change be overtaken by a change that undoes it; two ticks to a second let a
boundary fall inside a second; the clock passes the grace boundary, the TTL and
both of a counter's ends; three days let an idempotency key die and its
successor be used; three windows of grace, and moves of the clock shorter than,
equal to and longer than one and back by one, let a cycle end, begin again, be
revived after its report and be cut short behind an older one; pages of two make
the walk take two snapshots, and two changes delete and restore an account
between runs. The results that are also proved (section 4) hold for every value
of the constants. A customer of another application, in `Reconcile`, and one who
names nobody, in `SubscriptionSync`, are left to them: the theorems cover both,
and each would add to runs that are long already.

Fairness. `SubscriptionSync!Fairness` asks that a session that can take its
next step does, and that Stripe goes on delivering what has had no 200; the
lock is handed over by Postgres' queue and every call has a time-out, so a
worker is never stuck for good. `WebhookDelivery!Fairness` asks the same, and
that of Stripe's retries of an unaccepted event some delivery gets through:
Stripe retries for days and failures are bounded. `Reconcile!Fairness` asks
that a run goes on unless it dies, and that the scheduled run, with email
configured, starts again and again between the ones made by hand: it is a
nightly job. `Dunning!Fairness` asks the same of the grace job, whose failures
are bounded. The other modules state no liveness. No fairness is asked of what may fail, of the user, or of operators.

## 4. What is proved

`SubscriptionSyncProofs` (for all workers, jobs, states of Stripe and bounds,
unless said otherwise):

* `TypeCorrect` (`TypeOK`).
* `NeverOlder` (`MonotonicMirror`): for a customer with a row. Beyond the types
  the inductive invariant (`LockInv`) says that a worker between its locking
  SELECT and its commit holds the lock, and that the answer it then has is at
  least as new as what the row was written from. Neither is enough alone:
  without the first another worker could write in between, without the second
  the write could go back.
* `NoChangeLost` (`QuiescentMirror`): for a customer with a row, whatever jobs
  run and whatever rows they loaded before the lock. `LossInv` says that an event
  is owed, or is being handled by a webhook that has yet to ask Stripe or has the
  newest answer (`Owed`), or else the row is right and nobody who is about to
  write has an older answer (`Settled`); and that what a webhook holds is the row
  (`WebhookInv`). A stale copy sends only some of the columns, which is harmless:
  if the row is right they all are, and if it is not an event is owed.
* `ImplementsMirror` (`MirrorPromise`) and `TrailIsComplete`
  (`EveryTransitionAudited`): for a customer with a row and the jobs that load it
  under the lock. They need that the row shows the projection of `hist[synced]`
  and that what a worker loaded under the lock is still the row (`FreshInv`);
  with the other jobs neither property holds (section 5).
* `ClockRunsInDunning` (`ClockOnlyInDunning`) and `RetryKeepsClock`
  (`GraceNotRestarted`): for a customer with a row written by webhooks and
  disputes alone. Operators' jobs break both (section 5), so the restriction
  is the code's; and so is the other, here and for `TrailIsComplete`: for a
  customer who starts without a row TLC finds all three violated by webhooks
  and disputes alone: two first events that find nothing to lock both load the
  sign-up row to attach the customer to it, and the second, whose flush waits
  for the first's commit, still writes from that copy.
* `NoStrangerRecorded` (`OnlyOursRecorded`): for a customer who starts without a
  row, whatever jobs run. `RecordInv` says that whoever is about to write has
  either seen a subscription of ours or holds the lock of a row that records
  one, with an answer no older.
* Four facts that need no assumption at all, neither on the jobs nor on whether
  there is a row, and so say what the races of section 5 cannot do:
  `ColumnsAreStripes` (`ColumnsTrueOnce`): each mirrored column of a customer's
  row has been what Stripe said of it, though the row as a whole may mix two
  answers; `NoTierUnbought` (`PaidTierWasBought`): so a row is on a paid tier
  only if Stripe has shown a subscription to that tier, in good standing or in
  dunning; `DisputesStay` (`DisputeKept`): a dispute on record is not lost to a
  sync that loaded the row before it; `NoLockLeaked` (`LockHolderBusy`): the
  row's lock is held only between taking it and the holder's commit. Behind the
  first three is `HeardInv`, which says the same of every row object that a
  session has loaded, that a row without a customer is as
  `get_or_create_subscription` inserts it, and that only the session that holds
  the lock of a missing row creates it; behind the fourth `BusyInv`, that a
  dispute is marked only where there is a row.
* `FirstCheckoutIsRecorded` (`FirstCheckoutRecorded`, for `Burst > 0`): while
  Stripe has shown one state, a subscription of ours whose customer is `Named`,
  the row is there and shows
  it as soon as no event is owed or being handled. This is the safety core of
  `FirstCheckoutLands`: fairness only adds that the quiet moment comes.
  `FirstInv`: until the row has its customer an event is owed or a webhook is at
  a step from which it either attaches it or raises, which owes the event again.
* `RedeliveryChangesNothing`: writing a state of Stripe's twice, at any two
  times, leaves what writing it once left, the grace clock included.

`WebhookDeliveryProofs` (for all workers, events, failures):

* `TypeCorrect` (`TypeOK`), `NothingAcceptedUndone` (`AcceptedMeansApplied`),
  `MarkIsTruthful` (`ProcessedMeansApplied`), `AcceptedIsOwned`
  (`AcceptedMeansOwned`). The invariant is a conjunction: a worker has an event
  exactly when it is busy; a worker past the claim table has a claim row
  behind it; an answer of 200 is only under way for what is applied or what
  may overlap; and an accepted event that is not applied is in the hands of a
  worker unless something failed.

`EntitlementCacheProofs` (for all readers, writers, tick lengths, TTLs, grace
windows and extensions):

* `TypeOK`, `StalenessBounded`, `NoCopyFromBefore`, `GraceCapped`,
  `MarksDrained` and `NoLockout`. The invariant has a part for each thing a
  reader or an entry can be wrong about: `AgeInv` (nothing is older than its
  clock says), `GraceInv` (a lifetime ends with the window), `VersionInv` and
  `TruthInv` (what was read was true of the committed state it is marked with),
  `MarksInv` and `StaleInv`. `TruthInv` is the heart: what a reader read after
  the last change of the answer, in one statement or in two, is the answer still,
  and the clock cannot make it wrong without counting as such a change.

`MeteringProofs` (for all workers, callers, caps, windows and failures):

* `TypeCorrect` (`TypeOK`), where every queue of windows must be one the code
  can build, each on its own day.
* `NeverAboveTheCap` (`QuotaHolds`). `Held`: for each key and cap, the requests
  let through with that cap or less, and those that INCR has told so and are
  still on their way, are no more than the cap nor than the counter, while the
  key can still be relied on. `Reaching` says from when on that is.
* `CounterCannotStay` (`CounterExpires`), `RefusedHoursAreFree` (`DaySpared`:
  what the day has counted and what is about to be counted in it have passed
  the hour) and `MirrorIsExact` (`MirrorCounts`: `admitted` is the usage row
  plus those at the mirror).
* `MirrorNeverAhead` (`NeverOvercounted`): whatever fails and whoever dies, the
  durable copy of a day is not above what was admitted on it. Both come from
  `CopyInv`: what the copy will be short of for good is never negative, and only
  a failing mirror or a dying process adds to it, by one (`ShortStep`).

`DunningProofs` (for all grace windows, any integers as numbers of days, any
number of runs and requests, under `Patience < Grace`):

* `TypeCorrect` (`TypeOK`), `OnePerWindow` (`ReportedOnce`), `NoLapseMissed`
  (`LapseReported`). `UnderWayInv` bounds the age of what is under way, and says
  that a run about to commit found no report after its clock; `ReportInv`, that
  a report is later than its clock and its window closed. `AccountInv` is the
  heart: the row's clock, and the one a run holds, is unset, on record,
  overtaken, or not before any report, the one about to be made included. Nothing
  is asked of the clock a request holds: what it writes is judged when it is
  written.
* `NotBeforeTheTime` (`NoEarlyReport`): a report is dated after the clock of its
  window, and at most a run's length before the window's end; with
  `ReportsApart`, that no recorded window had begun when an earlier report was
  dated, it follows that two reports are a grace window less a run apart:
  `NoReportStorm` (`ReportsSpaced`).

`CheckoutProofs` (for all sets of parameters, days, requests and failures):

* `TypeCorrect` (`TypeOK`), `OneIntentOnePayment` (`IntentPaidOnce`),
  `OneCustomer` (`SingleCustomer`), `PaidMeansRefused` (`NoCheckoutWhilePaid`).
  One key has one session (`KeysUnique`), whoever holds
  a customer id holds the row's, or the one under the user's key that the row is
  about to get (`Ours`), and what a request knew to be live when it began is
  over before it opens a checkout (`Unpaid`).
* `RepeatsAnsweredAlike` (`RepeatAnswered`): before any request has failed Stripe
  refuses none for its key, and a repeat of a checkout the user was shown that
  day gets that one, whatever failed. The key holds the parameters but not the
  customer's id, with which Stripe compares as well, so this takes that the id
  is the same wherever the two requests found it. `Calm`: until a request fails
  Stripe has one customer of the user at most, and while the row does not name it
  it is under the user's key, in the hands of a request in progress. A checkout
  that was shown is of the row's customer, and from then on everybody's.
* `EveryCheckoutOurs` (`ShownOurs`): not only what was paid, every checkout whose
  URL was given out is for the row's customer. `CustomerStays`
  (`CustomerForGood`): once the row names a customer no step renames it or
  creates another. `NoLockLeaked` (`LockHolderBusy`): the lock is in the hands of
  a request that has written and not committed.

`ReconcileProofs` (for all subscriptions, customers, page sizes, failures):

* `TypeCorrect` (`TypeOK`), `MarkMeansTold` (`NotifiedMeansTold`),
  `ToldAgainOnlyAfterFailure` (`ToldOnce`), `RowsRepaired` (`DriftRepaired`).
* `NoOrphanPassedOver` (`EveryOrphanReported`), the safety core of
  `ToldInTheEnd`: a run that reached its end and could ask the directory has
  marked in Stripe every subscription of a deleted account that nothing touched,
  and has told of it or lists it as not told of. `OrphansInv` follows each of
  them through the walk: what a page or the item in hand says of its marks is
  true, and once walked past it is marked and in the run's list.
* `OneLockAtATime` (`OneRowLocked`): a run holds no lock but that of the customer
  it is about to write.

`CatalogProofs` (for the table as it is, and for any price ids):

* `TableIsMonotone`, `GrantTakesNothingAway`, `UpgradeHelps`,
  `RequiredTierHasModel`: what a dearer tier allows, and what a blocked user is
  told. `BoughtIsGranted`, `OnlyOffersArePriced`, `ConfirmedIsNamed`: a price
  charged, or confirmed in the portal, is read back as the offer it was chosen
  for, also when two variables of the environment name one price.

The assumptions are those of the modules (`ASSUME ...Assumption`): what stands
for nobody or nothing is not a worker or an event, bounds are natural numbers,
windows fit into each other. TLC evaluates them in every run.

Only model-checked: liveness (`EventuallyMirrored`, `FirstCheckoutLands`,
`EventuallyHandled`, `ToldInTheEnd`, `EventuallyReported`), since the prover
does not handle fairness; that what they promise is true once the system is
quiet is proved of the first two (`NoChangeLost`, `FirstCheckoutIsRecorded`), of
the fourth at the end of a run (`NoOrphanPassedOver`) and of the fifth likewise
(`NoLapseMissed`). Every other property of a run is a theorem, for some
under assumptions on `Jobs` or `Onboarded` that the run's configuration meets.

## 5. Where the code and its words part

Three runs end in a violation on purpose, each of one sentence of the
repository:

* `ViolResyncGrace`: resync (and cancel, resume, reconcile) read the row before
  they lock it, and decide on the copy; the grace clock of a customer whom a
  webhook entered into dunning meanwhile is stamped anew.
* `ViolDuplicateAnswered`: the loser of the race to insert a claim is answered
  200, "already fully processed", while the winner may still fail
  (`webhooks.py:149`).
* `ViolSecondLapse`: an extension of a window that had closed and was reported
  moves the clock forward, but to before that report; `_already_reported` takes
  the old report for one of the new window, and the second lapse is never
  reported. A negative number of days, which `admin.py:116` accepts, does the same
  to an open window of a later cycle: reported at 4, back in dunning at 5, moved
  by −3 its clock reads 2, and the report of 4 stands for its lapse too.
  `LapseReported` states what does hold, `EveryLapseReported` this.

Observations of the same kind that no run of their own records:

* with no row to lock, `subscriptions.py:227` asks Stripe first, and the slower of two
  events writes its older answer over the newer one, where the docstring says
  the second worker "necessarily sees state at least as new"; the next event or
  the nightly reconcile repairs it. `MonotonicMirror` is stated for a customer
  with a row for that reason;
* the boundary can pass between `grace_expired` and `_ttl_for`; "already past
  it; the answer is stable again" (`entitlements.py:275`) then caches paid access
  for a full TTL. `GraceCapped` speaks of a TTL taken inside the window for that
  reason, and `StalenessBounded` says how long the other may last;
* a claim marked processed can be marked failed again, by a slower delivery of
  the same event whose handling raised (`webhooks.py`, `_mark("failed")` looks at
  nothing): `processed` is not final, and the event is then handled once more,
  which `RedeliveryChangesNothing` makes harmless;
* two identical checkouts on either side of midnight UTC can both be paid
  (`IntentPaidOnce` speaks of one day for that reason); `models.py:66` credits
  the uniqueness of `user_id` with making that impossible, which plays no part
  in it;
* reconcile compares each of a customer's subscriptions with the row, so an
  ended one next to a current one is counted as drift, re-synced and audited
  every night; the row it leaves is right (`DriftRepaired`);
* a webhook that finds no row and a foreign or absent subscription returns at
  once, though another worker with an older answer is about to create the row;
  both are answered and the row stays behind until the next event;
* with all jobs in play, a cancel can write a row that mixes two answers, and
  an audit row can name a `from` the stored row had already left, both for the
  reason of `ViolResyncGrace`;
* extend_grace (`admin.py:121`) takes no lock: racing a recovery, it leaves a
  grace clock on an active row (`ClockOnlyInDunning` is refuted when
  `extend_grace` is among `Jobs`), and the next failed renewal inherits it;
* every event that finds nothing changed adds an audit row (`subscriptions.py:308` skips it
  only for the default reason, which no caller uses), where the docstring
  promises "only one audit entry";
* commit_and_invalidate "leaves no window at all" (`entitlements.py:116`) for a
  reader that begins after the delete; a fill under way across the commit still
  lands after it. `NoCopyFromBefore` states exactly what is left, and
  `StalenessBounded` for how long;
* `int()` in `quota.py:145` lets a counter expire up to a second before its
  window, which then starts from zero: `QuotaHolds` leaves requests of that
  second out;
* the digest in the checkout key leaves out the customer id: a first checkout
  fails on one day, the next, on the day after, opens its session for the
  customer of the first and fails as well, then the key `customer:<user>`
  expires; whoever asks again that day creates another customer, and Stripe
  refuses the session key with it, until midnight. "Identical request -> same
  key" (`subscriptions.py:508`) is then no help; `RepeatAnswered`
  speaks of requests before any failed, and of repeats of a checkout that was
  shown, for that reason. The key `customer:<user>` likewise leaves out the email;
* two first checkouts of a user at once: the second INSERT fails the whole
  request (no savepoint in get_or_create_subscription, where the sync has one);
* a lock is waited for 5 s and one call to Stripe may take 10 s, so a slow
  Stripe fails the second webhook of a pair into Stripe's retry;
* a refused request stays counted, so the counter of a user at his cap goes on
  rising with each retry (`quota.py:132` has it reading "one above"); after an
  upgrade within the day he may be over the new cap without a request admitted;
* a price that Stripe does not return in time is shown as null on the pricing
  page, and that answer is cached for five minutes (`routers/billing.py:95,106`);
* the deep link takes the subscription's id from the row and its line from
  Stripe's current subscription (`subscriptions.py:630-640`): with the row behind, they are
  of two subscriptions, and Stripe refuses what was meant to fall back.

## 6. Not modelled

* Authentication, flags, health, metrics, views, the web application, migrations
  and scripts keep no state that can go wrong in the ways above; the time-outs
  that the configuration sets are the failures that may happen at any call.
* `peek`, `states` and the operators' lists only read. No quota of the catalog
  uses the billing-period window (`quota.py:52`), so the change of a period under
  a request does not happen yet.
* Who a caller of contact-sales is (`client_ip`), signature checks, the shapes of
  Stripe's payloads over its API versions, the wording of emails and errors, and
  amounts are data no property here depends on.
* The copy served when the database is down is up to a day old, and so is the
  access it grants: that is by design, and `NoLockout` is what it is for.
* Liveness, ENABLED and induction over data are out of the prover's reach.

## 7. Plan

Done: every part of section 1 but "the rest", each with its properties and,
liveness apart, proofs. What is left, in order of use:

1. Two overlapping runs of a nightly job, for `Dunning` and `Reconcile`.
2. The billing-period window of `Metering` against `EntitlementCache`, when the
   catalog has a quota that uses it.
3. The cached pricing page, and feature flags with their default.
4. The first checkout when Stripe moves meanwhile: how far behind the row can
   be, and until when.
