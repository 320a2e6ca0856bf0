----------------------- MODULE SubscriptionSyncProofs -----------------------
(***************************************************************************)
(* Proofs about SubscriptionSync, for every set of workers, of jobs and of *)
(* Stripe states, and for every value of the bounds.                       *)
(***************************************************************************)
EXTENDS SubscriptionSync, TLAPS

USE WorkersAssumption, JobsAssumption, RemoteAssumption, FlagAssumption,
    BoundsAssumption

---------------------------------------------------------------------------
(* The operators the model is built from *)

\* Projection stays in the service's own vocabulary.
LEMMA ProjectType == \A r \in RemoteOrNone : Project(r) \in Mirrored
  <1> SUFFICES ASSUME NEW r \in RemoteOrNone PROVE Project(r) \in Mirrored
    OBVIOUS
  <1>1. StatusOf(r.provider) \in SubscriptionStatus
    BY DEF RemoteOrNone, Remote, NoRemote, StatusOf, SubscriptionStatus,
           ProviderStatus
  <1>2. ResolveTier(r) \in Tier \cup {NoTier}
    BY DEF RemoteOrNone, Remote, NoRemote, ResolveTier
  <1>3. r.cancel \in BOOLEAN
    <2>1. CASE r \in Remote
      BY <2>1 DEF Remote
    <2>2. CASE r = NoRemote
      BY <2>2 DEF NoRemote
    <2> QED
      BY <2>1, <2>2 DEF RemoteOrNone
  <1> QED
    BY <1>1, <1>2, <1>3 DEF Project, NoSubscription, Mirrored, Tier,
                      SubscriptionStatus

LEMMA WriteType ==
    ASSUME NEW r \in Row, NEW state \in Mirrored, NEW t \in Nat
    PROVE  Write(r, state, t) \in Row
  <1> DEFINE clock == Write(r, state, t).pastDueSince
  <1>1. Write(r, state, t) =
           [r EXCEPT !.tier = state.tier, !.status = state.status,
                     !.cancel = state.cancel, !.pastDueSince = clock]
    BY DEF Write, Row
  <1>2. clock \in Time
    BY DEF Write, Row, Time
  <1>3. /\ state.tier \in Tier /\ state.status \in SubscriptionStatus
        /\ state.cancel \in BOOLEAN
    BY DEF Mirrored
  <1> HIDE DEF clock
  <1> QED
    BY <1>1, <1>2, <1>3 DEF Row

\* After a write the mirrored columns are the state written.
LEMMA WriteMirrors ==
    ASSUME NEW r \in Row, NEW state \in Mirrored, NEW t \in Nat
    PROVE  /\ MirrorOf(Write(r, state, t)) = state
           /\ Write(r, state, t).cust = r.cust
           /\ Write(r, state, t).present = r.present
  BY DEF Write, Row, Mirrored, MirrorOf

LEMMA FlushType ==
    ASSUME NEW s \in Row, NEW b \in Row, NEW a \in Row
    PROVE  Flush(s, b, a) \in Row
  BY DEF Flush, Row

\* A session that holds the row as it is stored overwrites all of it.
LEMMA FlushFresh ==
    ASSUME NEW s \in Row, NEW a \in Row, a.present
    PROVE  Flush(s, s, a) = a
  BY DEF Flush, Row

LEMMA RowConstants == NoRow \in Row /\ SignupRow \in Row
  BY DEF NoRow, SignupRow, Row, Tier, SubscriptionStatus, Time

---------------------------------------------------------------------------
(* Type correctness *)

\* A worker that relies on an answer of Stripe's has one, and one that is to
\* move the grace clock has read it.
AnswerOK ==
    \A w \in Workers :
        /\ pc[w] \in {"write", "compare", "attach", "flush_attach", "relock"}
              => answer[w] \in 1..Len(hist)
        /\ pc[w] = "flush_grace" => loaded[w].pastDueSince # NoTime

LEMMA StripeNowType == TypeOK => StripeNow \in RemoteOrNone
  BY DEF TypeOK, StripeNow

\* The row a session is about to write.
LEMMA TargetType ==
    ASSUME TypeOK, AnswerOK, NEW w \in Workers, pc[w] = "write"
    PROVE  /\ Target(w) \in Row
           /\ Target(w).cust /\ Target(w).present
           /\ MirrorOf(Target(w)) = Project(hist[answer[w]])
           /\ Project(hist[answer[w]]) \in Mirrored
  <1> DEFINE held == IF loaded[w].present THEN loaded[w] ELSE SignupRow
             ours == [held EXCEPT !.cust = TRUE,
                          !.disputed = @ \/ job[w] = "disputed"]
  <1>1. answer[w] \in 1..Len(hist) /\ hist[answer[w]] \in RemoteOrNone
    BY DEF TypeOK, AnswerOK
  <1>2. Project(hist[answer[w]]) \in Mirrored
    BY <1>1, ProjectType
  <1>3. held \in Row /\ held.present
    <2>1. loaded[w] \in Row
      BY DEF TypeOK
    <2>2. SignupRow.present
      BY DEF SignupRow, NoRow
    <2> QED
      BY <2>1, <2>2, RowConstants
  <1>4. ours \in Row /\ ours.cust /\ ours.present
    BY <1>3 DEF Row
  <1>5. Target(w) = Write(ours, Project(hist[answer[w]]), now)
    BY DEF Target
  <1>6. now \in Nat
    BY DEF TypeOK
  <1> DEFINE said == Project(hist[answer[w]])
             written == Write(ours, said, now)
  <1>7. Target(w) \in Row
    BY <1>2, <1>4, <1>5, <1>6, WriteType
  <1>8. /\ MirrorOf(written) = said
        /\ written.cust = ours.cust
        /\ written.present = ours.present
    <2> HIDE DEF ours, said
    <2> QED
      BY <1>2, <1>4, <1>6, WriteMirrors DEF said
  <1> QED
    BY <1>2, <1>4, <1>5, <1>7, <1>8

LEMMA SnapshotType ==
    ASSUME NEW r \in Row PROVE Snapshot(r) \in Tier \X SubscriptionStatus
  BY DEF Snapshot, Row

TypeInv == TypeOK /\ AnswerOK

LEMMA TypeInit == Init => TypeInv
  <1> SUFFICES ASSUME Init PROVE TypeInv
    OBVIOUS
  <1>1. PICK r \in RemoteStates : hist = <<r>>
    BY DEF Init
  <1>2. hist \in Seq(RemoteOrNone) /\ Len(hist) = 1 /\ hist[1] \in RemoteOrNone
    BY <1>1
  <1>3. [SignupRow EXCEPT !.cust = TRUE] \in Row
    BY RowConstants DEF Row
  <1>4. row \in Row
    BY <1>2, <1>3, RowConstants, ProjectType, WriteType DEF Init
  <1>5. audit \in [from : Tier \X SubscriptionStatus,
                   to   : Tier \X SubscriptionStatus]
    BY <1>4, SnapshotType DEF Init
  <1> QED
    BY <1>2, <1>4, <1>5, RowConstants
       DEF Init, TypeInv, TypeOK, AnswerOK, JobNames, Steps

\* Starting a job keeps the types.
LEMMA BecomeType ==
    ASSUME TypeInv, NEW w \in Workers, NEW j \in AllJobs, NEW step \in Steps,
           NEW object \in Row, NEW version \in Nat,
           Become(w, j, step, object, version), pending' \in Nat,
           step = "compare" => version \in 1..Len(hist),
           step = "flush_grace" => object.pastDueSince # NoTime,
           step \notin {"write", "attach", "flush_attach", "relock"}
    PROVE  TypeInv'
  BY DEF TypeInv, TypeOK, AnswerOK, Become, dbVars, JobNames

\* So does ending one, whatever it did to the database.
LEMMA FinishType ==
    ASSUME TypeInv, NEW w \in Workers, Finish(w), UNCHANGED hist,
           pending' \in Nat, row' \in Row, lock' \in Workers \cup {NoWorker},
           synced' \in 0..Len(hist), aborts' \in Nat, UNCHANGED now,
           audit' \in [from : Tier \X SubscriptionStatus,
                       to   : Tier \X SubscriptionStatus]
    PROVE  TypeInv'
  BY RowConstants DEF TypeInv, TypeOK, AnswerOK, Finish, JobNames, Steps

LEMMA TypeStart ==
    ASSUME TypeInv, NEW w \in Workers, Start(w) PROVE TypeInv'
  <1> USE DEF TypeInv, Steps, AllJobs
  <1>1. row \in Row /\ pending \in Nat
    BY DEF TypeOK
  <1>2. CASE StartWebhook(w)
    BY <1>2, <1>1, BecomeType, RowConstants DEF StartWebhook
  <1>3. CASE StartDispute(w)
    <2>1. CASE row.cust
      BY <2>1, <1>3, <1>1, BecomeType, RowConstants DEF StartDispute
    <2>2. CASE ~row.cust
      BY <2>2, <1>3, <1>1, BecomeType, RowConstants DEF StartDispute
    <2> QED
      BY <2>1, <2>2
  <1>4. CASE StartResync(w)
    BY <1>4, <1>1, BecomeType DEF StartResync
  <1>5. CASE StartExtendGrace(w)
    BY <1>5, <1>1, BecomeType DEF StartExtendGrace
  <1>6. CASE StartCancel(w)
    BY <1>6, <1>1, BecomeType DEF StartCancel
  <1>7. CASE StartResume(w)
    BY <1>7, <1>1, BecomeType DEF StartResume
  <1>8. CASE StartReconcile(w)
    <2>1. Len(hist) \in Nat /\ Len(hist) \in 1..Len(hist)
      BY DEF TypeOK
    <2> QED
      BY <2>1, <1>8, <1>1, BecomeType, RowConstants DEF StartReconcile
  <1> QED
    BY <1>2, <1>3, <1>4, <1>5, <1>6, <1>7, <1>8 DEF Start

LEMMA TypeStep ==
    ASSUME TypeInv, NEW w \in Workers, Step(w) PROVE TypeInv'
  <1> USE DEF TypeInv
  <1>1. CASE AskStripe(w)
    <2> DEFINE wanted == [StripeNow EXCEPT !.cancel = (job[w] = "cancel")]
    <2>1. wanted \in RemoteOrNone
      BY <1>1, StripeNowType DEF AskStripe, RemoteOrNone, Remote
    <2>2. CASE UNCHANGED stripeVars
      BY <2>2, <1>1
         DEF AskStripe, stripeVars, dbVars, TypeOK, AnswerOK, Go, Steps
    <2>3. CASE hist' = Append(hist, wanted) /\ pending' = pending + 1
      <3>1. /\ hist' \in Seq(RemoteOrNone) /\ Len(hist') = Len(hist) + 1
            /\ Len(hist) \in Nat
        BY <2>1, <2>3 DEF TypeOK
      <3>2. Go(w, "select") /\ UNCHANGED <<dbVars, now, aborts, job, loaded, answer>>
        BY <1>1 DEF AskStripe
      <3>3. pc' \in [Workers -> Steps]
        BY <3>2 DEF TypeOK, Go, Steps
      <3>4. TypeOK'
        BY <3>1, <3>2, <3>3, <2>3 DEF dbVars, TypeOK
      <3>5. AnswerOK'
        BY <3>1, <3>2 DEF TypeOK, AnswerOK, Go
      <3> QED
        BY <3>4, <3>5
    <2> QED
      BY <2>2, <2>3, <1>1 DEF AskStripe
  <1>2. CASE Compare(w)
    <2>1. CASE Finish(w)
      BY <2>1, <1>2, FinishType DEF Compare, stripeVars, dbVars, TypeOK
    <2>2. CASE /\ Go(w, "select") /\ UNCHANGED job
               /\ loaded' = [loaded EXCEPT ![w] =
                                 IF row.cust THEN row ELSE NoRow]
               /\ answer' = [answer EXCEPT ![w] = 0]
      BY <2>2, <1>2, RowConstants
         DEF Compare, Go, stripeVars, dbVars, TypeOK, AnswerOK, Steps
    <2> QED
      BY <2>1, <2>2, <1>2 DEF Compare
  <1>3. CASE MarkDisputed(w)
    BY <1>3, RowConstants
       DEF MarkDisputed, Go, stripeVars, TypeOK, AnswerOK, Steps, JobNames
  <1>4. CASE SelectForUpdate(w)
    BY <1>4 DEF SelectForUpdate, Go, stripeVars, TypeOK, AnswerOK, Steps
  <1>5. CASE SelectNothing(w)
    BY <1>5 DEF SelectNothing, Go, stripeVars, dbVars, TypeOK, AnswerOK, Steps
  <1>6. CASE FetchLocked(w)
    BY <1>6 DEF FetchLocked, Go, stripeVars, dbVars, TypeOK, AnswerOK, Steps
  <1>7. CASE FetchUnlocked(w)
    <2>1. CASE Finish(w)
      BY <2>1, <1>7, FinishType DEF FetchUnlocked, stripeVars, dbVars, TypeOK
    <2>2. CASE /\ answer' = [answer EXCEPT ![w] = Len(hist)]
               /\ Go(w, "attach") /\ UNCHANGED <<job, loaded>>
      BY <2>2, <1>7
         DEF FetchUnlocked, Go, stripeVars, dbVars, TypeOK, AnswerOK, Steps
    <2> QED
      BY <2>1, <2>2, <1>7 DEF FetchUnlocked
  <1>8. CASE Attach(w)
    BY <1>8 DEF Attach, Go, stripeVars, dbVars, TypeOK, AnswerOK, Steps
  <1>9. CASE FlushAttach(w)
    BY <1>9 DEF FlushAttach, Go, stripeVars, TypeOK, AnswerOK, Steps
  <1>10. CASE Relock(w)
    BY <1>10 DEF Relock, Go, stripeVars, TypeOK, AnswerOK, Steps
  <1>11. CASE WriteAndCommit(w)
    <2>1. Target(w) \in Row /\ loaded[w] \in Row /\ row \in Row
      BY <1>11, TargetType DEF WriteAndCommit, TypeOK
    <2>2. row' \in Row
      BY <2>1, <1>11, FlushType DEF WriteAndCommit
    <2>3. answer[w] \in 0..Len(hist) /\ answer[w] \in Nat
      BY <1>11 DEF WriteAndCommit, TypeOK, AnswerOK
    <2>4. audit' \in [from : Tier \X SubscriptionStatus,
                      to   : Tier \X SubscriptionStatus]
      BY <2>1, <2>3, <1>11, SnapshotType DEF WriteAndCommit
    <2> QED
      BY <2>2, <2>3, <2>4, <1>11, FinishType
         DEF WriteAndCommit, stripeVars, TypeOK
  <1>12. CASE ExtendGrace(w)
    <2>0. PICK days \in Extensions :
             row' = Flush(row, loaded[w],
                          [loaded[w] EXCEPT !.pastDueSince = @ + days])
      BY <1>12 DEF ExtendGrace
    <2> DEFINE moved == [loaded[w] EXCEPT !.pastDueSince = @ + days]
    <2>1. row \in Row /\ loaded[w] \in Row
      BY DEF TypeOK
    <2>2. loaded[w].pastDueSince + days \in Time
      <3>1. loaded[w].pastDueSince \in Time /\ loaded[w].pastDueSince # NoTime
        BY <2>1, <1>12 DEF Row, ExtendGrace, AnswerOK
      <3> QED
        BY <3>1, TimeAssumption DEF Time
    <2>3. moved \in Row
      BY <2>1, <2>2 DEF Row
    <2>4. row' \in Row
      BY <2>0, <2>1, <2>3, FlushType
    <2> QED
      BY <2>4, <1>12, FinishType DEF ExtendGrace, stripeVars, TypeOK
  <1> QED
    BY <1>1, <1>2, <1>3, <1>4, <1>5, <1>6, <1>7, <1>8, <1>9, <1>10, <1>11,
       <1>12 DEF Step

LEMMA TypeNext == TypeInv /\ [Next]_vars => TypeInv'
  <1> SUFFICES ASSUME TypeInv, [Next]_vars PROVE TypeInv'
    OBVIOUS
  <1> USE DEF TypeInv
  <1>1. CASE StripeChanges
    <2>1. PICK r \in RemoteStates : hist' = Append(hist, r)
      BY <1>1 DEF StripeChanges
    <2>2. hist' \in Seq(RemoteOrNone) /\ Len(hist') = Len(hist) + 1
      BY <2>1 DEF TypeOK
    <2> QED
      BY <2>2, <1>1 DEF StripeChanges, dbVars, workerVars, TypeOK, AnswerOK
  <1>2. CASE Tick
    BY <1>2 DEF Tick, stripeVars, dbVars, workerVars, TypeOK, AnswerOK
  <1>3. CASE MySubscription
    BY <1>3, RowConstants
       DEF MySubscription, stripeVars, workerVars, TypeOK, AnswerOK
  <1>4. ASSUME NEW w \in Workers, Start(w) PROVE TypeInv'
    BY <1>4, TypeStart
  <1>5. ASSUME NEW w \in Workers, Step(w) PROVE TypeInv'
    BY <1>5, TypeStep
  <1>6. ASSUME NEW w \in Workers, Abort(w) PROVE TypeInv'
    <2>1. pending' \in Nat /\ aborts' \in Nat
          /\ lock' \in Workers \cup {NoWorker}
      BY <1>6 DEF Abort, TypeOK, Unlocked
    <2> QED
      BY <2>1, <1>6, FinishType DEF Abort, TypeOK
  <1>7. CASE UNCHANGED vars
    BY <1>7 DEF vars, TypeOK, AnswerOK
  <1> QED
    BY <1>1, <1>2, <1>3, <1>4, <1>5, <1>6, <1>7 DEF Next

\* Every variable keeps its type.  The invariant behind it also says that a
\* worker past its call to Stripe has an answer.
THEOREM TypeCorrect == Spec => []TypeOK
  <1>1. Init => TypeInv
    BY TypeInit
  <1>2. TypeInv /\ [Next]_vars => TypeInv'
    BY TypeNext
  <1>3. TypeInv => TypeOK
    BY DEF TypeInv
  <1> QED
    BY <1>1, <1>2, <1>3, PTL DEF Spec

---------------------------------------------------------------------------
(* The lock, for a customer whose row already carries the customer id *)

\* Past SELECT ... FOR UPDATE a worker holds the lock, so the answer it
\* fetched is no older than the one the row shows; and no worker is on the
\* path that has no row to lock.
LockInv ==
    /\ row.cust /\ row.present
    /\ \A w \in Workers :
          /\ pc[w] \in {"fetch", "write"} => lock = w
          /\ pc[w] \notin {"fetch_unlocked", "attach", "flush_attach", "relock"}
          /\ pc[w] = "write" => synced <= answer[w]

\* While the row lags behind Stripe, an event is owed to us or a webhook is
\* at work that has not asked Stripe yet or has the latest answer.
Underway(w) ==
    /\ job[w] = "webhook"
    /\ \/ pc[w] \in {"select", "fetch"}
       \/ pc[w] = "write" /\ answer[w] = Len(hist)

OwedInv ==
    synced < Len(hist) => pending > 0 \/ \E w \in Workers : Underway(w)

SyncInv == LockInv /\ OwedInv

LEMMA SyncInit == ASSUME Onboarded, Init PROVE SyncInv
  <1>1. PICK r \in RemoteStates : hist = <<r>>
    BY DEF Init
  <1>2. hist[1] \in RemoteOrNone /\ Len(hist) = 1
    BY <1>1
  <1>3. /\ [SignupRow EXCEPT !.cust = TRUE] \in Row
        /\ [SignupRow EXCEPT !.cust = TRUE].cust
        /\ [SignupRow EXCEPT !.cust = TRUE].present
    BY RowConstants DEF Row, SignupRow, NoRow
  <1>4. row.cust /\ row.present
    BY <1>2, <1>3, ProjectType, WriteMirrors DEF Init
  <1> QED
    BY <1>2, <1>4 DEF Init, SyncInv, LockInv, OwedInv

LEMMA SyncStart ==
    ASSUME TypeInv, SyncInv, NEW w \in Workers, Start(w) PROVE SyncInv'
  <1> USE DEF TypeInv, TypeOK, SyncInv
  <1>1. PICK j \in AllJobs, step \in {"select", "mark", "flush_grace",
                                      "ask_stripe", "compare"} :
            /\ pc[w] = "idle"
            /\ job' = [job EXCEPT ![w] = j]
            /\ pc' = [pc EXCEPT ![w] = step]
            /\ j = "webhook" => step = "select" /\ pending' = pending - 1
            /\ j # "webhook" => pending' = pending
            /\ UNCHANGED <<hist, dbVars>>
            /\ \A v \in Workers : v # w => answer'[v] = answer[v]
    BY DEF Start, StartWebhook, StartDispute, StartResync, StartExtendGrace,
           StartCancel, StartResume, StartReconcile, Become, AllJobs
  <1>2. LockInv'
    BY <1>1 DEF LockInv, dbVars
  <1>3. OwedInv'
    <2>1. CASE j = "webhook"
      BY <1>1, <2>1 DEF OwedInv, Underway, dbVars
    <2>2. CASE j # "webhook"
      <3>1. \A v \in Workers : Underway(v) => v # w
        BY <1>1 DEF Underway
      <3>2. \A v \in Workers : Underway(v) => Underway(v)'
        BY <1>1, <3>1 DEF Underway
      <3> QED
        BY <1>1, <2>2, <3>2 DEF OwedInv, dbVars
    <2> QED
      BY <2>1, <2>2
  <1> QED
    BY <1>2, <1>3

\* A step that leaves the versions and every other worker alone keeps what
\* is owed, as long as the worker that moved stays as good as it was.
LEMMA OwedKept ==
    ASSUME TypeInv, OwedInv, NEW w \in Workers,
           UNCHANGED <<hist, synced>>, pending' \in Nat, pending' >= pending,
           \A v \in Workers \ {w} : /\ job'[v] = job[v] /\ pc'[v] = pc[v]
                                    /\ answer'[v] = answer[v],
           Underway(w) => Underway(w)' \/ pending' > 0
    PROVE  OwedInv'
  <1>1. \A v \in Workers \ {w} : Underway(v) => Underway(v)'
    BY DEF Underway
  <1> QED
    BY <1>1 DEF OwedInv, TypeInv, TypeOK

LEMMA SyncStep ==
    ASSUME TypeInv, SyncInv, NEW w \in Workers, Step(w) PROVE SyncInv'
  <1> USE DEF TypeInv, SyncInv, Go
  <1>1. CASE AskStripe(w)
    <2>1. LockInv'
      BY <1>1 DEF AskStripe, LockInv, dbVars, TypeOK
    <2>2. OwedInv'
      <3>1. CASE UNCHANGED stripeVars
        BY <3>1, <1>1, OwedKept
           DEF AskStripe, stripeVars, dbVars, Underway, TypeOK
      <3>2. CASE pending' = pending + 1
        BY <3>2 DEF OwedInv, TypeOK
      <3> QED
        BY <3>1, <3>2, <1>1 DEF AskStripe
    <2> QED
      BY <2>1, <2>2
  <1>2. CASE Compare(w)
    <2>1. LockInv'
      BY <1>2 DEF Compare, Finish, LockInv, dbVars, TypeOK
    <2>2. ~Underway(w)
      BY <1>2 DEF Compare, Underway
    <2>3. OwedInv'
      BY <1>2, <2>2, OwedKept DEF Compare, Finish, stripeVars, dbVars, TypeOK
    <2> QED
      BY <2>1, <2>3
  <1>3. CASE MarkDisputed(w)
    <2>1. LockInv'
      BY <1>3 DEF MarkDisputed, LockInv, TypeOK
    <2>2. ~Underway(w)
      BY <1>3 DEF MarkDisputed, Underway
    <2>3. OwedInv'
      BY <1>3, <2>2, OwedKept DEF MarkDisputed, stripeVars, TypeOK
    <2> QED
      BY <2>1, <2>3
  <1>4. CASE SelectForUpdate(w)
    <2>1. LockInv'
      BY <1>4 DEF SelectForUpdate, LockInv, TypeOK
    <2>2. OwedInv'
      BY <1>4, OwedKept DEF SelectForUpdate, stripeVars, Underway, TypeOK
    <2> QED
      BY <2>1, <2>2
  <1>5. CASE SelectNothing(w)
    BY <1>5 DEF SelectNothing, LockInv
  <1>6. CASE FetchLocked(w)
    <2>1. LockInv'
      BY <1>6 DEF FetchLocked, LockInv, dbVars, TypeOK
    <2>2. Underway(w) => Underway(w)'
      BY <1>6 DEF FetchLocked, stripeVars, Underway, TypeOK
    <2>3. OwedInv'
      BY <1>6, <2>2, OwedKept DEF FetchLocked, stripeVars, dbVars, TypeOK
    <2> QED
      BY <2>1, <2>3
  <1>7. CASE FetchUnlocked(w)
    BY <1>7 DEF FetchUnlocked, LockInv
  <1>8. CASE Attach(w)
    BY <1>8 DEF Attach, LockInv
  <1>9. CASE FlushAttach(w)
    BY <1>9 DEF FlushAttach, LockInv
  <1>10. CASE Relock(w)
    BY <1>10 DEF Relock, LockInv
  <1>11. CASE WriteAndCommit(w)
    <2>1. lock = w /\ pc[w] = "write" /\ synced <= answer[w]
      BY <1>11 DEF WriteAndCommit, LockInv
    <2>2. row'.cust /\ row'.present
      <3>1. Target(w).cust /\ Target(w).present
        BY <2>1, TargetType
      <3> QED
        BY <3>1, <1>11 DEF WriteAndCommit, Flush, LockInv
    <2>3. LockInv'
      BY <2>1, <2>2, <1>11 DEF WriteAndCommit, Finish, LockInv, TypeOK
    <2>4. OwedInv'
      <3>1. \A v \in Workers \ {w} : Underway(v) => Underway(v)'
        BY <1>11 DEF WriteAndCommit, Finish, stripeVars, Underway, TypeOK
      <3>2. answer[w] # Len(hist) => ~Underway(w)
        BY <2>1 DEF Underway
      <3>3. synced' = answer[w] /\ UNCHANGED <<hist, pending>>
        BY <1>11 DEF WriteAndCommit, stripeVars
      <3>4. answer[w] < Len(hist) => synced < Len(hist)
        BY <2>1 DEF TypeOK
      <3> QED
        BY <3>1, <3>2, <3>3, <3>4 DEF OwedInv, TypeOK
    <2> QED
      BY <2>3, <2>4
  <1>12. CASE ExtendGrace(w)
    <2>1. LockInv'
      BY <1>12 DEF ExtendGrace, Finish, Flush, LockInv, TypeOK, Row
    <2>2. ~Underway(w)
      BY <1>12 DEF ExtendGrace, Underway
    <2>3. OwedInv'
      BY <1>12, <2>2, OwedKept DEF ExtendGrace, Finish, stripeVars, TypeOK
    <2> QED
      BY <2>1, <2>3
  <1> QED
    BY <1>1, <1>2, <1>3, <1>4, <1>5, <1>6, <1>7, <1>8, <1>9, <1>10, <1>11,
       <1>12 DEF Step

LEMMA SyncNext == TypeInv /\ SyncInv /\ [Next]_vars => SyncInv'
  <1> SUFFICES ASSUME TypeInv, SyncInv, [Next]_vars PROVE SyncInv'
    OBVIOUS
  <1> USE DEF TypeInv, SyncInv
  <1>1. CASE StripeChanges
    <2>1. LockInv'
      BY <1>1 DEF StripeChanges, dbVars, workerVars, LockInv
    <2>2. OwedInv'
      BY <1>1 DEF StripeChanges, OwedInv, TypeOK
    <2> QED
      BY <2>1, <2>2
  <1>2. CASE Tick
    BY <1>2 DEF Tick, stripeVars, dbVars, workerVars, LockInv, OwedInv, Underway
  <1>3. CASE MySubscription
    BY <1>3 DEF MySubscription, LockInv
  <1>4. ASSUME NEW w \in Workers, Start(w) PROVE SyncInv'
    BY <1>4, SyncStart
  <1>5. ASSUME NEW w \in Workers, Step(w) PROVE SyncInv'
    BY <1>5, SyncStep
  <1>6. ASSUME NEW w \in Workers, Abort(w) PROVE SyncInv'
    <2>1. LockInv'
      BY <1>6 DEF Abort, Finish, Unlocked, LockInv, TypeOK
    <2>2. Underway(w) => pending' > 0
      BY <1>6 DEF Abort, Underway, TypeOK
    <2>3. OwedInv'
      BY <1>6, <2>2, OwedKept DEF Abort, Finish, TypeOK
    <2> QED
      BY <2>1, <2>3
  <1>7. CASE UNCHANGED vars
    BY <1>7 DEF vars, LockInv, OwedInv, Underway
  <1> QED
    BY <1>1, <1>2, <1>3, <1>4, <1>5, <1>6, <1>7 DEF Next

\* The lock taken before Stripe is asked: whatever jobs run, the row of an
\* onboarded customer never goes back to an older answer.
THEOREM NeverOlder == ASSUME Onboarded PROVE Spec => MonotonicMirror
  <1>1. Init => TypeInv /\ SyncInv
    BY TypeInit, SyncInit
  <1>2. TypeInv /\ SyncInv /\ [Next]_vars => (TypeInv /\ SyncInv)'
    BY TypeNext, SyncNext
  <1>3. TypeInv /\ SyncInv /\ [Next]_vars => [synced' >= synced]_synced
    <2> SUFFICES ASSUME TypeInv, SyncInv, [Next]_vars, synced' # synced
                 PROVE  synced' >= synced
      OBVIOUS
    <2>1. PICK w \in Workers : WriteAndCommit(w)
      BY DEF Next, vars, StripeChanges, Tick, MySubscription, dbVars, Start,
             StartWebhook, StartDispute, StartResync, StartExtendGrace,
             StartCancel, StartResume, StartReconcile, Become, Step, AskStripe,
             Compare, MarkDisputed, SelectForUpdate, SelectNothing,
             FetchLocked, FetchUnlocked, Attach, FlushAttach, Relock,
             ExtendGrace, Abort
    <2> QED
      BY <2>1 DEF WriteAndCommit, SyncInv, LockInv, TypeInv, TypeOK
  <1> QED
    BY <1>1, <1>2, <1>3, PTL DEF Spec, MonotonicMirror

---------------------------------------------------------------------------
(* Jobs whose sync loads the row inside the lock *)

\* A webhook and a dispute load the row with SELECT ... FOR UPDATE, and
\* extend_grace touches no mirrored column.  The other jobs hold a row they
\* loaded before the lock, and FreshInv is false of them.
FreshJobs == {"webhook", "dispute", "extend_grace"}

FreshInv ==
    /\ synced >= 1
    /\ MirrorOf(row) = Project(hist[synced])
    /\ \A w \in Workers :
          /\ pc[w] \notin {"ask_stripe", "compare"}
          /\ pc[w] = "select" => ~loaded[w].present
          /\ pc[w] \in {"fetch", "write"} => loaded[w] = row

LEMMA FreshInit == ASSUME Onboarded, Init PROVE FreshInv
  <1>1. PICK r \in RemoteStates : hist = <<r>>
    BY DEF Init
  <1>2. hist[1] \in RemoteOrNone /\ Len(hist) = 1
    BY <1>1
  <1>3. [SignupRow EXCEPT !.cust = TRUE] \in Row
    BY RowConstants DEF Row
  <1>4. MirrorOf(row) = Project(hist[1])
    BY <1>2, <1>3, ProjectType, WriteMirrors DEF Init
  <1> QED
    BY <1>2, <1>4 DEF Init, FreshInv

\* The step of a worker that leaves row, lock order and history alone.
LEMMA FreshStep ==
    ASSUME TypeInv, LockInv, FreshInv, NEW w \in Workers, Step(w)
    PROVE  FreshInv'
  <1> USE DEF TypeInv, Go
  <1>1. CASE AskStripe(w)
    BY <1>1 DEF AskStripe, FreshInv
  <1>2. CASE Compare(w)
    BY <1>2 DEF Compare, FreshInv
  <1>3. CASE MarkDisputed(w)
    BY <1>3 DEF MarkDisputed, FreshInv, NoRow, stripeVars, TypeOK
  <1>4. CASE SelectForUpdate(w)
    BY <1>4 DEF SelectForUpdate, FreshInv, stripeVars, TypeOK
  <1>5. CASE SelectNothing(w)
    BY <1>5 DEF SelectNothing, LockInv
  <1>6. CASE FetchLocked(w)
    BY <1>6 DEF FetchLocked, FreshInv, stripeVars, dbVars, TypeOK
  <1>7. CASE FetchUnlocked(w)
    BY <1>7 DEF FetchUnlocked, LockInv
  <1>8. CASE Attach(w)
    BY <1>8 DEF Attach, LockInv
  <1>9. CASE FlushAttach(w)
    BY <1>9 DEF FlushAttach, LockInv
  <1>10. CASE Relock(w)
    BY <1>10 DEF Relock, LockInv
  <1>11. CASE WriteAndCommit(w)
    <2>1. pc[w] = "write" /\ lock = w /\ loaded[w] = row
          /\ answer[w] \in 1..Len(hist)
      BY <1>11 DEF WriteAndCommit, LockInv, FreshInv, AnswerOK
    <2>2. row' = Target(w) /\ MirrorOf(Target(w)) = Project(hist[answer[w]])
      <3>1. /\ Target(w) \in Row /\ Target(w).present
            /\ MirrorOf(Target(w)) = Project(hist[answer[w]])
        BY <2>1, TargetType
      <3>2. row \in Row
        BY DEF TypeOK
      <3> QED
        BY <2>1, <3>1, <3>2, <1>11, FlushFresh DEF WriteAndCommit, LockInv
    <2>3. synced' = answer[w] /\ hist' = hist
      BY <1>11 DEF WriteAndCommit, stripeVars
    <2>4. MirrorOf(row') = Project(hist'[synced'])
      BY <2>2, <2>3
    <2>5. \A v \in Workers \ {w} : pc[v] \notin {"fetch", "write"}
      BY <2>1 DEF LockInv
    <2> QED
      BY <2>1, <2>3, <2>4, <2>5, <1>11
         DEF WriteAndCommit, Finish, FreshInv, MirrorOf, TypeOK
  <1>12. CASE ExtendGrace(w)
    <2>1. MirrorOf(row') = MirrorOf(row)
      BY <1>12 DEF ExtendGrace, Flush, MirrorOf, TypeOK, Row
    <2>2. \A v \in Workers : pc[v] \notin {"fetch", "write"}
      BY <1>12 DEF ExtendGrace, LockInv, TypeOK
    <2> QED
      BY <2>1, <2>2, <1>12
         DEF ExtendGrace, Finish, FreshInv, stripeVars, MirrorOf, TypeOK
  <1> QED
    BY <1>1, <1>2, <1>3, <1>4, <1>5, <1>6, <1>7, <1>8, <1>9, <1>10, <1>11,
       <1>12 DEF Step

LEMMA FreshNext ==
    ASSUME Jobs \subseteq FreshJobs
    PROVE  TypeInv /\ LockInv /\ FreshInv /\ [Next]_vars => FreshInv'
  <1> SUFFICES ASSUME TypeInv, LockInv, FreshInv, [Next]_vars PROVE FreshInv'
    OBVIOUS
  <1> USE DEF TypeInv
  <1>1. CASE StripeChanges
    <2>1. \A v \in 1..Len(hist) : hist'[v] = hist[v]
      BY <1>1 DEF StripeChanges, TypeOK
    <2> QED
      BY <2>1, <1>1
         DEF StripeChanges, dbVars, workerVars, FreshInv, MirrorOf, TypeOK
  <1>2. CASE Tick
    BY <1>2 DEF Tick, stripeVars, dbVars, workerVars, FreshInv, MirrorOf
  <1>3. CASE MySubscription
    BY <1>3 DEF MySubscription, LockInv
  <1>4. ASSUME NEW w \in Workers, Start(w) PROVE FreshInv'
    <2>1. CASE StartWebhook(w)
      BY <2>1 DEF StartWebhook, Become, FreshInv, dbVars, MirrorOf, NoRow, TypeOK
    <2>2. CASE StartDispute(w)
      BY <2>2
         DEF StartDispute, Become, FreshInv, LockInv, dbVars, MirrorOf, TypeOK
    <2>3. CASE StartExtendGrace(w)
      BY <2>3 DEF StartExtendGrace, Become, FreshInv, dbVars, MirrorOf, TypeOK
    <2>4. "resync" \notin Jobs /\ "cancel" \notin Jobs /\ "resume" \notin Jobs
          /\ "reconcile" \notin Jobs
      BY DEF FreshJobs
    <2> QED
      BY <2>1, <2>2, <2>3, <2>4, <1>4
         DEF Start, StartResync, StartCancel, StartResume, StartReconcile, Become
  <1>5. ASSUME NEW w \in Workers, Step(w) PROVE FreshInv'
    BY <1>5, FreshStep
  <1>6. ASSUME NEW w \in Workers, Abort(w) PROVE FreshInv'
    BY <1>6 DEF Abort, Finish, FreshInv, MirrorOf, TypeOK
  <1>7. CASE UNCHANGED vars
    BY <1>7 DEF vars, FreshInv, MirrorOf
  <1> QED
    BY <1>1, <1>2, <1>3, <1>4, <1>5, <1>6, <1>7 DEF Next

\* Module Mirror speaks of the same Stripe states and the same projection.
LEMMA SameVocabulary ==
    /\ Promise!RemoteOrNone = RemoteOrNone
    /\ \A r : Promise!Project(r) = Project(r)
  <1>1. Promise!RemoteOrNone = RemoteOrNone
    BY DEF Promise!RemoteOrNone, RemoteOrNone, Promise!Remote, Remote,
           Promise!NoRemote, NoRemote, Promise!Tier, Tier, Promise!NoTier,
           NoTier, Promise!ProviderStatus, ProviderStatus
  <1>2. ASSUME NEW r PROVE Promise!Project(r) = Project(r)
    BY DEF Promise!Project, Project, Promise!StatusOf, StatusOf,
           Promise!ResolveTier, ResolveTier, Promise!NoSubscription,
           NoSubscription, Promise!GrantsAccess, GrantsAccess,
           Promise!PaidStatuses, PaidStatuses, Promise!NoTier, NoTier
  <1> QED
    BY <1>1, <1>2

\* The detailed write path implements the promise of module Mirror.
THEOREM ImplementsMirror ==
    ASSUME Onboarded, Jobs \subseteq FreshJobs
    PROVE  Spec => MirrorPromise
  <1> DEFINE Inv == TypeInv /\ SyncInv /\ FreshInv
  <1>1. Init => Inv
    BY TypeInit, SyncInit, FreshInit
  <1>2. Inv /\ [Next]_vars => Inv'
    BY TypeNext, SyncNext, FreshNext DEF SyncInv
  <1>3. Init => Promise!MirrorInit
    <2> SUFFICES ASSUME Init PROVE Promise!MirrorInit
      OBVIOUS
    <2>1. hist \in {<<r>> : r \in RemoteOrNone} /\ synced = 1
      BY DEF Init
    <2>2. MirrorOf(row) = Project(hist[1])
      BY <2>1, FreshInit DEF FreshInv
    <2> QED
      BY <2>1, <2>2, SameVocabulary DEF Promise!MirrorInit
  <1>4. Inv /\ Inv' /\ [Next]_vars => [Promise!MirrorNext]_(Promise!mirrorVars)
    <2> SUFFICES ASSUME Inv, Inv', [Next]_vars
                 PROVE  [Promise!MirrorNext]_(Promise!mirrorVars)
      OBVIOUS
    <2>1. CASE StripeChanges
      <3>1. Promise!Change
        BY <2>1, SameVocabulary
           DEF Promise!Change, StripeChanges, dbVars, MirrorOf
      <3> QED
        BY <3>1 DEF Promise!MirrorNext
    <2>2. ASSUME NEW w \in Workers, WriteAndCommit(w)
          PROVE  Promise!CatchUp
      <3>1. synced' = answer[w] /\ hist' = hist
        BY <2>2 DEF WriteAndCommit, stripeVars
      <3>2. answer[w] \in synced..Len(hist)
        BY <2>2
           DEF WriteAndCommit, SyncInv, LockInv, TypeInv, TypeOK, AnswerOK
      <3>3. MirrorOf(row') = Project(hist[answer[w]])
        BY <3>1 DEF FreshInv, MirrorOf
      <3> QED
        BY <3>1, <3>2, <3>3, SameVocabulary DEF Promise!CatchUp, MirrorOf
    <2>3. ASSUME NEW w \in Workers, Step(w) \/ Start(w) \/ Abort(w),
                 ~WriteAndCommit(w)
          PROVE  UNCHANGED Promise!mirrorVars
      <3>1. UNCHANGED <<hist, synced>>
        BY <2>3 DEF Step, AskStripe, Compare, MarkDisputed, SelectForUpdate,
             SelectNothing, FetchLocked, FetchUnlocked, Attach, FlushAttach,
             Relock, ExtendGrace, Start, StartWebhook, StartDispute,
             StartResync, StartExtendGrace, StartCancel, StartResume,
             StartReconcile, Become, Abort, stripeVars, dbVars, FreshInv
      <3>2. MirrorOf(row') = MirrorOf(row)
        BY <3>1 DEF FreshInv, MirrorOf
      <3> QED
        BY <3>1, <3>2 DEF Promise!mirrorVars, MirrorOf
    <2>4. CASE Tick \/ MySubscription \/ UNCHANGED vars
      <3>1. UNCHANGED <<hist, synced>>
        BY <2>4 DEF Tick, MySubscription, stripeVars, dbVars, vars
      <3>2. MirrorOf(row') = MirrorOf(row)
        BY <3>1 DEF FreshInv, MirrorOf
      <3> QED
        BY <3>1, <3>2 DEF Promise!mirrorVars, MirrorOf
    <2> QED
      BY <2>1, <2>2, <2>3, <2>4 DEF Next, Promise!MirrorNext
  <1> HIDE DEF Inv
  <1> QED
    BY <1>1, <1>2, <1>3, <1>4, PTL DEF Spec, MirrorPromise, Promise!MirrorSpec

---------------------------------------------------------------------------
(* No change is lost *)

\* An event is still to come, or being handled by somebody who will see what
\* it is about.
Owed == pending > 0 \/ \E w \in Workers : Underway(w)

\* The row shows what Stripe says, and nobody is about to write anything else.
Settled ==
    /\ MirrorOf(row) = Project(StripeNow)
    /\ \A w \in Workers : pc[w] = "write" => answer[w] = Len(hist)

\* A webhook loads the row inside the lock: what it holds is the row.
WebhookInv ==
    \A w \in Workers : job[w] = "webhook" =>
        /\ pc[w] \in {"select", "fetch", "write"}
        /\ pc[w] = "select" => ~loaded[w].present
        /\ pc[w] # "select" => loaded[w] = row

\* The other jobs may hold a row from before the lock, and then send only some
\* of the columns.  It does no harm: a row that is behind has an event owed,
\* and one that is not has these columns right already.
LossInv == WebhookInv /\ (Owed \/ Settled)

\* Columns that are right stay right, whatever the session had loaded.
LEMMA FlushMirrors ==
    ASSUME NEW s \in Row, NEW b \in Row, NEW a \in Row,
           MirrorOf(a) = MirrorOf(s)
    PROVE  MirrorOf(Flush(s, b, a)) = MirrorOf(s)
  BY DEF Flush, MirrorOf, Row

\* Steps of w that change neither Stripe nor what the row shows.
LEMMA SettledKept ==
    ASSUME TypeInv, Owed \/ Settled, NEW w \in Workers,
           hist' = hist, MirrorOf(row') = MirrorOf(row),
           pending' \in Nat, pending' >= pending,
           \A v \in Workers \ {w} : /\ job'[v] = job[v] /\ pc'[v] = pc[v]
                                    /\ answer'[v] = answer[v],
           Underway(w) => Underway(w)' \/ pending' > 0,
           pc'[w] = "write" => answer'[w] = Len(hist)
    PROVE  (Owed \/ Settled)'
  <1>1. CASE Owed
    <2>1. \A v \in Workers \ {w} : Underway(v) => Underway(v)'
      BY DEF Underway
    <2> QED
      BY <1>1, <2>1 DEF Owed, TypeInv, TypeOK
  <1>2. CASE Settled
    <2>1. StripeNow' = StripeNow
      BY DEF StripeNow
    <2>2. MirrorOf(row)' = Project(StripeNow)'
      BY <1>2, <2>1 DEF Settled, MirrorOf, Project
    <2>3. \A v \in Workers : pc'[v] = "write" => answer'[v] = Len(hist')
      BY <1>2 DEF Settled
    <2> QED
      BY <2>2, <2>3 DEF Settled
  <1> QED
    BY <1>1, <1>2

LEMMA LossInit == ASSUME Onboarded, Init PROVE LossInv
  <1>1. synced = Len(hist) /\ \A w \in Workers : pc[w] = "idle" /\ job[w] = "none"
    BY DEF Init
  <1>2. MirrorOf(row) = Project(hist[synced])
    BY FreshInit DEF FreshInv
  <1> QED
    BY <1>1, <1>2 DEF LossInv, WebhookInv, Settled, StripeNow

LEMMA LossStart ==
    ASSUME TypeInv, LossInv, NEW w \in Workers, Start(w) PROVE LossInv'
  <1> USE DEF TypeInv, TypeOK
  <1>1. PICK j \in AllJobs, step \in {"select", "mark", "flush_grace",
                                      "ask_stripe", "compare"} :
            /\ pc[w] = "idle"
            /\ job' = [job EXCEPT ![w] = j]
            /\ pc' = [pc EXCEPT ![w] = step]
            /\ j = "webhook" => /\ step = "select" /\ pending' = pending - 1
                                /\ loaded'[w] = NoRow
            /\ j # "webhook" => pending' = pending
            /\ UNCHANGED <<hist, dbVars>>
            /\ \A v \in Workers : v # w => answer'[v] = answer[v]
            /\ \A v \in Workers : v # w => loaded'[v] = loaded[v]
    BY DEF Start, StartWebhook, StartDispute, StartResync, StartExtendGrace,
           StartCancel, StartResume, StartReconcile, Become, AllJobs
  <1>2. WebhookInv'
    BY <1>1 DEF LossInv, WebhookInv, dbVars, NoRow
  <1>3. CASE j = "webhook"
    <2>1. Underway(w)'
      BY <1>1, <1>3 DEF Underway
    <2> QED
      BY <1>2, <2>1 DEF LossInv, Owed
  <1>4. CASE j # "webhook"
    <2>1. ~Underway(w) /\ pc'[w] # "write"
      BY <1>1 DEF Underway
    <2>2. MirrorOf(row') = MirrorOf(row)
      BY <1>1 DEF dbVars
    <2>3. (Owed \/ Settled)'
      BY <1>1, <1>4, <2>1, <2>2, SettledKept DEF LossInv
    <2> QED
      BY <1>2, <2>3 DEF LossInv
  <1> QED
    BY <1>3, <1>4

LEMMA LossCommit ==
    ASSUME TypeInv, SyncInv, LossInv, NEW w \in Workers, WriteAndCommit(w)
    PROVE  LossInv'
  <1> USE DEF TypeInv
  <1>1. /\ pc[w] = "write" /\ lock = w /\ answer[w] \in 1..Len(hist)
        /\ \A v \in Workers \ {w} : pc[v] \notin {"fetch", "write"}
    BY DEF WriteAndCommit, SyncInv, LockInv, AnswerOK
  <1>2. /\ UNCHANGED <<hist, pending>>
        /\ \A v \in Workers \ {w} : /\ job'[v] = job[v] /\ pc'[v] = pc[v]
                                    /\ answer'[v] = answer[v]
                                    /\ loaded'[v] = loaded[v]
        /\ job'[w] = "none" /\ pc'[w] = "idle"
    BY DEF WriteAndCommit, Finish, stripeVars, TypeOK
  <1>3. WebhookInv'
    BY <1>1, <1>2 DEF LossInv, WebhookInv
  <1>4. CASE pending > 0 \/ \E v \in Workers \ {w} : Underway(v)
    <2>1. Owed'
      BY <1>2, <1>4 DEF Owed, Underway
    <2> QED
      BY <1>3, <2>1 DEF LossInv
  <1>5. CASE ~(pending > 0 \/ \E v \in Workers \ {w} : Underway(v))
    <2>1. answer[w] = Len(hist) /\ (Underway(w) \/ Settled)
      BY <1>1, <1>5 DEF LossInv, Owed, Settled, Underway
    <2>2. /\ Target(w) \in Row /\ Target(w).present
          /\ MirrorOf(Target(w)) = Project(StripeNow)
      BY <1>1, <2>1, TargetType DEF StripeNow
    <2>3. row \in Row /\ loaded[w] \in Row
      BY DEF TypeOK
    <2>4. MirrorOf(row') = Project(StripeNow)
      <3>1. CASE ~loaded[w].present
        BY <2>2, <3>1 DEF WriteAndCommit
      <3>2. CASE loaded[w].present /\ Underway(w)
        <4>1. loaded[w] = row
          BY <1>1, <3>2 DEF LossInv, WebhookInv, Underway
        <4> QED
          BY <2>2, <2>3, <3>2, <4>1, FlushFresh DEF WriteAndCommit
      <3>3. CASE loaded[w].present /\ Settled
        <4>1. MirrorOf(Target(w)) = MirrorOf(row)
          BY <2>2, <3>3 DEF Settled
        <4> QED
          BY <2>2, <2>3, <3>3, <4>1, FlushMirrors DEF WriteAndCommit, Settled
      <3> QED
        BY <2>1, <3>1, <3>2, <3>3
    <2>5. StripeNow' = StripeNow
      BY <1>2 DEF StripeNow
    <2>6. MirrorOf(row)' = Project(StripeNow)'
      BY <2>4, <2>5 DEF MirrorOf, Project
    <2>7. \A v \in Workers : pc'[v] # "write"
      BY <1>1, <1>2
    <2> QED
      BY <1>3, <2>6, <2>7 DEF LossInv, Settled
  <1> QED
    BY <1>4, <1>5

LEMMA LossStep ==
    ASSUME TypeInv, SyncInv, LossInv, NEW w \in Workers, Step(w)
    PROVE  LossInv'
  <1> USE DEF TypeInv, Go
  <1>0. ~NoRow.present
    BY DEF NoRow
  <1>1. CASE AskStripe(w)
    <2>1. WebhookInv'
      BY <1>1 DEF AskStripe, LossInv, WebhookInv, dbVars, TypeOK
    <2>2. (Owed \/ Settled)'
      <3>1. CASE UNCHANGED stripeVars
        BY <1>1, <3>1, SettledKept
           DEF AskStripe, stripeVars, dbVars, Underway, LossInv, TypeOK
      <3>2. CASE pending' = pending + 1
        BY <3>2 DEF Owed, TypeOK
      <3> QED
        BY <1>1, <3>1, <3>2 DEF AskStripe
    <2> QED
      BY <2>1, <2>2 DEF LossInv
  <1>2. CASE Compare(w)
    <2>1. WebhookInv'
      BY <1>2 DEF Compare, Finish, LossInv, WebhookInv, dbVars, TypeOK
    <2>2. (Owed \/ Settled)'
      <3>1. ~Underway(w) /\ pc'[w] # "write"
        BY <1>2 DEF Compare, Finish, Underway, TypeOK
      <3>2. /\ UNCHANGED <<hist, pending, row>> /\ pending \in Nat
            /\ \A v \in Workers \ {w} : /\ job'[v] = job[v] /\ pc'[v] = pc[v]
                                        /\ answer'[v] = answer[v]
        BY <1>2 DEF Compare, Finish, stripeVars, dbVars, TypeOK
      <3>3. MirrorOf(row') = MirrorOf(row)
        BY <3>2
      <3> QED
        BY <3>1, <3>2, <3>3, SettledKept DEF LossInv
    <2> QED
      BY <2>1, <2>2 DEF LossInv
  <1>3. CASE MarkDisputed(w)
    <2>1. WebhookInv'
      BY <1>3 DEF MarkDisputed, LossInv, WebhookInv, TypeOK
    <2>2. (Owed \/ Settled)'
      <3>1. ~Underway(w) /\ pc'[w] # "write"
        BY <1>3 DEF MarkDisputed, Underway, TypeOK
      <3>2. /\ UNCHANGED <<hist, pending, row, answer>> /\ pending \in Nat
            /\ \A v \in Workers \ {w} : job'[v] = job[v] /\ pc'[v] = pc[v]
        BY <1>3 DEF MarkDisputed, stripeVars, TypeOK
      <3>3. MirrorOf(row') = MirrorOf(row)
        BY <3>2
      <3> QED
        BY <3>1, <3>2, <3>3, SettledKept DEF LossInv
    <2> QED
      BY <2>1, <2>2 DEF LossInv
  <1>4. CASE SelectForUpdate(w)
    <2>1. WebhookInv'
      BY <1>4 DEF SelectForUpdate, LossInv, WebhookInv, TypeOK
    <2>2. (Owed \/ Settled)'
      BY <1>4, SettledKept DEF SelectForUpdate, stripeVars, Underway, LossInv, TypeOK
    <2> QED
      BY <2>1, <2>2 DEF LossInv
  <1>5. CASE FetchLocked(w)
    <2>1. WebhookInv'
      BY <1>5 DEF FetchLocked, LossInv, WebhookInv, dbVars, TypeOK
    <2>2. (Owed \/ Settled)'
      <3>1. answer'[w] = Len(hist) /\ pc'[w] = "write" /\ hist' = hist
        BY <1>5 DEF FetchLocked, stripeVars, TypeOK
      <3>2. Underway(w) => Underway(w)'
        BY <1>5, <3>1 DEF FetchLocked, Underway
      <3> QED
        BY <1>5, <3>1, <3>2, SettledKept
           DEF FetchLocked, stripeVars, dbVars, LossInv, TypeOK
    <2> QED
      BY <2>1, <2>2 DEF LossInv
  <1>6. CASE \/ SelectNothing(w) \/ FetchUnlocked(w) \/ Attach(w)
             \/ FlushAttach(w) \/ Relock(w)
    BY <1>6 DEF SelectNothing, FetchUnlocked, Attach, FlushAttach, Relock,
       SyncInv, LockInv
  <1>7. CASE WriteAndCommit(w)
    BY <1>7, LossCommit
  <1>8. CASE ExtendGrace(w)
    <2>1. MirrorOf(row') = MirrorOf(row)
      BY <1>8 DEF ExtendGrace, Flush, MirrorOf, TypeOK, Row
    <2>2. \A v \in Workers : pc[v] \notin {"fetch", "write"}
      BY <1>8 DEF ExtendGrace, SyncInv, LockInv, TypeOK
    <2>3. WebhookInv'
      BY <1>8, <2>2 DEF ExtendGrace, Finish, LossInv, WebhookInv, TypeOK
    <2>4. ~Underway(w) /\ pc'[w] # "write"
      BY <1>8 DEF ExtendGrace, Finish, Underway, TypeOK
    <2>5. (Owed \/ Settled)'
      <3>1. /\ UNCHANGED <<hist, pending>> /\ pending \in Nat
            /\ \A v \in Workers \ {w} : /\ job'[v] = job[v] /\ pc'[v] = pc[v]
                                        /\ answer'[v] = answer[v]
        BY <1>8 DEF ExtendGrace, Finish, stripeVars, TypeOK
      <3> QED
        BY <2>1, <2>4, <3>1, SettledKept DEF LossInv
    <2> QED
      BY <2>3, <2>5 DEF LossInv
  <1> QED
    BY <1>1, <1>2, <1>3, <1>4, <1>5, <1>6, <1>7, <1>8 DEF Step

LEMMA LossNext == TypeInv /\ SyncInv /\ LossInv /\ [Next]_vars => LossInv'
  <1> SUFFICES ASSUME TypeInv, SyncInv, LossInv, [Next]_vars PROVE LossInv'
    OBVIOUS
  <1> USE DEF TypeInv
  <1>1. CASE StripeChanges
    <2>1. WebhookInv'
      BY <1>1 DEF StripeChanges, dbVars, workerVars, LossInv, WebhookInv
    <2>2. Owed'
      BY <1>1 DEF StripeChanges, Owed, TypeOK
    <2> QED
      BY <2>1, <2>2 DEF LossInv
  <1>2. CASE Tick \/ UNCHANGED vars
    <2>1. UNCHANGED <<hist, pending, row, job, pc, loaded, answer>>
      BY <1>2 DEF Tick, stripeVars, dbVars, workerVars, vars
    <2> QED
      BY <2>1 DEF LossInv, WebhookInv, Owed, Settled, Underway, StripeNow,
         MirrorOf, Project
  <1>3. CASE MySubscription
    BY <1>3 DEF MySubscription, SyncInv, LockInv
  <1>4. ASSUME NEW w \in Workers, Start(w) PROVE LossInv'
    BY <1>4, LossStart
  <1>5. ASSUME NEW w \in Workers, Step(w) PROVE LossInv'
    BY <1>5, LossStep
  <1>6. ASSUME NEW w \in Workers, Abort(w) PROVE LossInv'
    <2>1. WebhookInv'
      BY <1>6 DEF Abort, Finish, LossInv, WebhookInv, TypeOK
    <2>2. Underway(w) => pending' > 0
      BY <1>6 DEF Abort, Underway, TypeOK
    <2>3. (Owed \/ Settled)'
      BY <1>6, <2>2, SettledKept DEF Abort, Finish, LossInv, TypeOK
    <2> QED
      BY <2>1, <2>3 DEF LossInv
  <1> QED
    BY <1>1, <1>2, <1>3, <1>4, <1>5, <1>6 DEF Next

\* No change is lost, whatever jobs run and whatever rows they hold: when
\* nothing is owed, the row of an onboarded customer shows Stripe's state.
THEOREM NoChangeLost == ASSUME Onboarded PROVE Spec => []QuiescentMirror
  <1> DEFINE Inv == TypeInv /\ SyncInv /\ LossInv
  <1>1. Init => Inv
    BY TypeInit, SyncInit, LossInit
  <1>2. Inv /\ [Next]_vars => Inv'
    BY TypeNext, SyncNext, LossNext
  <1>3. Inv => QuiescentMirror
    BY DEF QuiescentMirror, LossInv, Owed, Settled, Underway
  <1> HIDE DEF Inv
  <1> QED
    BY <1>1, <1>2, <1>3, PTL DEF Spec

---------------------------------------------------------------------------
(* The grace clock and the audit trail *)

\* What a worker of these jobs commits is its target, over the row as it is.
LEMMA CommitIs ==
    ASSUME TypeInv, LockInv, FreshInv, NEW w \in Workers, WriteAndCommit(w)
    PROVE  /\ row' = Target(w) /\ Target(w) \in Row
           /\ loaded[w] = row /\ row \in Row /\ now \in Nat
           /\ Project(hist[answer[w]]) \in Mirrored
           /\ audit' = [from |-> Snapshot(row), to |-> Snapshot(row')]
           /\ \E r \in Row :
                 /\ r.pastDueSince = row.pastDueSince
                 /\ row' = Write(r, Project(hist[answer[w]]), now)
  <1> USE DEF TypeInv
  <1>1. pc[w] = "write" /\ loaded[w] = row /\ row.present
    BY DEF WriteAndCommit, LockInv, FreshInv
  <1>2. /\ Target(w) \in Row /\ Target(w).present
        /\ Project(hist[answer[w]]) \in Mirrored /\ row \in Row /\ now \in Nat
    BY <1>1, TargetType DEF TypeOK
  <1>3. row' = Target(w)
    BY <1>1, <1>2, FlushFresh DEF WriteAndCommit
  <1> DEFINE ours == [row EXCEPT !.cust = TRUE, !.disputed = @ \/ job[w] = "disputed"]
  <1>4. Target(w) = Write(ours, Project(hist[answer[w]]), now)
    BY <1>1 DEF Target
  <1>5. ours \in Row /\ ours.pastDueSince = row.pastDueSince
    BY <1>2 DEF Row
  <1>6. audit' = [from |-> Snapshot(row), to |-> Snapshot(row')]
    BY <1>1, <1>3 DEF WriteAndCommit
  <1> HIDE DEF ours
  <1> QED
    BY <1>1, <1>2, <1>3, <1>4, <1>5, <1>6

\* No other step touches the row of an onboarded customer, but extend_grace.
LEMMA RowMoves ==
    ASSUME TypeInv, LockInv, [Next]_vars, row' # row
    PROVE  \E w \in Workers : WriteAndCommit(w) \/ ExtendGrace(w)
  BY DEF Next, vars, StripeChanges, Tick, MySubscription, dbVars, Start,
         StartWebhook, StartDispute, StartResync, StartExtendGrace,
         StartCancel, StartResume, StartReconcile, Become, Step, AskStripe,
         Compare, MarkDisputed, SelectForUpdate, SelectNothing, FetchLocked,
         FetchUnlocked, Attach, FlushAttach, Relock, Abort, LockInv

\* The jobs of which neither moves the clock by hand.
ClockJobs == {"webhook", "dispute"}

\* Nobody is about to move it, and it runs in dunning and at no other time.
ClockInv ==
    /\ ClockOnlyInDunning
    /\ \A w \in Workers : pc[w] # "flush_grace"

LEMMA WriteClock ==
    ASSUME NEW r \in Row, NEW state \in Mirrored, NEW t \in Nat
    PROVE  LET after == Write(r, state, t)
           IN  /\ (after.pastDueSince # NoTime) <=> (after.status = "past_due")
               /\ r.pastDueSince # NoTime /\ after.status = "past_due"
                     => after.pastDueSince = r.pastDueSince
  <1>1. t # NoTime
    BY TimeAssumption
  <1>2. /\ Write(r, state, t).status = state.status
        /\ Write(r, state, t).pastDueSince =
              IF state.status # "past_due" THEN NoTime
              ELSE IF r.pastDueSince = NoTime THEN t ELSE r.pastDueSince
    BY DEF Write, Row
  <1> QED
    BY <1>1, <1>2

LEMMA ClockInit == ASSUME Onboarded, Init PROVE ClockInv
  <1>1. PICK r \in RemoteStates : hist = <<r>>
    BY DEF Init
  <1>2. hist[1] \in RemoteOrNone
    BY <1>1
  <1>3. [SignupRow EXCEPT !.cust = TRUE] \in Row
    BY RowConstants DEF Row
  <1>4. row = Write([SignupRow EXCEPT !.cust = TRUE], Project(hist[1]), 0)
    BY DEF Init
  <1>5. Project(hist[1]) \in Mirrored /\ 0 \in Nat
    BY <1>2, ProjectType
  <1>6. ClockOnlyInDunning
    BY <1>3, <1>4, <1>5, WriteClock DEF ClockOnlyInDunning
  <1> QED
    BY <1>6 DEF Init, ClockInv

LEMMA ClockNext ==
    ASSUME Jobs \subseteq ClockJobs
    PROVE  TypeInv /\ LockInv /\ FreshInv /\ ClockInv /\ [Next]_vars => ClockInv'
  <1> SUFFICES ASSUME TypeInv, LockInv, FreshInv, ClockInv, [Next]_vars
               PROVE  ClockInv'
    OBVIOUS
  <1>1. \A w \in Workers : ~ExtendGrace(w)
    BY DEF ExtendGrace, ClockInv
  <1>2. ClockOnlyInDunning'
    <2>1. CASE row' = row
      BY <2>1 DEF ClockInv, ClockOnlyInDunning
    <2>2. CASE row' # row
      <3>1. PICK w \in Workers : WriteAndCommit(w)
        BY <1>1, <2>2, RowMoves
      <3>2. PICK r \in Row : row' = Write(r, Project(hist[answer[w]]), now)
        BY <3>1, CommitIs
      <3>3. Project(hist[answer[w]]) \in Mirrored /\ now \in Nat
        BY <3>1, CommitIs
      <3> QED
        BY <3>2, <3>3, WriteClock DEF ClockOnlyInDunning
    <2> QED
      BY <2>1, <2>2
  <1>3. \A w \in Workers : pc'[w] # "flush_grace"
    <2>1. \A w \in Workers : ~StartExtendGrace(w)
      BY DEF StartExtendGrace, Become, ClockJobs
    <2>2. pc \in [Workers -> Steps] /\ \A w \in Workers : pc[w] # "flush_grace"
      BY DEF ClockInv, TypeInv, TypeOK
    <2>3. \/ pc' = pc
          \/ \E w \in Workers, step \in Steps \ {"flush_grace"} : Go(w, step)
      <3>1. CASE StripeChanges \/ Tick \/ MySubscription \/ UNCHANGED vars
        BY <3>1 DEF StripeChanges, Tick, MySubscription, workerVars, vars
      <3>2. ASSUME NEW w \in Workers, Start(w)
            PROVE  \E step \in Steps \ {"flush_grace"} : Go(w, step)
        BY <2>1, <3>2 DEF Start, StartWebhook, StartDispute, StartResync,
           StartCancel, StartResume, StartReconcile, Become, Go, Steps
      <3>3. ASSUME NEW w \in Workers, Step(w)
            PROVE  \E step \in Steps \ {"flush_grace"} : Go(w, step)
        BY <3>3 DEF Step, AskStripe, Compare, MarkDisputed, SelectForUpdate,
           SelectNothing, FetchLocked, FetchUnlocked, Attach, FlushAttach,
           Relock, WriteAndCommit, ExtendGrace, Finish, Go, Steps
      <3>4. ASSUME NEW w \in Workers, Abort(w)
            PROVE  \E step \in Steps \ {"flush_grace"} : Go(w, step)
        BY <3>4 DEF Abort, Finish, Go, Steps
      <3> QED
        BY <3>1, <3>2, <3>3, <3>4 DEF Next
    <2> QED
      BY <2>2, <2>3 DEF Go
  <1> QED
    BY <1>2, <1>3 DEF ClockInv

\* The grace clock runs exactly while the row is past_due (subscriptions.py:383-391).
THEOREM ClockRunsInDunning ==
    ASSUME Onboarded, Jobs \subseteq ClockJobs
    PROVE  Spec => []ClockOnlyInDunning
  <1> DEFINE Inv == TypeInv /\ SyncInv /\ FreshInv /\ ClockInv
  <1>1. Init => Inv
    BY TypeInit, SyncInit, FreshInit, ClockInit
  <1>2. Inv /\ [Next]_vars => Inv'
    BY TypeNext, SyncNext, FreshNext, ClockNext DEF SyncInv, ClockJobs, FreshJobs
  <1>3. Inv => ClockOnlyInDunning
    BY DEF ClockInv
  <1> HIDE DEF Inv
  <1> QED
    BY <1>1, <1>2, <1>3, PTL DEF Spec

\* A failed retry does not start the grace window again, whichever session
\* records it.
THEOREM RetryKeepsClock ==
    ASSUME Onboarded, Jobs \subseteq ClockJobs
    PROVE  Spec => GraceNotRestarted
  <1> DEFINE Inv == TypeInv /\ SyncInv /\ FreshInv /\ ClockInv
             Kept == (row.status = "past_due" /\ row'.status = "past_due"
                      /\ row.pastDueSince # NoTime)
                        => row'.pastDueSince = row.pastDueSince
  <1>1. Init => Inv
    BY TypeInit, SyncInit, FreshInit, ClockInit
  <1>2. Inv /\ [Next]_vars => Inv'
    BY TypeNext, SyncNext, FreshNext, ClockNext DEF SyncInv, ClockJobs, FreshJobs
  <1>3. Inv /\ [Next]_vars => [Kept]_row
    <2> SUFFICES ASSUME Inv, [Next]_vars, row' # row PROVE Kept
      OBVIOUS
    <2>1. PICK w \in Workers : WriteAndCommit(w)
      BY RowMoves DEF ClockInv, ExtendGrace, SyncInv
    <2>2. PICK r \in Row :
              /\ r.pastDueSince = row.pastDueSince
              /\ row' = Write(r, Project(hist[answer[w]]), now)
      BY <2>1, CommitIs DEF SyncInv
    <2>3. Project(hist[answer[w]]) \in Mirrored /\ now \in Nat
      BY <2>1, CommitIs DEF SyncInv
    <2> QED
      BY <2>2, <2>3, WriteClock
  <1> HIDE DEF Inv
  <1> QED
    BY <1>1, <1>2, <1>3, PTL DEF Spec, GraceNotRestarted

\* Each change of tier or status is in the audit trail as it happened: the
\* session compares with the row it locked.
THEOREM TrailIsComplete ==
    ASSUME Onboarded, Jobs \subseteq FreshJobs
    PROVE  Spec => EveryTransitionAudited
  <1> DEFINE Inv == TypeInv /\ SyncInv /\ FreshInv
             Audited == Snapshot(row') # Snapshot(row)
                          => audit'.from = Snapshot(row) /\ audit'.to = Snapshot(row')
  <1>1. Init => Inv
    BY TypeInit, SyncInit, FreshInit
  <1>2. Inv /\ [Next]_vars => Inv'
    BY TypeNext, SyncNext, FreshNext DEF SyncInv
  <1>3. Inv /\ [Next]_vars => [Audited]_row
    <2> SUFFICES ASSUME Inv, [Next]_vars, row' # row PROVE Audited
      OBVIOUS
    <2>1. PICK w \in Workers : WriteAndCommit(w) \/ ExtendGrace(w)
      BY RowMoves DEF SyncInv
    <2>2. CASE WriteAndCommit(w)
      BY <2>2, CommitIs DEF SyncInv
    <2>3. CASE ExtendGrace(w)
      <3>1. Snapshot(row') = Snapshot(row)
        BY <2>3 DEF ExtendGrace, Flush, Snapshot, TypeInv, TypeOK, Row
      <3> QED
        BY <3>1
    <2> QED
      BY <2>1, <2>2, <2>3
  <1> HIDE DEF Inv
  <1> QED
    BY <1>1, <1>2, <1>3, PTL DEF Spec, EveryTransitionAudited

---------------------------------------------------------------------------
(* A customer without a row *)

\* Stripe's answer v was of a subscription to record.
Ours(v) ==
    v \in 1..Len(hist) /\ BelongsToThisService(hist[v]) /\ ~hist[v].orphaned

\* Whoever is to write has seen a subscription of ours, or locked a row that
\* records one and has an answer no older than what it shows.
Entitled(w) ==
    \/ Ours(answer[w])
    \/ lock = w /\ row.cust /\ synced <= answer[w]

RecordInv ==
    /\ row.cust => row.present /\ \E v \in 1..synced : Ours(v)
    /\ \A w \in Workers :
          /\ loaded[w].cust => row.cust
          /\ pc[w] \in {"attach", "flush_attach", "relock"} => Ours(answer[w])
          /\ pc[w] = "fetch" => lock = w /\ row.cust
          /\ pc[w] = "write" => Entitled(w)

LEMMA RecordInit == ASSUME ~Onboarded, Init PROVE RecordInv
  BY DEF Init, RecordInv, NoRow

\* A step of w that leaves row and history alone takes no lock from anybody.
LEMMA RecordKept ==
    ASSUME TypeInv, RecordInv, NEW w \in Workers,
           UNCHANGED <<hist, row, synced>>,
           \A v \in Workers \ {w} :
              /\ pc'[v] = pc[v] /\ loaded'[v] = loaded[v] /\ answer'[v] = answer[v]
              /\ lock = v => lock' = v,
           loaded'[w].cust => row.cust,
           pc'[w] \in {"attach", "flush_attach", "relock"} => Ours(answer'[w]),
           pc'[w] = "fetch" => lock' = w /\ row.cust,
           pc'[w] = "write" =>
              Ours(answer'[w]) \/ (lock' = w /\ row.cust /\ synced <= answer'[w])
    PROVE  RecordInv'
  BY DEF RecordInv, Entitled, Ours

\* What a sync writes, and what extend_grace does, keeps the customer id.
LEMMA FlushKeepsCustomer ==
    ASSUME NEW s, NEW b, NEW a,
           a.cust \in BOOLEAN, b.cust \in BOOLEAN, s.cust \in BOOLEAN,
           b.cust => s.cust
    PROVE  /\ Flush(s, b, a).present
           /\ a.cust => Flush(s, b, a).cust
           /\ a.cust = b.cust => Flush(s, b, a).cust = s.cust
  BY DEF Flush

\* A job starts empty-handed or with the row as it is, before any answer.
LEMMA Started ==
    ASSUME TypeInv, RecordInv, NEW w \in Workers, NEW j,
           NEW step \in {"select", "mark", "flush_grace", "ask_stripe", "compare"},
           NEW object, NEW version, object.cust => row.cust,
           Become(w, j, step, object, version)
    PROVE  RecordInv'
  <1>1. /\ pc' = [pc EXCEPT ![w] = step]
        /\ loaded' = [loaded EXCEPT ![w] = object]
        /\ answer' = [answer EXCEPT ![w] = version]
        /\ UNCHANGED <<hist, row, synced, lock>>
    BY DEF Become, dbVars
  <1>2. pc'[w] = step /\ loaded'[w] = object
    BY <1>1 DEF TypeInv, TypeOK
  <1>3. \A v \in Workers \ {w} :
           /\ pc'[v] = pc[v] /\ loaded'[v] = loaded[v] /\ answer'[v] = answer[v]
           /\ lock = v => lock' = v
    BY <1>1 DEF TypeInv, TypeOK
  <1>4. step \notin {"attach", "flush_attach", "relock", "fetch", "write"}
    OBVIOUS
  <1> QED
    BY <1>1, <1>2, <1>3, <1>4, RecordKept

LEMMA RecordStart ==
    ASSUME TypeInv, RecordInv, NEW w \in Workers, Start(w) PROVE RecordInv'
  <1>0. ~NoRow.cust
    BY DEF NoRow
  <1>1. CASE StartWebhook(w)
    BY <1>0, <1>1, Started DEF StartWebhook
  <1>2. CASE StartDispute(w)
    <2>1. CASE row.cust
      <3>1. Become(w, "dispute", "mark", row, 0)
        BY <1>2, <2>1 DEF StartDispute
      <3> QED
        BY <3>1, Started
    <2>2. CASE ~row.cust
      <3>1. Become(w, "dispute", "select", NoRow, 0)
        BY <1>2, <2>2 DEF StartDispute
      <3> QED
        BY <1>0, <3>1, Started
    <2> QED
      BY <2>1, <2>2
  <1>3. CASE StartResync(w)
    BY <1>3, Started DEF StartResync
  <1>4. CASE StartExtendGrace(w)
    BY <1>4, Started DEF StartExtendGrace
  <1>5. CASE StartCancel(w)
    BY <1>5, Started DEF StartCancel
  <1>6. CASE StartResume(w)
    BY <1>6, Started DEF StartResume
  <1>7. CASE StartReconcile(w)
    BY <1>0, <1>7, Started DEF StartReconcile
  <1> QED
    BY <1>1, <1>2, <1>3, <1>4, <1>5, <1>6, <1>7 DEF Start

LEMMA RecordStep ==
    ASSUME TypeInv, RecordInv, NEW w \in Workers, Step(w) PROVE RecordInv'
  <1> USE DEF TypeInv
  <1>0. ~NoRow.cust
    BY DEF NoRow
  <1>1. CASE AskStripe(w)
    <2>1. /\ Len(hist') >= Len(hist)
          /\ \A v \in 1..Len(hist) : hist'[v] = hist[v]
      BY <1>1 DEF AskStripe, stripeVars, TypeOK
    <2>2. \A v : Ours(v) => Ours(v)'
      BY <2>1 DEF Ours, TypeOK
    <2>3. /\ pc' = [pc EXCEPT ![w] = "select"]
          /\ UNCHANGED <<row, lock, synced, loaded, answer>>
      BY <1>1 DEF AskStripe, Go, dbVars
    <2> QED
      BY <2>2, <2>3 DEF RecordInv, Entitled, TypeOK
  <1>2. CASE Compare(w)
    <2>1. /\ UNCHANGED <<hist, row, synced, lock>>
          /\ \A v \in Workers \ {w} :
                pc'[v] = pc[v] /\ loaded'[v] = loaded[v] /\ answer'[v] = answer[v]
      BY <1>2 DEF Compare, Go, Finish, stripeVars, dbVars, TypeOK
    <2>2. pc'[w] \in {"select", "idle"} /\ loaded'[w] \in {row, NoRow}
      <3>1. CASE Go(w, "select") /\ loaded' = [loaded EXCEPT ![w] =
                                       IF row.cust THEN row ELSE NoRow]
        BY <3>1 DEF Go, TypeOK
      <3>2. CASE Finish(w)
        BY <3>2 DEF Finish, TypeOK
      <3> QED
        BY <1>2, <3>1, <3>2 DEF Compare
    <2>3. loaded'[w].cust => row.cust
      BY <1>0, <2>2
    <2> QED
      BY <2>1, <2>2, <2>3, RecordKept
  <1>3. CASE MarkDisputed(w)
    BY <1>0, <1>3, RecordKept DEF MarkDisputed, Go, stripeVars, TypeOK
  <1>4. CASE SelectForUpdate(w)
    BY <1>4, RecordKept DEF SelectForUpdate, Go, stripeVars, TypeOK
  <1>5. CASE SelectNothing(w)
    BY <1>5, RecordKept DEF SelectNothing, Go, stripeVars, dbVars, TypeOK, RecordInv
  <1>6. CASE FetchLocked(w)
    <2>1. pc[w] = "fetch" /\ lock = w /\ row.cust /\ synced <= Len(hist)
          /\ (loaded[w].cust => row.cust)
      BY <1>6 DEF FetchLocked, RecordInv, TypeOK
    <2>2. answer'[w] = Len(hist) /\ pc'[w] = "write"
      BY <1>6 DEF FetchLocked, Go, TypeOK
    <2> QED
      BY <1>6, <2>1, <2>2, RecordKept
         DEF FetchLocked, Go, stripeVars, dbVars, TypeOK
  <1>7. CASE FetchUnlocked(w)
    <2>1. CASE Finish(w)
      BY <1>0, <1>7, <2>1, RecordKept
         DEF FetchUnlocked, Finish, stripeVars, dbVars, TypeOK
    <2>2. CASE /\ BelongsToThisService(StripeNow) /\ ~StripeNow.orphaned
               /\ answer' = [answer EXCEPT ![w] = Len(hist)]
               /\ Go(w, "attach") /\ UNCHANGED <<job, loaded>>
      <3>1. Ours(Len(hist))
        BY <2>2 DEF Ours, StripeNow, TypeOK
      <3>2. answer'[w] = Len(hist) /\ pc'[w] = "attach" /\ hist' = hist
        BY <1>7, <2>2 DEF FetchUnlocked, Go, stripeVars, TypeOK
      <3>3. loaded[w].cust => row.cust
        BY DEF RecordInv
      <3> QED
        BY <1>7, <2>2, <3>1, <3>2, <3>3, RecordKept
           DEF FetchUnlocked, Go, stripeVars, dbVars, TypeOK
    <2> QED
      BY <1>7, <2>1, <2>2 DEF FetchUnlocked
  <1>8. CASE Attach(w)
    <2>1. Ours(answer[w])
      BY <1>8 DEF Attach, RecordInv
    <2> QED
      BY <1>8, <2>1, RecordKept DEF Attach, Go, stripeVars, dbVars, TypeOK
  <1>9. CASE FlushAttach(w)
    <2>1. Ours(answer[w]) /\ (loaded[w].cust => row.cust)
      BY <1>9 DEF FlushAttach, RecordInv
    <2>2. /\ UNCHANGED <<hist, row, synced, loaded, answer>>
          /\ \A v \in Workers \ {w} : pc'[v] = pc[v]
          /\ lock \in {lock', NoWorker}
          /\ pc'[w] \in {"write", "relock"}
      BY <1>9 DEF FlushAttach, Go, stripeVars, TypeOK
    <2>3. \A v \in Workers \ {w} : lock = v => lock' = v
      BY <2>2
    <2> QED
      BY <2>1, <2>2, <2>3, RecordKept
  <1>10. CASE Relock(w)
    <2>1. Ours(answer[w])
      BY <1>10 DEF Relock, RecordInv
    <2> QED
      BY <1>10, <2>1, RecordKept DEF Relock, Go, stripeVars, TypeOK
  <1>11. CASE WriteAndCommit(w)
    <2>1. pc[w] = "write" /\ lock \in {NoWorker, w} /\ Entitled(w)
          /\ answer[w] \in 1..Len(hist)
      BY <1>11 DEF WriteAndCommit, RecordInv, AnswerOK
    <2>2. row'.cust /\ row'.present
      <3>1. Target(w) \in Row /\ Target(w).cust /\ Target(w).present
        BY <2>1, TargetType
      <3>2. loaded[w] \in Row /\ row \in Row /\ (loaded[w].cust => row.cust)
        BY DEF TypeOK, RecordInv
      <3>3. CASE loaded[w].present
        <4>1. row' = Flush(row, loaded[w], Target(w))
          BY <1>11, <3>3 DEF WriteAndCommit
        <4>2. /\ Target(w).cust \in BOOLEAN /\ loaded[w].cust \in BOOLEAN
              /\ row.cust \in BOOLEAN
          BY <3>1, <3>2 DEF Row
        <4>3. LET f == Flush(row, loaded[w], Target(w))
              IN  f.present /\ (Target(w).cust => f.cust)
          BY <3>2, <4>2, FlushKeepsCustomer
        <4> QED
          BY <3>1, <4>1, <4>3
      <3>4. CASE ~loaded[w].present
        BY <1>11, <3>1, <3>4 DEF WriteAndCommit
      <3> QED
        BY <3>3, <3>4
    <2>3. synced' = answer[w] /\ hist' = hist
      BY <1>11 DEF WriteAndCommit, stripeVars
    <2>4. \E v \in 1..synced' : Ours(v)
      <3>1. CASE Ours(answer[w])
        <4>1. answer[w] \in 1..synced'
          BY <2>1, <2>3 DEF TypeOK
        <4> QED
          BY <3>1, <4>1
      <3>2. CASE row.cust /\ synced <= answer[w]
        <4>1. PICK v \in 1..synced : Ours(v)
          BY <3>2 DEF RecordInv
        <4>2. v \in 1..synced'
          BY <2>1, <2>3, <3>2, <4>1 DEF TypeOK
        <4> QED
          BY <4>1, <4>2
      <3> QED
        BY <2>1, <3>1, <3>2 DEF Entitled
    <2>5. \A v : Ours(v)' <=> Ours(v)
      BY <2>3 DEF Ours
    <2>6. /\ \A v \in Workers \ {w} :
                pc'[v] = pc[v] /\ loaded'[v] = loaded[v] /\ answer'[v] = answer[v]
          /\ pc'[w] = "idle" /\ loaded'[w] = NoRow
      BY <1>11 DEF WriteAndCommit, Finish, TypeOK
    <2>7. ASSUME NEW v \in Workers \ {w}
          PROVE  /\ loaded'[v].cust => row'.cust
                 /\ pc'[v] \in {"attach", "flush_attach", "relock"} => Ours(answer[v])
                 /\ pc'[v] # "fetch"
                 /\ pc'[v] = "write" => Ours(answer[v])
      <3>1. lock # v
        BY <2>1
      <3> QED
        BY <2>2, <2>5, <2>6, <3>1 DEF RecordInv, Entitled
    <2>8. \E v \in 1..synced' : Ours(v)'
      BY <2>4, <2>5
    <2>9. ASSUME NEW v \in Workers
          PROVE  /\ loaded'[v].cust => row'.cust
                 /\ pc'[v] \in {"attach", "flush_attach", "relock"} => Ours(answer[v])'
                 /\ pc'[v] # "fetch"
                 /\ pc'[v] = "write" => Entitled(v)'
      <3>1. CASE v = w
        BY <2>2, <2>6, <3>1
      <3>2. CASE v # w
        BY <2>5, <2>6, <2>7, <3>2 DEF Entitled, Ours
      <3> QED
        BY <3>1, <3>2
    <2> QED
      BY <2>2, <2>8, <2>9 DEF RecordInv
  <1>12. CASE ExtendGrace(w)
    <2>1. row'.cust = row.cust /\ row'.present
      <3>1. row \in Row /\ loaded[w] \in Row /\ (loaded[w].cust => row.cust)
        BY DEF TypeOK, RecordInv
      <3>0. PICK days \in Extensions :
               row' = Flush(row, loaded[w],
                            [loaded[w] EXCEPT !.pastDueSince = @ + days])
        BY <1>12 DEF ExtendGrace
      <3> DEFINE moved == [loaded[w] EXCEPT !.pastDueSince = @ + days]
      <3>2. moved.cust = loaded[w].cust /\ row' = Flush(row, loaded[w], moved)
        BY <3>0, <3>1 DEF Row
      <3>3. row.cust \in BOOLEAN /\ loaded[w].cust \in BOOLEAN
        BY <3>1 DEF Row
      <3> HIDE DEF moved
      <3> QED
        BY <3>1, <3>2, <3>3, FlushKeepsCustomer
    <2>2. /\ UNCHANGED <<hist, lock, synced>>
          /\ \A v \in Workers \ {w} :
                pc'[v] = pc[v] /\ loaded'[v] = loaded[v] /\ answer'[v] = answer[v]
          /\ pc'[w] = "idle" /\ loaded'[w] = NoRow
      BY <1>12 DEF ExtendGrace, Finish, stripeVars, TypeOK
    <2> QED
      BY <1>0, <2>1, <2>2 DEF RecordInv, Entitled, Ours
  <1> QED
    BY <1>1, <1>2, <1>3, <1>4, <1>5, <1>6, <1>7, <1>8, <1>9, <1>10, <1>11,
       <1>12 DEF Step

LEMMA RecordNext == TypeInv /\ RecordInv /\ [Next]_vars => RecordInv'
  <1> SUFFICES ASSUME TypeInv, RecordInv, [Next]_vars PROVE RecordInv'
    OBVIOUS
  <1> USE DEF TypeInv
  <1>1. CASE StripeChanges
    <2>1. /\ Len(hist') >= Len(hist)
          /\ \A v \in 1..Len(hist) : hist'[v] = hist[v]
      BY <1>1 DEF StripeChanges, TypeOK
    <2>2. \A v : Ours(v) => Ours(v)'
      BY <2>1 DEF Ours, TypeOK
    <2>3. UNCHANGED <<row, lock, synced, pc, loaded, answer>>
      BY <1>1 DEF StripeChanges, dbVars, workerVars
    <2> QED
      BY <2>2, <2>3 DEF RecordInv, Entitled
  <1>2. CASE Tick \/ UNCHANGED vars
    BY <1>2 DEF Tick, stripeVars, dbVars, workerVars, vars, RecordInv, Entitled, Ours
  <1>3. CASE MySubscription
    <2>1. ~row.cust /\ ~SignupRow.cust /\ SignupRow.present
      BY <1>3 DEF MySubscription, RecordInv, SignupRow, NoRow
    <2>2. row' = SignupRow /\ UNCHANGED <<hist, lock, synced, pc, loaded, answer>>
      BY <1>3 DEF MySubscription, stripeVars, workerVars
    <2> QED
      BY <2>1, <2>2 DEF RecordInv, Entitled, Ours
  <1>4. ASSUME NEW w \in Workers, Start(w) PROVE RecordInv'
    BY <1>4, RecordStart
  <1>5. ASSUME NEW w \in Workers, Step(w) PROVE RecordInv'
    BY <1>5, RecordStep
  <1>6. ASSUME NEW w \in Workers, Abort(w) PROVE RecordInv'
    <2>1. ~NoRow.cust
      BY DEF NoRow
    <2> QED
      BY <1>6, <2>1, RecordKept DEF Abort, Finish, Unlocked, TypeOK
  <1> QED
    BY <1>1, <1>2, <1>3, <1>4, <1>5, <1>6 DEF Next

\* Whatever jobs run, a customer gets into the table only with a subscription
\* on one of our prices and of an account that exists (subscriptions.py:227-258).
THEOREM NoStrangerRecorded ==
    ASSUME ~Onboarded PROVE Spec => []OnlyOursRecorded
  <1>1. RecordInv => OnlyOursRecorded
    BY DEF RecordInv, OnlyOursRecorded, Ours
  <1> QED
    BY <1>1, TypeInit, TypeNext, RecordInit, RecordNext, PTL DEF Spec

---------------------------------------------------------------------------
(* The row is Stripe's, whatever jobs race and whatever was loaded before *)
(* the lock                                                               *)

Columns == {"tier", "status", "cancel"}

\* Each mirrored column of r has been Stripe's own at some time, perhaps not
\* all at the same time.
Heard(r, past) ==
    \A c \in Columns :
        \E v \in 1..Len(past) : MirrorOf(r)[c] = Project(past[v])[c]

\* Before a customer is attached, rows are the ones get_or_create inserts.
\* An object a session holds is one the table has held; and the session that
\* writes without holding one is the only one that can create the row.
HeardInv ==
    /\ row.cust => row.present /\ Heard(row, hist)
    /\ ~row.cust => row \in {NoRow, SignupRow}
    /\ \A w \in Workers :
          /\ loaded[w].cust => row.cust /\ loaded[w].present /\ Heard(loaded[w], hist)
          /\ ~loaded[w].cust => loaded[w] \in {NoRow, SignupRow}
          /\ pc[w] = "flush_grace" => loaded[w].cust
          /\ pc[w] = "fetch" => loaded[w].present
          /\ pc[w] = "relock" => row.present
          /\ pc[w] = "write" /\ ~loaded[w].present => lock = w /\ ~row.present

\* Stripe's past does not change.
Grown == /\ Len(hist') >= Len(hist)
         /\ \A v \in 1..Len(hist) : hist'[v] = hist[v]

LEMMA HeardGrows ==
    ASSUME TypeOK, TypeOK', Grown PROVE \A r : Heard(r, hist) => Heard(r, hist')
  <1> SUFFICES ASSUME NEW r, Heard(r, hist), NEW c \in Columns
               PROVE  \E v \in 1..Len(hist') :
                         MirrorOf(r)[c] = Project(hist'[v])[c]
    BY DEF Heard
  <1>1. PICK v \in 1..Len(hist) : MirrorOf(r)[c] = Project(hist[v])[c]
    BY DEF Heard
  <1>2. v \in 1..Len(hist') /\ hist'[v] = hist[v]
    <2>1. Len(hist) \in Nat
      BY DEF TypeOK
    <2>2. Len(hist') \in Nat
      BY DEF TypeOK
    <2> QED
      BY <1>1, <2>1, <2>2 DEF Grown
  <1> QED
    BY <1>1, <1>2

LEMMA AskStripeGrows ==
    ASSUME TypeOK, NEW w \in Workers, AskStripe(w)
    PROVE  Grown /\ pending' >= pending
  <1>0. hist \in Seq(RemoteOrNone) /\ pending \in Nat
    BY DEF TypeOK
  <1>1. CASE UNCHANGED stripeVars
    BY <1>0, <1>1 DEF stripeVars, Grown
  <1>2. ASSUME NEW r, hist' = Append(hist, r), pending' = pending + 1
        PROVE  Grown /\ pending' >= pending
    <2>1. /\ Len(hist') = Len(hist) + 1 /\ Len(hist) \in Nat
          /\ \A v \in 1..Len(hist) : hist'[v] = hist[v]
      BY <1>0, <1>2
    <2> QED
      BY <1>0, <1>2, <2>1 DEF Grown
  <1> QED
    BY <1>1, <1>2 DEF AskStripe

LEMMA UnattachedRows ==
    /\ ~NoRow.cust /\ ~NoRow.present /\ ~NoRow.disputed
    /\ ~SignupRow.cust /\ SignupRow.present /\ ~SignupRow.disputed
    /\ MirrorOf(NoRow) = NoSubscription /\ MirrorOf(SignupRow) = NoSubscription
    /\ NoRow.pastDueSince = NoTime /\ SignupRow.pastDueSince = NoTime
  BY DEF NoRow, SignupRow, MirrorOf, NoSubscription

LEMMA HeardInit == Init => HeardInv
  <1> SUFFICES ASSUME Init PROVE HeardInv
    OBVIOUS
  <1>1. loaded = [w \in Workers |-> NoRow] /\ pc = [w \in Workers |-> "idle"]
    BY DEF Init
  <1>2. CASE Onboarded
    <2>1. PICK r \in RemoteStates : hist = <<r>>
      BY DEF Init
    <2>2. hist[1] \in RemoteOrNone /\ Len(hist) = 1
      BY <2>1
    <2> DEFINE attached == [SignupRow EXCEPT !.cust = TRUE]
    <2>3. attached \in Row /\ attached.cust /\ attached.present
      BY RowConstants, UnattachedRows DEF Row
    <2>4. row = Write(attached, Project(hist[1]), 0)
      BY <1>2 DEF Init
    <2>5. Project(hist[1]) \in Mirrored /\ 0 \in Nat
      BY <2>2, ProjectType
    <2>6. MirrorOf(row) = Project(hist[1]) /\ row.cust /\ row.present
      <3> HIDE DEF attached
      <3> QED
        BY <2>3, <2>4, <2>5, WriteMirrors
    <2>7. Heard(row, hist)
      BY <2>2, <2>6 DEF Heard
    <2> QED
      BY <1>1, <2>6, <2>7, UnattachedRows DEF HeardInv
  <1>3. CASE ~Onboarded
    BY <1>1, <1>3, UnattachedRows DEF Init, HeardInv
  <1> QED
    BY <1>2, <1>3 DEF FlagAssumption

\* A step that leaves the row alone gives a session at most the row itself,
\* and the lock is not taken from the session that creates it.
LEMMA HeardKept ==
    ASSUME TypeInv, TypeInv', HeardInv, NEW w \in Workers, UNCHANGED row, Grown,
           \A v \in Workers \ {w} :
              /\ pc'[v] = pc[v] /\ loaded'[v] = loaded[v]
              /\ lock = v => lock' = v,
           loaded'[w] \in {loaded[w], row, NoRow},
           pc'[w] = "flush_grace" => loaded'[w].cust,
           pc'[w] = "fetch" => loaded'[w].present,
           pc'[w] = "relock" => row.present,
           pc'[w] = "write" /\ ~loaded'[w].present => lock' = w /\ ~row.present
    PROVE  HeardInv'
  <1>1. \A r : Heard(r, hist) => Heard(r, hist')
    BY HeardGrows DEF TypeInv
  <1>2. row.cust => row.present /\ Heard(row, hist')
    BY <1>1 DEF HeardInv
  <1>3. ASSUME NEW v \in Workers
        PROVE  /\ loaded'[v].cust => row.cust /\ loaded'[v].present
                                     /\ Heard(loaded'[v], hist')
               /\ ~loaded'[v].cust => loaded'[v] \in {NoRow, SignupRow}
    <2>1. loaded'[v] \in {loaded[v], row, NoRow}
      OBVIOUS
    <2> QED
      BY <1>1, <2>1, UnattachedRows DEF HeardInv
  <1>4. ASSUME NEW v \in Workers
        PROVE  /\ pc'[v] = "flush_grace" => loaded'[v].cust
               /\ pc'[v] = "fetch" => loaded'[v].present
               /\ pc'[v] = "relock" => row'.present
               /\ pc'[v] = "write" /\ ~loaded'[v].present
                     => lock' = v /\ ~row'.present
    <2>1. CASE v = w
      BY <2>1
    <2>2. CASE v # w
      BY <2>2 DEF HeardInv
    <2> QED
      BY <2>1, <2>2
  <1> QED
    BY <1>2, <1>3, <1>4 DEF HeardInv

\* What a flush leaves of the mirrored columns, and of the others.
LEMMA FlushColumns ==
    ASSUME NEW s, NEW b, NEW a
    PROVE  LET f == Flush(s, b, a)
           IN  /\ \A c \in Columns :
                     MirrorOf(f)[c] = IF MirrorOf(a)[c] # MirrorOf(b)[c]
                                      THEN MirrorOf(a)[c] ELSE MirrorOf(s)[c]
               /\ f.present
               /\ f.disputed = IF a.disputed # b.disputed
                               THEN a.disputed ELSE s.disputed
  BY DEF Flush, MirrorOf, Columns

\* A commit leaves an attached row, each column of it Stripe's: the answer's,
\* or what the row had, if the session had the same.
LEMMA CommitHeard ==
    ASSUME TypeInv, HeardInv, NEW w \in Workers, WriteAndCommit(w)
    PROVE  row'.cust /\ row'.present /\ Heard(row', hist)
  <1> DEFINE said == Project(hist[answer[w]])
  <1>1. /\ Target(w) \in Row /\ Target(w).cust /\ Target(w).present
        /\ MirrorOf(Target(w)) = said
    BY TargetType DEF WriteAndCommit, TypeInv
  <1>2. Heard(Target(w), hist)
    <2>1. answer[w] \in 1..Len(hist)
      BY DEF WriteAndCommit, TypeInv, AnswerOK
    <2> QED
      BY <1>1, <2>1 DEF Heard
  <1>3. CASE ~loaded[w].present
    BY <1>1, <1>2, <1>3 DEF WriteAndCommit
  <1>4. CASE loaded[w].present
    <2>1. row' = Flush(row, loaded[w], Target(w))
      BY <1>4 DEF WriteAndCommit
    <2>2. row \in Row /\ loaded[w] \in Row /\ (loaded[w].cust => row.cust)
      BY DEF TypeInv, TypeOK, HeardInv
    <2>3. row'.cust /\ row'.present
      <3>1. /\ Target(w).cust \in BOOLEAN /\ loaded[w].cust \in BOOLEAN
            /\ row.cust \in BOOLEAN
        BY <1>1, <2>2 DEF Row
      <3>2. LET f == Flush(row, loaded[w], Target(w))
            IN  f.present /\ (Target(w).cust => f.cust)
        BY <2>2, <3>1, FlushKeepsCustomer
      <3> QED
        BY <1>1, <2>1, <3>2
    <2>4. \A c \in Columns :
             MirrorOf(row')[c] \in {MirrorOf(Target(w))[c], MirrorOf(row)[c]}
      BY <2>1, FlushColumns
    <2>5. CASE row.cust
      <3>1. Heard(row, hist)
        BY <2>5 DEF HeardInv
      <3> QED
        BY <1>2, <2>3, <2>4, <3>1 DEF Heard
    <2>6. CASE ~row.cust
      <3>1. MirrorOf(row) = MirrorOf(loaded[w])
        BY <2>2, <2>6, UnattachedRows DEF HeardInv
      <3>2. \A c \in Columns : MirrorOf(row')[c] = MirrorOf(Target(w))[c]
        BY <2>1, <3>1, FlushColumns
      <3> QED
        BY <1>2, <2>3, <3>2 DEF Heard
    <2> QED
      BY <2>5, <2>6
  <1> QED
    BY <1>3, <1>4

\* extend_grace moves the clock and no mirrored column.
LEMMA GraceHeard ==
    ASSUME TypeInv, HeardInv, NEW w \in Workers, ExtendGrace(w)
    PROVE  /\ row'.cust /\ row'.present /\ Heard(row', hist)
           /\ row'.disputed = row.disputed
  <1>0. PICK days \in Extensions :
           row' = Flush(row, loaded[w],
                        [loaded[w] EXCEPT !.pastDueSince = @ + days])
    BY DEF ExtendGrace
  <1> DEFINE moved == [loaded[w] EXCEPT !.pastDueSince = @ + days]
  <1>1. row \in Row /\ loaded[w] \in Row /\ row.cust /\ row.present
    BY DEF TypeInv, TypeOK, HeardInv, ExtendGrace
  <1>2. /\ row' = Flush(row, loaded[w], moved)
        /\ moved.cust = loaded[w].cust /\ moved.disputed = loaded[w].disputed
        /\ MirrorOf(moved) = MirrorOf(loaded[w])
    BY <1>0, <1>1 DEF Row, MirrorOf
  <1> HIDE DEF moved
  <1>3. row'.cust = row.cust /\ row'.present
    <2>1. /\ row.cust \in BOOLEAN /\ loaded[w].cust \in BOOLEAN
          /\ (loaded[w].cust => row.cust)
      BY <1>1 DEF Row
    <2> QED
      BY <1>2, <2>1, FlushKeepsCustomer
  <1>4. /\ \A c \in Columns : MirrorOf(row')[c] = MirrorOf(row)[c]
        /\ row'.disputed = row.disputed
    BY <1>2, FlushColumns
  <1>5. Heard(row, hist)
    BY <1>1 DEF HeardInv
  <1> QED
    BY <1>1, <1>3, <1>4, <1>5 DEF Heard

\* Once the row is attached, a finished worker and bystanders are in order.
LEMMA HeardFinish ==
    ASSUME TypeInv, HeardInv, NEW w \in Workers, Finish(w), UNCHANGED hist,
           row'.cust, row'.present, Heard(row', hist), lock \in {NoWorker, w}
    PROVE  HeardInv'
  <1>1. /\ \A v \in Workers \ {w} : pc'[v] = pc[v] /\ loaded'[v] = loaded[v]
        /\ pc'[w] = "idle" /\ loaded'[w] = NoRow
    BY DEF Finish, TypeInv, TypeOK
  <1>2. ASSUME NEW v \in Workers
        PROVE  /\ loaded'[v].cust => /\ row'.cust /\ loaded'[v].present
                                     /\ Heard(loaded'[v], hist)
               /\ ~loaded'[v].cust => loaded'[v] \in {NoRow, SignupRow}
               /\ pc'[v] = "flush_grace" => loaded'[v].cust
               /\ pc'[v] = "fetch" => loaded'[v].present
               /\ pc'[v] = "write" => loaded'[v].present
    <2>1. CASE v = w
      BY <1>1, <2>1, UnattachedRows
    <2>2. CASE v # w
      <3>1. lock # v
        BY <2>2
      <3> QED
        BY <1>1, <2>2, <3>1 DEF HeardInv
    <2> QED
      BY <2>1, <2>2
  <1> QED
    BY <1>2 DEF HeardInv

LEMMA HeardStart ==
    ASSUME TypeInv, TypeInv', HeardInv, NEW w \in Workers, Start(w)
    PROVE  HeardInv'
  <1>1. row.pastDueSince # NoTime \/ GrantsAccess(row.status)
           \/ row.status # "free" => row.cust
    <2>1. /\ NoRow.status = "free" /\ SignupRow.status = "free"
          /\ ~GrantsAccess("free")
      BY DEF NoRow, SignupRow, GrantsAccess, PaidStatuses
    <2> QED
      BY <2>1, UnattachedRows DEF HeardInv
  <1>2. PICK j \in AllJobs, step \in {"select", "mark", "flush_grace",
                                      "ask_stripe", "compare"},
             object \in {row, NoRow}, version \in Nat :
            /\ Become(w, j, step, object, version)
            /\ step = "flush_grace" => object.cust
    <2>1. 0 \in Nat /\ Len(hist) \in Nat
      BY DEF TypeInv, TypeOK
    <2> QED
      BY <1>1, <2>1 DEF Start, StartWebhook, StartDispute, StartResync,
         StartExtendGrace, StartCancel, StartResume, StartReconcile, AllJobs
  <1>3. /\ pc' = [pc EXCEPT ![w] = step]
        /\ loaded' = [loaded EXCEPT ![w] = object]
        /\ UNCHANGED <<hist, row, lock>>
    BY <1>2 DEF Become, dbVars
  <1>4. Grown
    BY <1>3 DEF Grown, TypeInv, TypeOK
  <1>5. pc'[w] = step /\ loaded'[w] = object
    BY <1>3 DEF TypeInv, TypeOK
  <1>6. \A v \in Workers \ {w} : /\ pc'[v] = pc[v] /\ loaded'[v] = loaded[v]
                                 /\ lock = v => lock' = v
    BY <1>3 DEF TypeInv, TypeOK
  <1> QED
    BY <1>2, <1>3, <1>4, <1>5, <1>6, HeardKept

LEMMA HeardStep ==
    ASSUME TypeInv, TypeInv', HeardInv, NEW w \in Workers, Step(w)
    PROVE  HeardInv'
  <1> USE DEF TypeInv
  <1>0. /\ UNCHANGED hist => Grown
        /\ loaded[w].cust => loaded[w].present
        /\ row.cust => row.present
    BY DEF Grown, TypeOK, HeardInv
  <1>1. CASE AskStripe(w)
    <2>1. Grown
      BY <1>1, AskStripeGrows
    <2>2. pc'[w] = "select" /\ UNCHANGED <<row, lock, loaded>>
          /\ \A v \in Workers \ {w} : pc'[v] = pc[v]
      BY <1>1 DEF AskStripe, Go, dbVars, TypeOK
    <2> QED
      BY <2>1, <2>2, HeardKept
  <1>2. CASE Compare(w)
    <2>1. /\ UNCHANGED <<hist, row, lock>>
          /\ \A v \in Workers \ {w} : pc'[v] = pc[v] /\ loaded'[v] = loaded[v]
      BY <1>2 DEF Compare, Go, Finish, stripeVars, dbVars, TypeOK
    <2>2. pc'[w] \in {"select", "idle"} /\ loaded'[w] \in {row, NoRow}
      <3>1. CASE Go(w, "select") /\ loaded' = [loaded EXCEPT ![w] =
                                       IF row.cust THEN row ELSE NoRow]
        BY <3>1 DEF Go, TypeOK
      <3>2. CASE Finish(w)
        BY <3>2 DEF Finish, TypeOK
      <3> QED
        BY <1>2, <3>1, <3>2 DEF Compare
    <2> QED
      BY <1>0, <2>1, <2>2, HeardKept
  <1>3. CASE MarkDisputed(w)
    <2>1. /\ UNCHANGED <<hist, row>> /\ lock = NoWorker
          /\ pc'[w] = "select" /\ loaded'[w] = NoRow
          /\ \A v \in Workers \ {w} : pc'[v] = pc[v] /\ loaded'[v] = loaded[v]
      BY <1>3 DEF MarkDisputed, Go, stripeVars, TypeOK
    <2> QED
      BY <1>0, <2>1, HeardKept
  <1>4. CASE SelectForUpdate(w)
    <2>1. /\ UNCHANGED <<hist, row>> /\ lock \in {NoWorker, w} /\ row.cust
          /\ pc'[w] = "fetch"
          /\ loaded'[w] = IF loaded[w].present THEN loaded[w] ELSE row
          /\ \A v \in Workers \ {w} : pc'[v] = pc[v] /\ loaded'[v] = loaded[v]
      BY <1>4 DEF SelectForUpdate, Go, stripeVars, TypeOK
    <2>2. loaded'[w] \in {loaded[w], row} /\ loaded'[w].present
      BY <1>0, <2>1
    <2>3. \A v \in Workers \ {w} : lock = v => lock' = v
      BY <2>1
    <2> QED
      BY <1>0, <2>1, <2>2, <2>3, HeardKept
  <1>5. CASE SelectNothing(w)
    <2>1. /\ UNCHANGED <<hist, row, lock, loaded>> /\ pc'[w] = "fetch_unlocked"
          /\ \A v \in Workers \ {w} : pc'[v] = pc[v]
      BY <1>5 DEF SelectNothing, Go, stripeVars, dbVars, TypeOK
    <2> QED
      BY <1>0, <2>1, HeardKept
  <1>6. CASE FetchLocked(w)
    <2>1. /\ UNCHANGED <<hist, row, lock, loaded>> /\ pc'[w] = "write"
          /\ \A v \in Workers \ {w} : pc'[v] = pc[v]
      BY <1>6 DEF FetchLocked, Go, stripeVars, dbVars, TypeOK
    <2>2. loaded[w].present
      BY <1>6 DEF FetchLocked, HeardInv
    <2> QED
      BY <1>0, <2>1, <2>2, HeardKept
  <1>7. CASE FetchUnlocked(w)
    <2>1. /\ UNCHANGED <<hist, row, lock>> /\ pc'[w] \in {"attach", "idle"}
          /\ loaded'[w] \in {loaded[w], NoRow}
          /\ \A v \in Workers \ {w} : pc'[v] = pc[v] /\ loaded'[v] = loaded[v]
      BY <1>7 DEF FetchUnlocked, Go, Finish, stripeVars, dbVars, TypeOK
    <2> QED
      BY <1>0, <2>1, HeardKept
  <1>8. CASE Attach(w)
    <2>1. /\ UNCHANGED <<hist, row, lock>> /\ pc'[w] = "flush_attach"
          /\ loaded'[w] = row
          /\ \A v \in Workers \ {w} : pc'[v] = pc[v] /\ loaded'[v] = loaded[v]
      BY <1>8 DEF Attach, Go, stripeVars, dbVars, TypeOK
    <2> QED
      BY <1>0, <2>1, HeardKept
  <1>9. CASE FlushAttach(w)
    <2>1. /\ UNCHANGED <<hist, row, loaded>>
          /\ \A v \in Workers \ {w} : pc'[v] = pc[v]
          /\ lock' # lock => lock = NoWorker
          /\ pc'[w] \in {"write", "relock"}
          /\ pc'[w] = "relock" => row.present
          /\ pc'[w] = "write" /\ ~loaded[w].cust
                => lock' = w /\ (loaded[w].present \/ ~row.present)
      BY <1>9 DEF FlushAttach, Go, stripeVars, TypeOK
    <2>2. pc'[w] = "write" /\ ~loaded[w].present => lock' = w /\ ~row.present
      BY <1>0, <2>1
    <2>3. \A v \in Workers \ {w} : lock = v => lock' = v
      BY <2>1
    <2> QED
      BY <1>0, <2>1, <2>2, <2>3, HeardKept
  <1>10. CASE Relock(w)
    <2>1. /\ UNCHANGED <<hist, row>> /\ pc'[w] = "write" /\ loaded'[w] = row
          /\ lock' # lock => lock = NoWorker
          /\ \A v \in Workers \ {w} : pc'[v] = pc[v] /\ loaded'[v] = loaded[v]
      BY <1>10 DEF Relock, Go, stripeVars, TypeOK
    <2>2. row.present
      BY <1>10 DEF Relock, HeardInv
    <2>3. \A v \in Workers \ {w} : lock = v => lock' = v
      BY <2>1
    <2> QED
      BY <1>0, <2>1, <2>2, <2>3, HeardKept
  <1>11. CASE WriteAndCommit(w)
    <2>1. Finish(w) /\ UNCHANGED hist /\ lock \in {NoWorker, w}
      BY <1>11 DEF WriteAndCommit, stripeVars
    <2>2. row'.cust /\ row'.present /\ Heard(row', hist)
      BY <1>11, CommitHeard
    <2> QED
      BY <2>1, <2>2, HeardFinish
  <1>12. CASE ExtendGrace(w)
    <2>1. Finish(w) /\ UNCHANGED hist /\ lock \in {NoWorker, w}
      BY <1>12 DEF ExtendGrace, stripeVars
    <2>2. row'.cust /\ row'.present /\ Heard(row', hist)
      BY <1>12, GraceHeard
    <2> QED
      BY <2>1, <2>2, HeardFinish
  <1> QED
    BY <1>1, <1>2, <1>3, <1>4, <1>5, <1>6, <1>7, <1>8, <1>9, <1>10, <1>11,
       <1>12 DEF Step

LEMMA HeardNext == TypeInv /\ HeardInv /\ [Next]_vars => HeardInv'
  <1> SUFFICES ASSUME TypeInv, HeardInv, [Next]_vars PROVE HeardInv'
    OBVIOUS
  <1>0. TypeInv' /\ (UNCHANGED hist => Grown)
    BY TypeNext DEF Grown, TypeInv, TypeOK
  <1>1. ASSUME Grown, UNCHANGED <<row, lock, pc, loaded>> PROVE HeardInv'
    <2>1. \A r : Heard(r, hist) => Heard(r, hist')
      BY <1>0, <1>1, HeardGrows DEF TypeInv
    <2> QED
      BY <1>1, <2>1 DEF HeardInv
  <1>2. CASE StripeChanges
    <2>1. Grown
      BY <1>2 DEF StripeChanges, TypeInv, TypeOK, Grown
    <2> QED
      BY <1>1, <1>2, <2>1 DEF StripeChanges, dbVars, workerVars
  <1>3. CASE Tick \/ UNCHANGED vars
    BY <1>0, <1>1, <1>3 DEF Tick, stripeVars, dbVars, workerVars, vars
  <1>4. CASE MySubscription
    <2>1. row' = SignupRow /\ UNCHANGED <<hist, lock, pc, loaded>>
      BY <1>4 DEF MySubscription, stripeVars, workerVars
    <2>2. ~row.present /\ lock = NoWorker
      BY <1>4 DEF MySubscription
    <2>3. \A w \in Workers : ~loaded[w].cust /\ pc[w] # "relock"
             /\ (pc[w] = "write" => loaded[w].present)
      BY <2>2 DEF HeardInv
    <2> QED
      BY <2>1, <2>3, UnattachedRows DEF HeardInv
  <1>5. ASSUME NEW w \in Workers, Start(w) PROVE HeardInv'
    BY <1>0, <1>5, HeardStart
  <1>6. ASSUME NEW w \in Workers, Step(w) PROVE HeardInv'
    BY <1>0, <1>6, HeardStep
  <1>7. ASSUME NEW w \in Workers, Abort(w) PROVE HeardInv'
    <2>1. /\ UNCHANGED <<hist, row>> /\ pc'[w] = "idle" /\ loaded'[w] = NoRow
          /\ \A v \in Workers \ {w} : pc'[v] = pc[v] /\ loaded'[v] = loaded[v]
      BY <1>7 DEF Abort, Finish, TypeInv, TypeOK
    <2>2. \A v \in Workers \ {w} : lock = v => lock' = v
      BY <1>7 DEF Abort, Unlocked
    <2> QED
      BY <1>0, <2>1, <2>2, HeardKept
  <1> QED
    BY <1>2, <1>3, <1>4, <1>5, <1>6, <1>7 DEF Next

\* Every mirrored column of a customer's row has been what Stripe said of it,
\* even where a session wrote from a row it loaded long before, and sent only
\* the columns that differed from it (subscriptions.py:276-292, 330-398).
ColumnsTrueOnce == row.cust => Heard(row, hist)

\* Nobody is put on a paid tier, by whatever race, unless Stripe has shown a
\* subscription of theirs, in good standing or dunning, to that tier.
PaidTierWasBought ==
    row.tier # "free" =>
        \E v \in 1..Len(hist) :
            /\ BelongsToThisService(hist[v])
            /\ GrantsAccess(StatusOf(hist[v].provider))
            /\ ResolveTier(hist[v]) = row.tier

\* A dispute on record is not lost to a sync that loaded the row before it
\* (mark_disputed, subscriptions.py:405-421).
DisputeKept == [][row.disputed => row'.disputed]_row

\* Whatever jobs run, however the row came to be: each column is Stripe's.
THEOREM ColumnsAreStripes == Spec => []ColumnsTrueOnce
  <1>1. HeardInv => ColumnsTrueOnce
    BY DEF HeardInv, ColumnsTrueOnce
  <1> QED
    BY <1>1, TypeInit, TypeNext, HeardInit, HeardNext, PTL DEF Spec

\* ... so a paid tier was always bought.
THEOREM NoTierUnbought == Spec => []PaidTierWasBought
  <1>1. TypeInv /\ HeardInv => PaidTierWasBought
    <2> SUFFICES ASSUME TypeInv, HeardInv, row.tier # "free"
                 PROVE  PaidTierWasBought
      BY DEF PaidTierWasBought
    <2>1. Heard(row, hist)
      BY DEF HeardInv, NoRow, SignupRow
    <2>2. PICK v \in 1..Len(hist) : MirrorOf(row)["tier"] = Project(hist[v])["tier"]
      BY <2>1 DEF Heard, Columns
    <2>3. row.tier = Project(hist[v]).tier
      BY <2>2 DEF MirrorOf
    <2>4. /\ GrantsAccess(StatusOf(hist[v].provider))
          /\ ResolveTier(hist[v]) # NoTier /\ ResolveTier(hist[v]) = row.tier
      BY <2>3 DEF Project, NoSubscription
    <2>5. hist[v] # NoRemote
      BY <2>4 DEF NoRemote, ResolveTier
    <2> QED
      BY <2>4, <2>5 DEF PaidTierWasBought, BelongsToThisService
  <1> QED
    BY <1>1, TypeInit, TypeNext, HeardInit, HeardNext, PTL DEF Spec

\* Whatever jobs run, a recorded dispute stays on record.
THEOREM DisputesStay == Spec => DisputeKept
  <1>1. TypeInv /\ HeardInv /\ [Next]_vars => [row.disputed => row'.disputed]_row
    <2> SUFFICES ASSUME TypeInv, HeardInv, [Next]_vars, row.disputed
                 PROVE  row'.disputed
      OBVIOUS
    <2>0. row.present
      BY UnattachedRows DEF HeardInv
    <2>1. CASE row' = row
      BY <2>1
    <2>2. ASSUME NEW w \in Workers, ExtendGrace(w) PROVE row'.disputed
      BY <2>2, GraceHeard
    <2>3. ASSUME NEW w \in Workers, WriteAndCommit(w) PROVE row'.disputed
      <3>1. loaded[w].present
        BY <2>0, <2>3 DEF HeardInv, WriteAndCommit
      <3>2. row' = Flush(row, loaded[w], Target(w))
        BY <2>3, <3>1 DEF WriteAndCommit
      <3>3. Target(w).disputed = (loaded[w].disputed \/ job[w] = "disputed")
        <4>1. loaded[w] \in Row
          BY DEF TypeInv, TypeOK
        <4> QED
          BY <3>1, <4>1 DEF Target, Write, Row
      <3>4. row'.disputed = IF Target(w).disputed # loaded[w].disputed
                            THEN Target(w).disputed ELSE row.disputed
        BY <3>2, FlushColumns
      <3>5. loaded[w].disputed \in BOOLEAN
        BY DEF TypeInv, TypeOK, Row
      <3>6. CASE loaded[w].disputed
        <4>1. Target(w).disputed
          BY <3>3, <3>6
        <4> QED
          BY <3>4, <4>1
      <3>7. CASE ~loaded[w].disputed /\ job[w] = "disputed"
        <4>1. Target(w).disputed
          BY <3>3, <3>7
        <4> QED
          BY <3>4, <4>1
      <3>8. CASE ~loaded[w].disputed /\ job[w] # "disputed"
        <4>1. Target(w).disputed = loaded[w].disputed
          BY <3>3, <3>5, <3>8
        <4> QED
          BY <3>4, <4>1
      <3> QED
        BY <3>6, <3>7, <3>8
    <2>4. CASE MySubscription
      BY <2>0, <2>4 DEF MySubscription
    <2> QED
      BY <2>1, <2>2, <2>3, <2>4 DEF Next, vars, StripeChanges, Tick, dbVars,
         Start, StartWebhook, StartDispute, StartResync, StartExtendGrace,
         StartCancel, StartResume, StartReconcile, Become, Step, AskStripe,
         Compare, MarkDisputed, SelectForUpdate, SelectNothing, FetchLocked,
         FetchUnlocked, Attach, FlushAttach, Relock, Abort
  <1> QED
    BY <1>1, TypeInit, TypeNext, HeardInit, HeardNext, PTL DEF Spec, DisputeKept

---------------------------------------------------------------------------
(* The lock is not leaked *)

\* Who holds the row's lock is between its SELECT ... FOR UPDATE, or the
\* UPDATE of mark_disputed, or the insert, and its commit: nobody keeps it
\* into another request, and nobody waits for a second lock with it.
LockHolderBusy ==
    lock # NoWorker => \/ pc[lock] \in {"fetch", "write"}
                       \/ pc[lock] = "select" /\ job[lock] = "disputed"

\* A dispute is marked on a row that is there to be locked afterwards.
BusyInv ==
    /\ LockHolderBusy
    /\ \A w \in Workers : pc[w] = "mark" \/ job[w] = "disputed" => row.cust

\* A session without the lock moves and does not take it.
LEMMA BusyKept ==
    ASSUME TypeInv, BusyInv, NEW w \in Workers, row.cust => row'.cust,
           \A v \in Workers \ {w} : pc'[v] = pc[v] /\ job'[v] = job[v],
           lock' \in {lock, NoWorker}, lock' # w,
           pc'[w] = "mark" \/ job'[w] = "disputed" => row'.cust
    PROVE  BusyInv'
  <1>1. lock' # NoWorker => lock' = lock /\ lock \in Workers \ {w}
    BY DEF TypeInv, TypeOK
  <1>2. ASSUME NEW v \in Workers
        PROVE  pc'[v] = "mark" \/ job'[v] = "disputed" => row'.cust
    <2>1. CASE v = w
      BY <2>1
    <2>2. CASE v # w
      BY <2>2 DEF BusyInv
    <2> QED
      BY <2>1, <2>2
  <1> QED
    BY <1>1, <1>2 DEF BusyInv, LockHolderBusy

\* The session that takes it, or keeps it, is at work on the row.
LEMMA BusyTaken ==
    ASSUME TypeInv, BusyInv, NEW w \in Workers, row.cust => row'.cust,
           \A v \in Workers \ {w} : pc'[v] = pc[v] /\ job'[v] = job[v],
           lock' = w,
           \/ pc'[w] \in {"fetch", "write"}
           \/ pc'[w] = "select" /\ job'[w] = "disputed",
           job'[w] = "disputed" => row'.cust
    PROVE  BusyInv'
  <1>1. ASSUME NEW v \in Workers
        PROVE  pc'[v] = "mark" \/ job'[v] = "disputed" => row'.cust
    <2>1. CASE v = w
      BY <2>1
    <2>2. CASE v # w
      BY <2>2 DEF BusyInv
    <2> QED
      BY <2>1, <2>2
  <1> QED
    BY <1>1 DEF BusyInv, LockHolderBusy

LEMMA BusyStart ==
    ASSUME TypeInv, BusyInv, NEW w \in Workers, Start(w) PROVE BusyInv'
  <1>1. PICK j \in AllJobs, step \in {"select", "mark", "flush_grace",
                                      "ask_stripe", "compare"} :
            /\ pc[w] = "idle"
            /\ job' = [job EXCEPT ![w] = j]
            /\ pc' = [pc EXCEPT ![w] = step]
            /\ UNCHANGED <<row, lock>>
            /\ step = "mark" => row.cust
    BY DEF Start, StartWebhook, StartDispute, StartResync, StartExtendGrace,
           StartCancel, StartResume, StartReconcile, Become, AllJobs, dbVars
  <1>2. lock # w
    BY <1>1 DEF BusyInv, LockHolderBusy
  <1>3. /\ pc'[w] = step /\ job'[w] = j /\ j # "disputed"
        /\ \A v \in Workers \ {w} : pc'[v] = pc[v] /\ job'[v] = job[v]
    BY <1>1 DEF TypeInv, TypeOK, AllJobs
  <1> QED
    BY <1>1, <1>2, <1>3, BusyKept

LEMMA BusyStep ==
    ASSUME TypeInv, HeardInv, BusyInv, NEW w \in Workers, Step(w) PROVE BusyInv'
  <1> USE DEF TypeInv
  <1>0. /\ lock = w => \/ pc[w] \in {"fetch", "write"}
                       \/ pc[w] = "select" /\ job[w] = "disputed"
        /\ pc[w] = "mark" \/ job[w] = "disputed" => row.cust
        /\ w # NoWorker
    BY DEF BusyInv, LockHolderBusy
  <1>1. CASE AskStripe(w)
    <2>1. pc[w] = "ask_stripe" /\ pc'[w] = "select" /\ UNCHANGED <<row, lock, job>>
          /\ \A v \in Workers \ {w} : pc'[v] = pc[v]
      BY <1>1 DEF AskStripe, Go, dbVars, TypeOK
    <2> QED
      BY <1>0, <2>1, BusyKept
  <1>2. CASE Compare(w)
    <2>1. /\ pc[w] = "compare" /\ UNCHANGED <<row, lock>>
          /\ pc'[w] \in {"select", "idle"} /\ job'[w] \in {job[w], "none"}
          /\ \A v \in Workers \ {w} : pc'[v] = pc[v] /\ job'[v] = job[v]
      BY <1>2 DEF Compare, Go, Finish, dbVars, TypeOK
    <2> QED
      BY <1>0, <2>1, BusyKept
  <1>3. CASE MarkDisputed(w)
    <2>1. /\ pc[w] = "mark" /\ lock' = w /\ UNCHANGED row
          /\ pc'[w] = "select" /\ job'[w] = "disputed"
          /\ \A v \in Workers \ {w} : pc'[v] = pc[v] /\ job'[v] = job[v]
      BY <1>3 DEF MarkDisputed, Go, TypeOK
    <2> QED
      BY <1>0, <2>1, BusyTaken
  <1>4. CASE SelectForUpdate(w)
    <2>1. /\ lock' = w /\ UNCHANGED <<row, job>> /\ pc'[w] = "fetch"
          /\ \A v \in Workers \ {w} : pc'[v] = pc[v]
      BY <1>4 DEF SelectForUpdate, Go, TypeOK
    <2> QED
      BY <1>0, <2>1, BusyTaken
  <1>5. CASE SelectNothing(w)
    <2>1. /\ pc[w] = "select" /\ ~row.cust
          /\ UNCHANGED <<row, lock, job>> /\ pc'[w] = "fetch_unlocked"
          /\ \A v \in Workers \ {w} : pc'[v] = pc[v]
      BY <1>5 DEF SelectNothing, Go, dbVars, TypeOK
    <2> QED
      BY <1>0, <2>1, BusyKept
  <1>6. CASE FetchLocked(w)
    <2>1. /\ UNCHANGED <<row, lock, job>> /\ pc'[w] = "write"
          /\ \A v \in Workers \ {w} : pc'[v] = pc[v]
      BY <1>6 DEF FetchLocked, Go, dbVars, TypeOK
    <2> QED
      BY <1>0, <2>1, BusyTaken, BusyKept
  <1>7. CASE FetchUnlocked(w)
    <2>1. /\ pc[w] = "fetch_unlocked" /\ UNCHANGED <<row, lock>>
          /\ pc'[w] \in {"attach", "idle"} /\ job'[w] \in {job[w], "none"}
          /\ \A v \in Workers \ {w} : pc'[v] = pc[v] /\ job'[v] = job[v]
      BY <1>7 DEF FetchUnlocked, Go, Finish, dbVars, TypeOK
    <2> QED
      BY <1>0, <2>1, BusyKept
  <1>8. CASE Attach(w)
    <2>1. /\ pc[w] = "attach" /\ UNCHANGED <<row, lock, job>>
          /\ pc'[w] = "flush_attach"
          /\ \A v \in Workers \ {w} : pc'[v] = pc[v]
      BY <1>8 DEF Attach, Go, dbVars, TypeOK
    <2> QED
      BY <1>0, <2>1, BusyKept
  <1>9. CASE FlushAttach(w)
    <2>1. /\ pc[w] = "flush_attach" /\ UNCHANGED <<row, job>>
          /\ \/ pc'[w] = "write" /\ lock' \in {lock, w}
             \/ pc'[w] = "relock" /\ lock' = lock
          /\ \A v \in Workers \ {w} : pc'[v] = pc[v]
      BY <1>9 DEF FlushAttach, Go, TypeOK
    <2> QED
      BY <1>0, <2>1, BusyTaken, BusyKept
  <1>10. CASE Relock(w)
    <2>1. /\ pc[w] = "relock" /\ UNCHANGED <<row, job>>
          /\ pc'[w] = "write" /\ lock' \in {lock, w}
          /\ \A v \in Workers \ {w} : pc'[v] = pc[v]
      BY <1>10 DEF Relock, Go, TypeOK
    <2> QED
      BY <1>0, <2>1, BusyTaken, BusyKept
  <1>11. CASE WriteAndCommit(w)
    <2>1. /\ lock' = NoWorker /\ pc'[w] = "idle" /\ job'[w] = "none"
          /\ \A v \in Workers \ {w} : pc'[v] = pc[v] /\ job'[v] = job[v]
      BY <1>11 DEF WriteAndCommit, Finish, TypeOK
    <2> QED
      BY <1>0, <1>11, <2>1, CommitHeard, BusyKept
  <1>12. CASE ExtendGrace(w)
    <2>1. /\ lock' = lock /\ lock = NoWorker
          /\ pc'[w] = "idle" /\ job'[w] = "none"
          /\ \A v \in Workers \ {w} : pc'[v] = pc[v] /\ job'[v] = job[v]
      BY <1>12 DEF ExtendGrace, Finish, TypeOK
    <2> QED
      BY <1>0, <1>12, <2>1, GraceHeard, BusyKept
  <1> QED
    BY <1>1, <1>2, <1>3, <1>4, <1>5, <1>6, <1>7, <1>8, <1>9, <1>10, <1>11,
       <1>12 DEF Step

\* Whatever jobs run, fail or are retried, the lock is in working hands.
THEOREM NoLockLeaked == Spec => []LockHolderBusy
  <1>1. Init => BusyInv
    BY DEF Init, BusyInv, LockHolderBusy
  <1>2. TypeInv /\ HeardInv /\ BusyInv /\ [Next]_vars => BusyInv'
    <2> SUFFICES ASSUME TypeInv, HeardInv, BusyInv, [Next]_vars PROVE BusyInv'
      OBVIOUS
    <2>1. CASE StripeChanges \/ Tick \/ UNCHANGED vars
      BY <2>1 DEF StripeChanges, Tick, stripeVars, dbVars, workerVars, vars,
                  BusyInv, LockHolderBusy
    <2>2. CASE MySubscription
      <3>1. ~row.cust
        BY <2>2 DEF MySubscription, HeardInv
      <3>2. UNCHANGED <<lock, pc, job>>
        BY <2>2 DEF MySubscription, workerVars
      <3> QED
        BY <3>1, <3>2 DEF BusyInv, LockHolderBusy
    <2>3. ASSUME NEW w \in Workers, Start(w) PROVE BusyInv'
      BY <2>3, BusyStart
    <2>4. ASSUME NEW w \in Workers, Step(w) PROVE BusyInv'
      BY <2>4, BusyStep
    <2>5. ASSUME NEW w \in Workers, Abort(w) PROVE BusyInv'
      <3>1. /\ UNCHANGED row /\ lock' \in {lock, NoWorker} /\ lock' # w
            /\ pc'[w] = "idle" /\ job'[w] = "none"
            /\ \A v \in Workers \ {w} : pc'[v] = pc[v] /\ job'[v] = job[v]
        BY <2>5 DEF Abort, Unlocked, Finish, TypeInv, TypeOK
      <3> QED
        BY <3>1, BusyKept
    <2> QED
      BY <2>1, <2>2, <2>3, <2>4, <2>5 DEF Next
  <1>3. BusyInv => LockHolderBusy
    BY DEF BusyInv
  <1> QED
    BY <1>1, <1>2, <1>3, TypeInit, TypeNext, HeardInit, HeardNext, PTL DEF Spec

---------------------------------------------------------------------------
(* A first checkout lands *)

\* An event about the customer is on its way or being handled.
Pursued == pending > 0 \/ \E w \in Workers : job[w] = "webhook"

\* While Stripe has only ever shown one state, and that one is ours and its
\* customer names the user, once
\* every event of the burst is answered the row is there and shows it, however
\* the creations raced, failed and were retried (subscriptions.py:220-274): what
\* FirstCheckoutLands says will come about is true whenever things are quiet.
FirstCheckoutRecorded ==
    Len(hist) = 1 /\ Ours(1) /\ Named /\ ~Pursued
        => row.cust /\ MirrorOf(row) = Project(StripeNow)

\* Nobody who handles an event gives up on a subscription of ours.
FirstInv ==
    /\ Len(hist) = 1 /\ Ours(1) /\ Named => row.cust \/ Pursued
    /\ \A w \in Workers : job[w] = "webhook" =>
          pc[w] \in {"select", "fetch", "write", "fetch_unlocked", "attach",
                     "flush_attach", "relock"}

LEMMA OnlyOne == \A n \in Nat : n > 0 /\ n <= 1 => n = 1
  OBVIOUS

\* A step after which the one who took it is still at it, or need not be.
LEMMA FirstKept ==
    ASSUME TypeInv, TypeInv', FirstInv, NEW w \in Workers, Grown,
           row.cust => row'.cust, pending' >= pending,
           \A v \in Workers \ {w} : pc'[v] = pc[v] /\ job'[v] = job[v],
           job[w] = "webhook" => job'[w] = "webhook" \/ pending' > 0 \/ row'.cust,
           job'[w] = "webhook" =>
              pc'[w] \in {"select", "fetch", "write", "fetch_unlocked",
                          "attach", "flush_attach", "relock"}
    PROVE  FirstInv'
  <1>1. ASSUME Len(hist') = 1, Ours(1)', Named PROVE row'.cust \/ Pursued'
    <2>1. Len(hist) = 1 /\ hist'[1] = hist[1]
      <3>1. Len(hist) \in Nat /\ Len(hist) > 0 /\ Len(hist) <= 1
        BY <1>1 DEF Grown, TypeInv, TypeOK
      <3>2. Len(hist) = 1
        BY <3>1, OnlyOne
      <3>3. 1 \in 1..Len(hist)
        BY <3>2
      <3> QED
        BY <3>2, <3>3 DEF Grown
    <2>2. Ours(1)
      BY <1>1, <2>1 DEF Ours
    <2>3. row.cust \/ Pursued
      BY <1>1, <2>1, <2>2 DEF FirstInv
    <2>4. ASSUME NEW v \in Workers, job[v] = "webhook"
          PROVE  row'.cust \/ Pursued'
      BY <2>4 DEF Pursued
    <2> QED
      BY <2>3, <2>4 DEF Pursued, TypeInv, TypeOK
  <1>2. \A v \in Workers : job'[v] = "webhook" =>
          pc'[v] \in {"select", "fetch", "write", "fetch_unlocked", "attach",
                      "flush_attach", "relock"}
    BY DEF FirstInv
  <1> QED
    BY <1>1, <1>2 DEF FirstInv

LEMMA FirstInit == ASSUME Burst > 0 PROVE Init => FirstInv
  <1>1. Init /\ Onboarded => row.cust
    BY SyncInit DEF SyncInv, LockInv
  <1> QED
    BY <1>1 DEF Init, FirstInv, Pursued, FlagAssumption

LEMMA FirstStart ==
    ASSUME TypeInv, TypeInv', FirstInv, NEW w \in Workers, Start(w)
    PROVE  FirstInv'
  <1>1. PICK j \in AllJobs, step \in {"select", "mark", "flush_grace",
                                      "ask_stripe", "compare"} :
            /\ pc[w] = "idle"
            /\ job' = [job EXCEPT ![w] = j]
            /\ pc' = [pc EXCEPT ![w] = step]
            /\ UNCHANGED <<hist, row>>
            /\ j = "webhook" => step = "select"
            /\ j # "webhook" => pending' = pending
    BY DEF Start, StartWebhook, StartDispute, StartResync, StartExtendGrace,
           StartCancel, StartResume, StartReconcile, Become, AllJobs, dbVars
  <1>2. /\ pc'[w] = step /\ job'[w] = j
        /\ \A v \in Workers \ {w} : pc'[v] = pc[v] /\ job'[v] = job[v]
    BY <1>1 DEF TypeInv, TypeOK
  <1>3. CASE j = "webhook"
    <2>1. Pursued'
      BY <1>2, <1>3 DEF Pursued
    <2> QED
      BY <1>1, <1>2, <1>3, <2>1 DEF FirstInv
  <1>4. CASE j # "webhook"
    <2>1. Grown /\ pending' >= pending
      BY <1>1, <1>4 DEF Grown, TypeInv, TypeOK
    <2>2. job[w] # "webhook"
      BY <1>1 DEF FirstInv
    <2> QED
      BY <1>1, <1>2, <1>4, <2>1, <2>2, FirstKept
  <1> QED
    BY <1>3, <1>4

\* What a worker's own step does to its job and its place in it.
LEMMA FirstStep ==
    ASSUME TypeInv, TypeInv', HeardInv, FirstInv, NEW w \in Workers, Step(w)
    PROVE  FirstInv'
  <1> USE DEF TypeInv
  <1> DEFINE Working == {"select", "fetch", "write", "fetch_unlocked",
                         "attach", "flush_attach", "relock"}
  <1>0. /\ job[w] = "webhook" => pc[w] \in Working
        /\ UNCHANGED hist => Grown
        /\ UNCHANGED pending => pending' >= pending
    BY DEF FirstInv, Grown, TypeOK
  <1>1. CASE AskStripe(w)
    <2>1. Grown /\ pending' >= pending
      BY <1>1, AskStripeGrows
    <2>2. /\ pc[w] = "ask_stripe" /\ UNCHANGED <<row, job>>
          /\ \A v \in Workers \ {w} : pc'[v] = pc[v]
      BY <1>1 DEF AskStripe, Go, dbVars, TypeOK
    <2> QED
      BY <1>0, <2>1, <2>2, FirstKept
  <1>2. CASE Compare(w)
    <2>1. /\ pc[w] = "compare" /\ UNCHANGED <<hist, pending, row>>
          /\ job'[w] \in {job[w], "none"}
          /\ \A v \in Workers \ {w} : pc'[v] = pc[v] /\ job'[v] = job[v]
      BY <1>2 DEF Compare, Go, Finish, stripeVars, dbVars, TypeOK
    <2> QED
      BY <1>0, <2>1, FirstKept
  <1>3. CASE MarkDisputed(w)
    <2>1. /\ pc[w] = "mark" /\ UNCHANGED <<hist, pending, row>>
          /\ job'[w] = "disputed"
          /\ \A v \in Workers \ {w} : pc'[v] = pc[v] /\ job'[v] = job[v]
      BY <1>3 DEF MarkDisputed, Go, stripeVars, TypeOK
    <2> QED
      BY <1>0, <2>1, FirstKept
  <1>4. CASE /\ UNCHANGED <<hist, pending, row, job>> /\ pc'[w] \in Working
             /\ \A v \in Workers \ {w} : pc'[v] = pc[v]
    BY <1>0, <1>4, FirstKept
  <1>5. CASE SelectForUpdate(w) \/ SelectNothing(w) \/ FetchLocked(w)
             \/ Attach(w) \/ FlushAttach(w) \/ Relock(w)
    <2>1. UNCHANGED <<hist, pending, row, job>>
      BY <1>5 DEF SelectForUpdate, SelectNothing, FetchLocked, Attach,
                  FlushAttach, Relock, stripeVars, dbVars
    <2>2. \E step \in Working : Go(w, step)
      BY <1>5 DEF SelectForUpdate, SelectNothing, FetchLocked, Attach,
                  FlushAttach, Relock
    <2> QED
      BY <1>4, <2>1, <2>2 DEF Go, TypeOK
  <1>6. CASE FetchUnlocked(w)
    <2>1. CASE Go(w, "attach") /\ UNCHANGED job
      BY <1>4, <1>6, <2>1 DEF FetchUnlocked, stripeVars, dbVars, Go, TypeOK
    <2>2. CASE ~BelongsToThisService(StripeNow) \/ ~Named \/ StripeNow.orphaned
      <3>1. /\ UNCHANGED <<hist, row>>
            /\ \A v \in Workers \ {w} : pc'[v] = pc[v] /\ job'[v] = job[v]
            /\ job'[w] = "none" \/ (job'[w] = job[w] /\ pc'[w] = "attach")
        BY <1>6 DEF FetchUnlocked, Finish, Go, stripeVars, dbVars, TypeOK
      <3>2. ~(Len(hist') = 1 /\ Ours(1)' /\ Named)
        BY <2>2, <3>1 DEF StripeNow, Ours
      <3> QED
        BY <3>1, <3>2 DEF FirstInv
    <2> QED
      BY <1>6, <2>1, <2>2 DEF FetchUnlocked
  <1>7. CASE WriteAndCommit(w)
    <2>1. /\ UNCHANGED <<hist, pending>> /\ job'[w] = "none"
          /\ \A v \in Workers \ {w} : pc'[v] = pc[v] /\ job'[v] = job[v]
      BY <1>7 DEF WriteAndCommit, Finish, stripeVars, TypeOK
    <2>2. row'.cust
      BY <1>7, CommitHeard
    <2> QED
      BY <1>0, <2>1, <2>2, FirstKept
  <1>8. CASE ExtendGrace(w)
    <2>1. /\ UNCHANGED <<hist, pending>> /\ job'[w] = "none"
          /\ \A v \in Workers \ {w} : pc'[v] = pc[v] /\ job'[v] = job[v]
      BY <1>8 DEF ExtendGrace, Finish, stripeVars, TypeOK
    <2>2. row'.cust
      BY <1>8, GraceHeard
    <2> QED
      BY <1>0, <2>1, <2>2, FirstKept
  <1> QED
    BY <1>1, <1>2, <1>3, <1>5, <1>6, <1>7, <1>8 DEF Step

LEMMA FirstNext == TypeInv /\ HeardInv /\ FirstInv /\ [Next]_vars => FirstInv'
  <1> SUFFICES ASSUME TypeInv, HeardInv, FirstInv, [Next]_vars PROVE FirstInv'
    OBVIOUS
  <1>0. TypeInv'
    BY TypeNext
  <1>1. CASE StripeChanges
    <2>1. Len(hist') # 1 /\ UNCHANGED <<pc, job>>
      BY <1>1 DEF StripeChanges, workerVars, TypeInv, TypeOK
    <2> QED
      BY <2>1 DEF FirstInv
  <1>2. CASE Tick \/ UNCHANGED vars
    BY <1>2 DEF Tick, stripeVars, dbVars, workerVars, vars, FirstInv, Pursued, Ours
  <1>3. CASE MySubscription
    <2>1. ~row.cust
      BY <1>3 DEF MySubscription, HeardInv
    <2>2. UNCHANGED <<hist, pending, pc, job>>
      BY <1>3 DEF MySubscription, stripeVars, workerVars
    <2> QED
      BY <2>1, <2>2 DEF FirstInv, Pursued, Ours
  <1>4. ASSUME NEW w \in Workers, Start(w) PROVE FirstInv'
    BY <1>0, <1>4, FirstStart
  <1>5. ASSUME NEW w \in Workers, Step(w) PROVE FirstInv'
    BY <1>0, <1>5, FirstStep
  <1>6. ASSUME NEW w \in Workers, Abort(w) PROVE FirstInv'
    <2>1. /\ UNCHANGED <<hist, row>> /\ job'[w] = "none"
          /\ job[w] = "webhook" => pending' = pending + 1
          /\ job[w] # "webhook" => pending' = pending
          /\ \A v \in Workers \ {w} : pc'[v] = pc[v] /\ job'[v] = job[v]
      BY <1>6 DEF Abort, Finish, TypeInv, TypeOK
    <2>2. /\ Grown /\ pending' >= pending
          /\ job[w] = "webhook" => pending' > 0
      BY <2>1 DEF Grown, TypeInv, TypeOK
    <2> QED
      BY <1>0, <2>1, <2>2, FirstKept
  <1> QED
    BY <1>1, <1>2, <1>3, <1>4, <1>5, <1>6 DEF Next

\* Whatever jobs run besides, and whatever fails on the way.
THEOREM FirstCheckoutIsRecorded ==
    ASSUME Burst > 0 PROVE Spec => []FirstCheckoutRecorded
  <1>1. TypeInv /\ HeardInv /\ FirstInv => FirstCheckoutRecorded
    <2> SUFFICES ASSUME TypeInv, HeardInv, FirstInv, Len(hist) = 1, Ours(1), Named, ~Pursued
                 PROVE  row.cust /\ MirrorOf(row) = Project(StripeNow)
      BY DEF FirstCheckoutRecorded
    <2>1. row.cust /\ Heard(row, hist)
      BY DEF FirstInv, HeardInv
    <2>2. \A c \in Columns : MirrorOf(row)[c] = Project(hist[1])[c]
      <3>1. \A v \in 1..Len(hist) : v = 1
        OBVIOUS
      <3> QED
        BY <2>1, <3>1 DEF Heard
    <2>3. hist \in Seq(RemoteOrNone) /\ Len(hist) = 1
      BY DEF TypeInv, TypeOK
    <2>4. hist[1] \in RemoteOrNone /\ Project(hist[1]) \in Mirrored
      BY <2>3, ProjectType
    <2>5. MirrorOf(row) = Project(hist[1])
      BY <2>2, <2>4 DEF MirrorOf, Mirrored, Columns
    <2> QED
      BY <2>1, <2>5 DEF StripeNow
  <1> QED
    BY <1>1, FirstInit, FirstNext, TypeInit, TypeNext, HeardInit, HeardNext,
       PTL DEF Spec

---------------------------------------------------------------------------
(* Redelivery *)

\* An event delivered twice, or recorded by two sessions one after the other,
\* leaves what the first recording left, whenever the second comes: the sync
\* writes Stripe's state, and the clock it stamped is kept (subscriptions.py:375-398).
THEOREM RedeliveryChangesNothing ==
    ASSUME NEW r \in Row, NEW state \in Mirrored, NEW t \in Nat, NEW later \in Nat
    PROVE  Write(Write(r, state, t), state, later) = Write(r, state, t)
  <1> DEFINE once  == Write(r, state, t)
             twice == Write(once, state, later)
  <1>1. once \in Row /\ MirrorOf(once) = state /\ state \in Mirrored
    BY WriteType, WriteMirrors
  <1>2. /\ once.pastDueSince # NoTime <=> once.status = "past_due"
        /\ once.status = state.status
    BY <1>1, WriteClock DEF MirrorOf
  <1>3. /\ twice.pastDueSince = once.pastDueSince
        /\ twice = [once EXCEPT !.tier = state.tier, !.status = state.status,
                           !.cancel = state.cancel,
                           !.pastDueSince = twice.pastDueSince]
    <2> HIDE DEF once
    <2> QED
      BY <1>1, <1>2 DEF Write, Row
  <1>4. /\ state.tier = once.tier /\ state.status = once.status
        /\ state.cancel = once.cancel
    BY <1>1 DEF MirrorOf
  <1> HIDE DEF once, twice
  <1>5. twice = once
    <2>1. /\ [once EXCEPT !.tier = once.tier] = once
          /\ [once EXCEPT !.status = once.status] = once
          /\ [once EXCEPT !.cancel = once.cancel] = once
          /\ [once EXCEPT !.pastDueSince = once.pastDueSince] = once
      BY <1>1 DEF Row
    <2> QED
      BY <1>3, <1>4, <2>1
  <1> QED
    BY <1>5 DEF once, twice
=============================================================================
