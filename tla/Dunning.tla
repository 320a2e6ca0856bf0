------------------------------- MODULE Dunning -------------------------------
(***************************************************************************)
(* A failed renewal from beginning to end, for one customer: the sync      *)
(* starts the grace clock and stops it (_write), an operator moves it      *)
(* (extend_grace in routers/admin.py), and the nightly job puts on record  *)
(* that the window has closed (jobs/expire_grace.py).                      *)
(*                                                                         *)
(* The job is one transaction: it selects the rows, looks at each by the   *)
(* clock and at the reports there are, adds a report and commits.          *)
(* `created_at` is the database's now(), which in Postgres is the time the *)
(* transaction began.  extend_grace reads the row and writes it without    *)
(* locking it in between, and its UPDATE sends past_due_since alone.  A    *)
(* sync's own steps are SubscriptionSync's: here it takes effect at once.  *)
(***************************************************************************)
EXTENDS Integers

CONSTANTS
    Grace,         \* length of the grace window
    Unset,         \* past_due_since of None
    Extensions,    \* by how many days an operator may move the clock: any
                   \*   number, extend_grace asks for an int and no more
    Patience,      \* the longest a run of the job takes
    MaxTime,       \* bound on the clock
    MaxChanges,    \* bound on what Stripe changes
    MaxExtensions, \* bound on the operators' extensions
    MaxFailures    \* bound on runs that fail

ASSUME GraceAssumption ==
    /\ Grace \in Nat /\ Patience \in Nat /\ Patience < Grace
    /\ Extensions \subseteq Int
    /\ Unset \notin Int
ASSUME BoundsAssumption ==
    /\ MaxTime \in Nat /\ MaxChanges \in Nat
    /\ MaxExtensions \in Nat /\ MaxFailures \in Nat

VARIABLES
    now,        \* the clock
    row,        \* the committed subscription: whether it is past due,
                \*   whether its tier is above free, and the grace clock
    reports,    \* the job's audit rows: created, and since, the clock of the
                \*   window each speaks of
    job,        \* the run under way: its step, when it began, what it loaded
    request,    \* extend_grace under way: its step and the clock it read
    overtaken,  \* clocks that an operator set to before a report there was,
                \*   or before the beginning of a run under way
    swept,      \* windows, closed before a run began, that it has been over
    changes, extended, failures     \* the counters that are bounded

vars == <<now, row, reports, job, request, overtaken, swept, changes, extended,
          failures>>

Times == Int \cup {Unset}

Row == [pastDue : BOOLEAN, paid : BOOLEAN, since : Times]

Idle    == "idle"
NoRow   == [pastDue |-> FALSE, paid |-> FALSE, since |-> Unset]
NoJob   == [step |-> Idle, start |-> 0, loaded |-> NoRow]
NoCall  == [step |-> Idle, since |-> Unset]

Init ==
    /\ now = 0
    /\ row = [pastDue |-> FALSE, paid |-> TRUE, since |-> Unset]
    /\ reports = {}
    /\ job = NoJob
    /\ request = NoCall
    /\ overtaken = {} /\ swept = {}
    /\ changes = 0 /\ extended = 0 /\ failures = 0

\* grace_expired
GraceExpired(sub, t) ==
    /\ sub.pastDue /\ sub.since # Unset
    /\ t >= sub.since + Grace

---------------------------------------------------------------------------
\* A run is not under way for longer than Patience: it is a SELECT and one
\* commit.  A request may be.
Tick ==
    /\ now < MaxTime
    /\ job.step # Idle => now < job.start + Patience
    /\ now' = now + 1
    /\ UNCHANGED <<row, reports, job, request, overtaken, swept, changes,
                   extended, failures>>

\* Mistaken: the clock stops as soon as the tier is free.
ClockWithTier(since, pastDue, paid) ==
    IF pastDue /\ paid THEN (IF since = Unset THEN now ELSE since) ELSE Unset

\* _write: set once, on the way in, and cleared on the way out.
Clock(since, pastDue, paid) ==
    IF pastDue THEN (IF since = Unset THEN now ELSE since) ELSE Unset

\* A sync.  A past-due subscription has its tier, or none that anybody can
\* resolve; every other status is the same to the job.
Sync(pastDue, paid) ==
    /\ changes < MaxChanges
    /\ row' = [pastDue |-> pastDue, paid |-> paid,
               since |-> Clock(row.since, pastDue, paid)]
    /\ changes' = changes + 1
    /\ UNCHANGED <<now, reports, job, request, overtaken, swept, extended,
                   failures>>

---------------------------------------------------------------------------
(* extend_grace *)

\* It reads the row; without a clock it answers 400.
ExtendReads ==
    /\ request.step = Idle
    /\ extended < MaxExtensions
    /\ row.since # Unset
    /\ request' = [step |-> "write", since |-> row.since]
    /\ extended' = extended + 1
    /\ UNCHANGED <<now, row, reports, job, overtaken, swept, changes, failures>>

\* A window that began at `since` has a report after its beginning, or may
\* get one from the run under way, though it was not there to be looked at.
Behind(since) ==
    \/ \E report \in reports : report.created > since
    \/ job.step # Idle /\ job.start > since

\* Zero days are no change, and send no UPDATE.
ExtendWrites ==
    /\ request.step = "write"
    /\ \E days \in Extensions :
          LET since == request.since + days
          IN  IF days = 0
              THEN UNCHANGED <<row, overtaken>>
              ELSE /\ row' = [row EXCEPT !.since = since]
                   /\ overtaken' = IF Behind(since)
                                   THEN overtaken \cup {since} ELSE overtaken
    /\ request' = NoCall
    /\ UNCHANGED <<now, reports, job, swept, changes, extended, failures>>

---------------------------------------------------------------------------
(* expire_grace_windows *)

\* Mistaken: only a window that closed since yesterday is looked at.
SelectRecent ==
    /\ job.step = Idle
    /\ row.pastDue /\ row.paid /\ now <= row.since + Grace + 1
    /\ job' = [step |-> "check", start |-> now, loaded |-> row]
    /\ UNCHANGED <<now, row, reports, request, overtaken, swept, changes,
                   extended, failures>>

\* Rows past due whose mirrored tier is not free.
Select ==
    /\ job.step = Idle
    /\ row.pastDue /\ row.paid
    /\ job' = [step |-> "check", start |-> now, loaded |-> row]
    /\ UNCHANGED <<now, row, reports, request, overtaken, swept, changes,
                   extended, failures>>

\* Mistaken: a report counts from the day its own window began.
ReportedNever(sub) == FALSE

\* _already_reported, as of the SELECT: a report made after the clock that
\* the run has loaded.
AlreadyReported(sub) ==
    sub.since # Unset /\ \E report \in reports : report.created > sub.since

\* The run is over, having seen the row.
Swept ==
    IF GraceExpired(job.loaded, job.start)
    THEN swept \cup {job.loaded.since} ELSE swept

Check ==
    /\ job.step = "check"
    /\ IF GraceExpired(job.loaded, now) /\ ~AlreadyReported(job.loaded)
       THEN job' = [job EXCEPT !.step = "commit"] /\ UNCHANGED swept
       ELSE job' = NoJob /\ swept' = Swept
    /\ UNCHANGED <<now, row, reports, request, overtaken, changes, extended,
                   failures>>

\* Mistaken: the report carries the time of its commit.
ReportAtCommit == [created |-> now, since |-> job.loaded.since]

Report == [created |-> job.start, since |-> job.loaded.since]

Commit ==
    /\ job.step = "commit"
    /\ reports' = reports \cup {Report}
    /\ swept' = Swept
    /\ job' = NoJob
    /\ UNCHANGED <<now, row, request, overtaken, changes, extended, failures>>

\* The run fails or its process dies: nothing is committed.
JobFails ==
    /\ job.step # Idle
    /\ failures < MaxFailures
    /\ failures' = failures + 1
    /\ job' = NoJob
    /\ UNCHANGED <<now, row, reports, request, overtaken, swept, changes,
                   extended>>

Next ==
    \/ Tick
    \/ Sync(TRUE, TRUE) \/ Sync(TRUE, FALSE) \/ Sync(FALSE, TRUE)
    \/ ExtendReads \/ ExtendWrites
    \/ Select \/ Check \/ Commit \/ JobFails

Spec == Init /\ [][Next]_vars

\* The job is scheduled every night, and a run that does not fail ends.
Fairness == WF_vars(Select) /\ WF_vars(Check) /\ WF_vars(Commit)

FairSpec == Spec /\ Fairness

---------------------------------------------------------------------------
(* Properties *)

\* Every variable keeps its type, and a past-due row always has a clock: the
\* job and the read path take None for a window that never closes.
TypeOK ==
    /\ now \in Nat
    /\ row \in Row /\ (row.pastDue => row.since # Unset)
    /\ reports \subseteq [created : Nat, since : Int]
    /\ job \in [step : {Idle, "check", "commit"}, start : Nat, loaded : Row]
    /\ request \in [step : {Idle, "write"}, since : Times]
    /\ overtaken \subseteq Int /\ swept \subseteq Int
    /\ changes \in Nat /\ extended \in Nat /\ failures \in Nat

\* A window is reported once, however often the job runs, though a report is
\* dated by the beginning of its run and not by what it says.
ReportedOnce ==
    \A r1, r2 \in reports : r1.since = r2.since => r1 = r2

Reported == { report.since : report \in reports }

\* The job misses no lapse: a window that had closed when a run began is on
\* record when that run is over, also for a customer who has been reported
\* before and whatever operators moved, except a window whose clock an
\* operator set to before a report (see EveryLapseReported).
LapseReported == swept \ overtaken \subseteq Reported

\* The same without the exception, as _already_reported has it.
EveryLapseReported == swept \subseteq Reported

\* A report that is due, unless an operator set the clock to before another.
Owed ==
    /\ GraceExpired(row, now) /\ row.paid
    /\ row.since \notin Reported \cup overtaken

\* No report is owed for ever, though runs fail.
EventuallyReported == []<>~Owed
=============================================================================
