---------------------------- MODULE DunningProofs ----------------------------
(***************************************************************************)
(* For every grace window, any numbers of days (zero and negative ones     *)
(* too) and every number of runs, and as long as a run takes less than a   *)
(* grace window: a window is reported at most once, and none that had      *)
(* closed when a run began is missed, but for those whose clock an         *)
(* operator set to before a report.                                        *)
(***************************************************************************)
EXTENDS Dunning, TLAPS

\* A run is not older than Patience and has a clock in hand; one about to
\* commit has seen the window closed and found no report after its clock.
UnderWayInv ==
    /\ job.step # Idle =>
          /\ job.start <= now /\ now <= job.start + Patience
          /\ job.loaded.pastDue /\ job.loaded.since \in Int
    /\ job.step = "commit" =>
          /\ now >= job.loaded.since + Grace
          /\ \A report \in reports : report.created <= job.loaded.since
    /\ request.step # Idle => request.since \in Int

\* A report is later than the clock it speaks of, by then its window had
\* closed, and none is from the future.
ReportInv ==
    \A report \in reports :
        /\ report.created <= now
        /\ report.created > report.since
        /\ now >= report.since + Grace

\* A clock that some report is later than is the one it speaks of, or was
\* set to before a report.
Accounted(since) ==
    \/ since = Unset
    \/ since \in Reported \cup overtaken
    \/ \A report \in reports : report.created <= since

\* The same of the report that the run under way may add.
AccountedSoon(since) ==
    \/ since = Unset
    \/ since \in Reported \cup overtaken
    \/ since = job.loaded.since
    \/ job.start <= since

AccountInv ==
    /\ Accounted(row.since)
    /\ job.step # Idle => Accounted(job.loaded.since) /\ AccountedSoon(row.since)

IInv == TypeOK /\ UnderWayInv /\ ReportInv /\ AccountInv
            /\ ReportedOnce /\ LapseReported

---------------------------------------------------------------------------
LEMMA InitOK == Init => IInv
BY DEF Init, IInv, TypeOK, UnderWayInv, ReportInv, AccountInv, ReportedOnce,
       LapseReported, Reported, Accounted, Row, NoRow, NoJob, NoCall, Idle,
       Times

\* What extend_grace does to the row when asked for so many days.
MovesBy(days) ==
    IF days = 0
    THEN UNCHANGED <<row, overtaken>>
    ELSE /\ row' = [row EXCEPT !.since = request.since + days]
         /\ overtaken' = IF Behind(request.since + days)
                         THEN overtaken \cup {request.since + days} ELSE overtaken

\* Every step keeps the types.
LEMMA TypeStep == ASSUME TypeOK, UnderWayInv, [Next]_vars PROVE TypeOK'
<1> USE GraceAssumption DEF TypeOK, Row, Times, Idle
<1>1. CASE Tick
      BY <1>1 DEF Tick
<1>2. ASSUME NEW pastDue \in BOOLEAN, NEW paid \in BOOLEAN, Sync(pastDue, paid)
      PROVE  TypeOK'
      BY <1>2 DEF Sync, Clock
<1>3. CASE ExtendReads
      BY <1>3 DEF ExtendReads
<1>4. CASE ExtendWrites
  <2>1. PICK days \in Extensions : MovesBy(days)
        BY <1>4 DEF ExtendWrites, MovesBy
  <2>2. request.since + days \in Int
        BY <1>4 DEF ExtendWrites, UnderWayInv
  <2>3. CASE days = 0
        BY <1>4, <2>1, <2>3 DEF ExtendWrites, NoCall, MovesBy
  <2>4. CASE days # 0
    <3>1. row' \in Row /\ (row'.pastDue => row'.since # Unset)
          BY <2>1, <2>2, <2>4 DEF MovesBy
    <3>2. overtaken' \subseteq Int
          BY <2>1, <2>2, <2>4 DEF MovesBy
    <3>3. QED BY <1>4, <3>1, <3>2 DEF ExtendWrites, NoCall
  <2>5. QED BY <2>3, <2>4
<1>5. CASE Select
      BY <1>5 DEF Select
<1>i. NoJob \in [step : {Idle, "check", "commit"}, start : Nat, loaded : Row]
      BY DEF NoJob, NoRow
<1>s. job.step # Idle => Swept \subseteq Int
      BY DEF Swept, UnderWayInv
<1>6. CASE Check
  <2>1. CASE job' = [job EXCEPT !.step = "commit"] /\ UNCHANGED swept
        BY <1>6, <2>1 DEF Check
  <2>2. CASE job' = NoJob /\ swept' = Swept
        BY <1>6, <1>i, <1>s, <2>2 DEF Check
  <2>3. QED BY <1>6, <2>1, <2>2 DEF Check
<1>7. CASE Commit
  <2>1. Report \in [created : Nat, since : Int]
        BY <1>7 DEF Commit, Report, UnderWayInv
  <2>2. QED BY <1>7, <1>i, <1>s, <2>1 DEF Commit
<1>8. CASE JobFails
      BY <1>8 DEF JobFails, NoJob, NoRow
<1>9. CASE UNCHANGED vars
      BY <1>9 DEF vars
<1>10. QED BY <1>1, <1>2, <1>3, <1>4, <1>5, <1>6, <1>7, <1>8, <1>9 DEF Next

\* Clocks: what is under way, and the reports.
LEMMA ClockStep ==
    ASSUME TypeOK, TypeOK', UnderWayInv, ReportInv, [Next]_vars
    PROVE  UnderWayInv' /\ ReportInv'
<1> USE GraceAssumption DEF TypeOK, Row, Times, Idle, UnderWayInv,
                            ReportInv
<1>1. CASE Tick
      BY <1>1 DEF Tick
<1>2. ASSUME NEW pastDue \in BOOLEAN, NEW paid \in BOOLEAN, Sync(pastDue, paid)
      PROVE  UnderWayInv' /\ ReportInv'
      BY <1>2 DEF Sync, Clock
<1>3. CASE ExtendReads
      BY <1>3 DEF ExtendReads
<1>4. CASE ExtendWrites
      BY <1>4 DEF ExtendWrites, NoCall
<1>5. CASE Select
      BY <1>5 DEF Select
<1>6. CASE Check
      BY <1>6 DEF Check, NoJob, NoRow, GraceExpired, AlreadyReported
<1>7. CASE Commit
      BY <1>7 DEF Commit, Report, NoJob, NoRow
<1>8. CASE JobFails
      BY <1>8 DEF JobFails, NoJob, NoRow
<1>9. CASE UNCHANGED vars
      BY <1>9 DEF vars
<1>10. QED BY <1>1, <1>2, <1>3, <1>4, <1>5, <1>6, <1>7, <1>8, <1>9 DEF Next

---------------------------------------------------------------------------
\* What a commit adds to what is on record.
LEMMA CommitReports == Commit => Reported' = Reported \cup {job.loaded.since}
<1> SUFFICES ASSUME Commit PROVE Reported' = Reported \cup {job.loaded.since}
    OBVIOUS
<1>1. reports' = reports \cup {Report} /\ Report.since = job.loaded.since
      BY DEF Commit, Report
<1>2. \A since : since \in Reported' <=> \E report \in reports' : report.since = since
      BY DEF Reported
<1>3. \A since : since \in Reported <=> \E report \in reports : report.since = since
      BY DEF Reported
<1>4. QED BY <1>1, <1>2, <1>3

\* What the code compares timestamps for: every clock there is has its reports
\* accounted for, and goes on having them when the run under way adds one.
LEMMA AccountStep ==
    ASSUME TypeOK, TypeOK', UnderWayInv, ReportInv, AccountInv, [Next]_vars
    PROVE  AccountInv'
<1> USE GraceAssumption DEF TypeOK, Row, Times, Idle, UnderWayInv,
                            AccountInv, Accounted, AccountedSoon
<1>1. CASE Tick
      BY <1>1 DEF Tick, Reported
<1>2. ASSUME NEW pastDue \in BOOLEAN, NEW paid \in BOOLEAN, Sync(pastDue, paid)
      PROVE  AccountInv'
  <2>1. row'.since \in {row.since, Unset, now}
        BY <1>2 DEF Sync, Clock
  <2>2. \A report \in reports : report.created <= now
        BY DEF ReportInv
  <2>3. UNCHANGED <<now, reports, Reported, job, request, overtaken>>
        BY <1>2 DEF Sync, Reported
  <2>4. QED BY <2>1, <2>2, <2>3
<1>3. CASE ExtendReads
      BY <1>3 DEF ExtendReads, Reported
<1>4. CASE ExtendWrites
  <2>1. PICK days \in Extensions : MovesBy(days)
        BY <1>4 DEF ExtendWrites, MovesBy
  <2>2. UNCHANGED <<now, reports, Reported, job>>
        BY <1>4 DEF ExtendWrites, Reported
  <2>3. request.since + days \in Int
        BY <1>4 DEF ExtendWrites
  <2>4. CASE days = 0
        BY <2>1, <2>2, <2>4 DEF MovesBy
  <2>5. CASE days # 0 /\ Behind(request.since + days)
    <3>1. row'.since \in overtaken' /\ overtaken \subseteq overtaken'
          BY <2>1, <2>5 DEF MovesBy
    <3>2. QED BY <2>2, <3>1
  <2>6. CASE days # 0 /\ ~Behind(request.since + days)
    <3>1. row'.since = request.since + days /\ overtaken' = overtaken
          BY <2>1, <2>6 DEF MovesBy
    <3>2. \A report \in reports : report.created <= request.since + days
          BY <2>3, <2>6 DEF Behind
    <3>3. job.step # Idle => job.start <= request.since + days
          BY <2>3, <2>6 DEF Behind
    <3>4. QED BY <2>2, <3>1, <3>2, <3>3
  <2>7. QED BY <2>4, <2>5, <2>6
<1>5. CASE Select
      BY <1>5 DEF Select, Reported
<1>6. CASE Check
  <2>1. UNCHANGED <<now, row, reports, Reported, request, overtaken>>
        BY <1>6 DEF Check, Reported
  <2>2. job'.step # Idle => /\ job.step # Idle
                            /\ job'.start = job.start
                            /\ job'.loaded = job.loaded
        BY <1>6 DEF Check, NoJob
  <2>3. QED BY <2>1, <2>2
<1>7. CASE Commit
  <2>1. /\ UNCHANGED <<now, row, request, overtaken>>
        /\ job'.step = Idle
        /\ Reported' = Reported \cup {job.loaded.since}
        BY <1>7, CommitReports DEF Commit, NoJob
  <2>2. ASSUME NEW since \in Times, Accounted(since), AccountedSoon(since)
        PROVE  Accounted(since)'
    <3>1. CASE job.start <= since /\ \A report \in reports : report.created <= since
      <4>1. \A report \in reports' : report.created <= since
            BY <1>7, <3>1 DEF Commit, Report
      <4>2. QED BY <4>1
    <3>2. QED BY <2>1, <2>2, <3>1
  <2>3. QED BY <1>7, <2>1, <2>2 DEF Commit
<1>8. CASE JobFails
      BY <1>8 DEF JobFails, NoJob, NoRow, Reported
<1>9. CASE UNCHANGED vars
      BY <1>9 DEF vars, Reported
<1>10. QED BY <1>1, <1>2, <1>3, <1>4, <1>5, <1>6, <1>7, <1>8, <1>9 DEF Next

\* One report for a window, and none missed.
LEMMA JobStep ==
    ASSUME TypeOK, TypeOK', UnderWayInv, ReportInv, AccountInv, ReportedOnce,
           LapseReported, [Next]_vars
    PROVE  ReportedOnce' /\ LapseReported'
<1> USE GraceAssumption DEF TypeOK, Row, Times, Idle, UnderWayInv
<1>1. CASE Check
  <2>1. UNCHANGED <<now, row, reports, Reported, request, overtaken>>
        BY <1>1 DEF Check, Reported
  <2>2. CASE UNCHANGED swept
        BY <2>1, <2>2 DEF ReportedOnce, LapseReported
  <2>3. CASE swept' = Swept /\ job.loaded.since \in Reported \cup overtaken
        BY <2>1, <2>3 DEF ReportedOnce, LapseReported, Swept
  <2>4. CASE swept' = Swept /\ job.loaded.since \notin Reported \cup overtaken
    <3>1. ~AlreadyReported(job.loaded)
          BY <1>1, <2>4 DEF Check, AlreadyReported, AccountInv, Accounted
    <3>2. ~GraceExpired(job.loaded, now) \/ UNCHANGED swept
          BY <1>1, <3>1 DEF Check
    <3>3. ~GraceExpired(job.loaded, job.start) \/ UNCHANGED swept
          BY <1>1, <3>2 DEF Check, GraceExpired
    <3>4. QED BY <2>2, <2>4, <3>3 DEF Swept
  <2>5. QED BY <1>1, <2>2, <2>3, <2>4 DEF Check
<1>2. CASE Commit
  <2>1. \A report \in reports : report.since # job.loaded.since
        BY <1>2 DEF Commit, ReportInv
  <2>2. ReportedOnce'
        BY <1>2, <2>1 DEF Commit, Report, ReportedOnce
  <2>3. Reported' = Reported \cup {job.loaded.since} /\ UNCHANGED overtaken
        BY <1>2, CommitReports DEF Commit
  <2>4. LapseReported'
        BY <1>2, <2>3 DEF Commit, Swept, LapseReported
  <2>5. QED BY <2>2, <2>4
<1>3. CASE UNCHANGED <<reports, swept>> /\ overtaken \subseteq overtaken'
      BY <1>3 DEF ReportedOnce, LapseReported, Reported
<1>4. QED BY <1>1, <1>2, <1>3 DEF Next, Tick, Sync, ExtendReads, ExtendWrites,
                                  Select, JobFails, vars

LEMMA Inductive == IInv /\ [Next]_vars => IInv'
BY TypeStep, ClockStep, AccountStep, JobStep DEF IInv

LEMMA InvHolds == Spec => []IInv
BY InitOK, Inductive, PTL DEF Spec

---------------------------------------------------------------------------
\* Every variable keeps its type, and a past-due row always has a clock.
THEOREM TypeCorrect == Spec => []TypeOK
<1>1. IInv => TypeOK  BY DEF IInv
<1>2. QED BY <1>1, InvHolds, PTL

\* The nightly job puts a window on record at most once.
THEOREM OnePerWindow == Spec => []ReportedOnce
<1>1. IInv => ReportedOnce  BY DEF IInv
<1>2. QED BY <1>1, InvHolds, PTL

\* The nightly job misses no window but those set to before a report.
THEOREM NoLapseMissed == Spec => []LapseReported
<1>1. IInv => LapseReported  BY DEF IInv
<1>2. QED BY <1>1, InvHolds, PTL

---------------------------------------------------------------------------
\* The audit trail is not told of a lapse before it happened: when the report
\* was committed the window had closed, so its date, the beginning of the run,
\* is after the clock and at most a run's length before the end of the window.
NoEarlyReport ==
    \A r \in reports : r.created > r.since /\ r.created + Patience >= r.since + Grace

\* No window that is on record had begun when an earlier report was dated
\* (_already_reported), even where an operator moved clocks.
ReportsApart ==
    \A r1, r2 \in reports :
        r1 = r2 \/ r1.created <= r2.since \/ r2.created <= r1.since

\* So two reports are a grace window apart, less the length of a run: nothing
\* an operator or a retry does makes the job report more often ("two audit rows
\* per subscriber per night", jobs/expire_grace.py).
ReportsSpaced ==
    \A r1, r2 \in reports :
        \/ r1 = r2
        \/ r1.created + Grace <= r2.created + Patience
        \/ r2.created + Grace <= r1.created + Patience

\* Only a commit adds a report, and it was due.
LEMMA ReportStep ==
    ASSUME IInv, [Next]_vars, NoEarlyReport, ReportsApart
    PROVE  NoEarlyReport' /\ ReportsApart'
<1>1. CASE reports' = reports
      BY <1>1 DEF NoEarlyReport, ReportsApart
<1>2. CASE Commit
  <2>1. reports' = reports \cup {Report}
        BY <1>2 DEF Commit
  <2>2. /\ Report.created \in Nat /\ Report.since \in Int
        /\ Report.created > Report.since
        /\ Report.created + Patience >= Report.since + Grace
        /\ \A r \in reports : r.created <= Report.since
        BY <1>2, GraceAssumption
           DEF Commit, Report, IInv, TypeOK, UnderWayInv, Idle
  <2>3. NoEarlyReport'
        BY <2>1, <2>2 DEF NoEarlyReport
  <2>4. ReportsApart'
        BY <2>1, <2>2 DEF ReportsApart
  <2>5. QED BY <2>3, <2>4
<1>3. QED BY <1>1, <1>2 DEF Next, Tick, Sync, ExtendReads, ExtendWrites,
                            Select, Check, JobFails, vars

LEMMA ReportsHold == Spec => [](NoEarlyReport /\ ReportsApart)
<1>1. Init => NoEarlyReport /\ ReportsApart
      BY DEF Init, NoEarlyReport, ReportsApart
<1>2. QED BY <1>1, InvHolds, ReportStep, PTL DEF Spec

\* Nobody is put on record as lapsed while his window is open.
THEOREM NotBeforeTheTime == Spec => []NoEarlyReport
BY ReportsHold, PTL

\* The operators' trail has one report a window's length, at most.
THEOREM NoReportStorm == Spec => []ReportsSpaced
<1>1. TypeOK /\ NoEarlyReport /\ ReportsApart => ReportsSpaced
  <2> SUFFICES ASSUME TypeOK, NoEarlyReport, ReportsApart,
                      NEW r1 \in reports, NEW r2 \in reports, r1 # r2
               PROVE  \/ r1.created + Grace <= r2.created + Patience
                      \/ r2.created + Grace <= r1.created + Patience
      BY DEF ReportsSpaced
  <2>1. /\ r1.created \in Nat /\ r1.since \in Int
        /\ r2.created \in Nat /\ r2.since \in Int
        BY DEF TypeOK
  <2>2. /\ r1.created + Patience >= r1.since + Grace
        /\ r2.created + Patience >= r2.since + Grace
        BY DEF NoEarlyReport
  <2>3. r1.created <= r2.since \/ r2.created <= r1.since
        BY DEF ReportsApart
  <2>4. QED BY <2>1, <2>2, <2>3, GraceAssumption
<1>2. QED BY <1>1, TypeCorrect, ReportsHold, PTL
=============================================================================
