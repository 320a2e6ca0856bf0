--------------------------- MODULE WebhookDelivery ---------------------------
(***************************************************************************)
(* routers/webhooks.py: how an event of Stripe's becomes handled once it   *)
(* has been delivered at least once.  processed_events is the claim table; *)
(* a worker claims the event, handles it and marks it in the transaction   *)
(* that commits the handling, and only a 200 stops Stripe from retrying.   *)
(*                                                                         *)
(* Workers are requests.  They read the claim row without a lock, die at   *)
(* any step, and Stripe sends an event again whenever it likes: after a    *)
(* 500, after a timeout, or for no reason at all.                          *)
(***************************************************************************)
EXTENDS Naturals, FiniteSets

CONSTANTS
    Workers,        \* webhook requests in progress at once
    Events,         \* events of Stripe's
    NoEvent,        \* what an idle worker works on
    Overlapping,    \* the events whose first deliveries may overlap
    MaxFailures     \* bound on handlers that raise and requests that die

ASSUME EventsAssumption == NoEvent \notin Events
ASSUME OverlappingAssumption == Overlapping \subseteq Events
ASSUME FailuresAssumption == MaxFailures \in Nat

VARIABLES
    claim,      \* processed_events: the status of each event's row
    applied,    \* events whose handling has been committed
    accepted,   \* events Stripe got a 200 for
    failures,   \* failures so far
    event,      \* per worker: the event of its request
    pc,         \* per worker: its next step
    seen        \* per worker: the claim status it read

vars == <<claim, applied, accepted, failures, event, pc, seen>>

ClaimStatus == {"absent", "processing", "processed", "failed"}

Steps == {"idle", "received", "insert", "take", "handle", "mark_failed",
          "answer_ok"}

Init ==
    /\ claim = [e \in Events |-> "absent"]
    /\ applied = {}
    /\ accepted = {}
    /\ failures = 0
    /\ event = [w \in Workers |-> NoEvent]
    /\ pc = [w \in Workers |-> "idle"]
    /\ seen = [w \in Workers |-> "absent"]

---------------------------------------------------------------------------
Go(w, step) == pc' = [pc EXCEPT ![w] = step]

End(w) ==
    /\ Go(w, "idle")
    /\ event' = [event EXCEPT ![w] = NoEvent]
    /\ seen' = [seen EXCEPT ![w] = "absent"]

Handling(e) == {w \in Workers : event[w] = e}

\* Stripe posts the event: the first time, again, or once more after a 200.
Deliver(w, e) ==
    /\ pc[w] = "idle"
    /\ e \notin Overlapping /\ claim[e] = "absent" => Handling(e) = {}
    /\ event' = [event EXCEPT ![w] = e]
    /\ Go(w, "received")
    /\ UNCHANGED <<claim, applied, accepted, failures, seen>>

\* _claim reads the row.  Processed already: answer 200, as a duplicate.
ReadClaim(w) ==
    /\ pc[w] = "received"
    /\ LET status == claim[event[w]]
       IN  /\ seen' = [seen EXCEPT ![w] = status]
           /\ Go(w, CASE status = "absent"    -> "insert"
                      [] status = "processed" -> "answer_ok"
                      [] OTHER                -> "take")
    /\ UNCHANGED <<claim, applied, accepted, failures, event>>

\* Mistaken: the row is inserted as processed, and marked once.
InsertProcessed(w) ==
    /\ pc[w] = "insert"
    /\ claim' = [claim EXCEPT ![event[w]] = "processed"]
    /\ Go(w, "handle")
    /\ UNCHANGED <<applied, accepted, failures, event, seen>>

\* No row: insert one.  When another delivery inserted it first, that one
\* owns the event and this one answers 200.
InsertClaim(w) ==
    /\ pc[w] = "insert"
    /\ \/ /\ claim[event[w]] = "absent"
          /\ claim' = [claim EXCEPT ![event[w]] = "processing"]
          /\ Go(w, "handle")
       \/ /\ claim[event[w]] # "absent"
          /\ Go(w, "answer_ok")
          /\ UNCHANGED claim
    /\ UNCHANGED <<applied, accepted, failures, event, seen>>

\* Mistaken: a row left at processing belongs to somebody else.
TakeOnlyFailed(w) ==
    /\ pc[w] = "take"
    /\ IF seen[w] = "failed"
       THEN /\ claim' = [claim EXCEPT ![event[w]] = "processing"]
            /\ Go(w, "handle")
       ELSE Go(w, "answer_ok") /\ UNCHANGED claim
    /\ UNCHANGED <<applied, accepted, failures, event, seen>>

\* A row that was failed or still processing is claimed again.  The UPDATE
\* is sent only if the status read was another.
TakeClaim(w) ==
    /\ pc[w] = "take"
    /\ claim' = IF seen[w] = "processing" THEN claim
                ELSE [claim EXCEPT ![event[w]] = "processing"]
    /\ Go(w, "handle")
    /\ UNCHANGED <<applied, accepted, failures, event, seen>>

\* Mistaken: an error of the handling is logged, and the event marked.
HandleSwallowing(w) ==
    /\ pc[w] = "handle"
    /\ applied' \in {applied, applied \cup {event[w]}}
    /\ claim' = [claim EXCEPT ![event[w]] = "processed"]
    /\ Go(w, "answer_ok")
    /\ UNCHANGED <<accepted, failures, event, seen>>

\* _handle, _mark("processed") and one commit for both.
Handle(w) ==
    /\ pc[w] = "handle"
    /\ applied' = applied \cup {event[w]}
    /\ claim' = [claim EXCEPT ![event[w]] = "processed"]
    /\ Go(w, "answer_ok")
    /\ UNCHANGED <<accepted, failures, event, seen>>

\* The handling raises: everything it did is rolled back.
HandleFails(w) ==
    /\ pc[w] = "handle"
    /\ failures < MaxFailures
    /\ failures' = failures + 1
    /\ Go(w, "mark_failed")
    /\ UNCHANGED <<claim, applied, accepted, event, seen>>

\* Mistaken: the row gets a word _claim does not know.
MarkUnknown(w) ==
    /\ pc[w] = "mark_failed"
    /\ claim' = [claim EXCEPT ![event[w]] = "error"]
    /\ End(w)
    /\ UNCHANGED <<applied, accepted, failures>>

\* _mark("failed"), whatever the row says by now, and a 500.
MarkFailed(w) ==
    /\ pc[w] = "mark_failed"
    /\ claim' = [claim EXCEPT ![event[w]] = "failed"]
    /\ End(w)
    /\ UNCHANGED <<applied, accepted, failures>>

AnswerOk(w) ==
    /\ pc[w] = "answer_ok"
    /\ accepted' = accepted \cup {event[w]}
    /\ End(w)
    /\ UNCHANGED <<claim, applied, failures>>

\* The request dies, or its answer never arrives; Stripe times out.
Die(w) ==
    /\ pc[w] # "idle"
    /\ failures < MaxFailures
    /\ failures' = failures + 1
    /\ End(w)
    /\ UNCHANGED <<claim, applied, accepted>>

Step(w) ==
    \/ ReadClaim(w) \/ InsertClaim(w) \/ TakeClaim(w)
    \/ Handle(w) \/ MarkFailed(w) \/ AnswerOk(w)

Next ==
    \E w \in Workers :
        \/ \E e \in Events : Deliver(w, e)
        \/ Step(w) \/ HandleFails(w) \/ Die(w)

Spec == Init /\ [][Next]_vars

\* A request that is served takes its steps, and Stripe goes on retrying an
\* event it has no 200 for.
Retry(e) == e \notin accepted /\ \E w \in Workers : Deliver(w, e)

Fairness ==
    /\ \A w \in Workers : WF_vars(Step(w))
    /\ \A e \in Events : SF_vars(Retry(e))

FairSpec == Spec /\ Fairness

---------------------------------------------------------------------------
(* Properties *)

\* Every variable keeps its type.
TypeOK ==
    /\ claim \in [Events -> ClaimStatus]
    /\ applied \subseteq Events /\ accepted \subseteq Events
    /\ failures \in 0..MaxFailures
    /\ event \in [Workers -> Events \cup {NoEvent}]
    /\ pc \in [Workers -> Steps]
    /\ seen \in [Workers -> ClaimStatus]

\* Stripe stops sending an event only once its handling is committed, unless
\* its first deliveries overlap: however requests fail, die, time out or are
\* repeated, a 200 given for a duplicate stands for work that was done.
AcceptedMeansApplied == accepted \ Overlapping \subseteq applied

\* With overlapping deliveries too, Stripe is never told to stop while the
\* work is in nobody's hands, as long as no request fails.
AcceptedMeansOwned ==
    \A e \in accepted \ applied :
        failures > 0 \/ \E w \in Handling(e) : pc[w] = "handle"

\* The mark and the handling are one commit, so a crash between them cannot
\* leave an event marked and not handled.
ProcessedMeansApplied ==
    \A e \in Events : claim[e] = "processed" => e \in applied

\* However requests fail, die or are repeated, every event whose deliveries
\* do not overlap is handled and Stripe is told so.
EventuallyHandled ==
    \A e \in Events \ Overlapping : <>(e \in applied /\ e \in accepted)

\* _claim's docstring: "False means we have already fully processed it."
DuplicateMeansProcessed ==
    \A w \in Workers : pc[w] = "answer_ok" => event[w] \in applied
=============================================================================
