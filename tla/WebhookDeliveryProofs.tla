------------------------ MODULE WebhookDeliveryProofs ------------------------
(***************************************************************************)
(* Proofs about WebhookDelivery, for any number of workers and events and  *)
(* any number of failures.                                                 *)
(*                                                                         *)
(* The invariant behind both results is Claims: who may be working on an   *)
(* event, given what its row in processed_events says.  A row is never     *)
(* removed, so an event whose row is absent has been answered to nobody;   *)
(* where deliveries do not overlap, the request that finds no row is alone *)
(* with its event and never meets the unique key.                          *)
(***************************************************************************)
EXTENDS WebhookDelivery, TLAPS

\* A request has an event exactly while it runs.
Busy ==
    \A w \in Workers : IF pc[w] = "idle" THEN event[w] = NoEvent
                      ELSE event[w] \in Events

Claims ==
    /\ \A w \in Workers :
          pc[w] \in {"take", "handle", "mark_failed", "answer_ok"}
              => claim[event[w]] # "absent"
    /\ \A w \in Workers :
          pc[w] = "insert" /\ event[w] \notin Overlapping
              => claim[event[w]] = "absent"
    /\ \A e \in Events \ Overlapping : \A v, w \in Workers :
          claim[e] = "absent" /\ event[v] = e /\ event[w] = e => v = w
    /\ \A e \in accepted : claim[e] # "absent"

Answers ==
    /\ ProcessedMeansApplied
    /\ \A w \in Workers :
          pc[w] = "answer_ok" /\ event[w] \notin Overlapping
              => event[w] \in applied
    /\ AcceptedMeansApplied

\* Until something fails, an event is in hand from its claim to its commit.
InHand(e) == \E w \in Workers : event[w] = e /\ pc[w] = "handle"

Owned ==
    failures = 0 =>
        /\ \A w \in Workers : pc[w] # "mark_failed"
        /\ \A e \in Events :
              /\ claim[e] # "failed"
              /\ claim[e] = "processing" => e \in applied \/ InHand(e)

IInv == TypeOK /\ Busy /\ Claims /\ Answers /\ Owned

---------------------------------------------------------------------------
\* Types, and that requests have events, are kept by every step.
LEMMA TypeStep == TypeOK /\ Busy /\ [Next]_vars => (TypeOK /\ Busy)'
<1> SUFFICES ASSUME TypeOK, Busy, [Next]_vars PROVE (TypeOK /\ Busy)'
  OBVIOUS
<1> USE EventsAssumption, FailuresAssumption
    DEF TypeOK, Busy, ClaimStatus, Steps
<1>1. CASE UNCHANGED vars
  BY <1>1 DEF vars
<1>2. ASSUME NEW w \in Workers, NEW e \in Events, Deliver(w, e)
      PROVE (TypeOK /\ Busy)'
  BY <1>2 DEF Deliver, Go, Handling
<1>3. ASSUME NEW w \in Workers, ReadClaim(w) PROVE (TypeOK /\ Busy)'
  BY <1>3 DEF ReadClaim, Go
<1>4. ASSUME NEW w \in Workers, InsertClaim(w) PROVE (TypeOK /\ Busy)'
  BY <1>4 DEF InsertClaim, Go
<1>5. ASSUME NEW w \in Workers, TakeClaim(w) PROVE (TypeOK /\ Busy)'
  BY <1>5 DEF TakeClaim, Go
<1>6. ASSUME NEW w \in Workers, Handle(w) PROVE (TypeOK /\ Busy)'
  BY <1>6 DEF Handle, Go
<1>7. ASSUME NEW w \in Workers, HandleFails(w) PROVE (TypeOK /\ Busy)'
  BY <1>7 DEF HandleFails, Go
<1>8. ASSUME NEW w \in Workers, MarkFailed(w) PROVE (TypeOK /\ Busy)'
  BY <1>8 DEF MarkFailed, End, Go
<1>9. ASSUME NEW w \in Workers, AnswerOk(w) PROVE (TypeOK /\ Busy)'
  BY <1>9 DEF AnswerOk, End, Go
<1>10. ASSUME NEW w \in Workers, Die(w) PROVE (TypeOK /\ Busy)'
  BY <1>10 DEF Die, End, Go
<1> QED
  BY <1>1, <1>2, <1>3, <1>4, <1>5, <1>6, <1>7, <1>8, <1>9, <1>10
  DEF Next, Step

\* Who may be working on an event is kept by every step.
LEMMA ClaimsStep == TypeOK /\ Busy /\ Claims /\ [Next]_vars => Claims'
<1> SUFFICES ASSUME TypeOK, Busy, Claims, [Next]_vars PROVE Claims'
  OBVIOUS
<1> USE EventsAssumption DEF TypeOK, Busy, Claims
<1>1. CASE UNCHANGED vars
  BY <1>1 DEF vars
<1>2. ASSUME NEW w \in Workers, NEW e \in Events, Deliver(w, e) PROVE Claims'
  BY <1>2 DEF Deliver, Go, Handling
<1>3. ASSUME NEW w \in Workers, ReadClaim(w) PROVE Claims'
  BY <1>3 DEF ReadClaim, Go
<1>4. ASSUME NEW w \in Workers, InsertClaim(w) PROVE Claims'
  BY <1>4 DEF InsertClaim, Go
<1>5. ASSUME NEW w \in Workers, TakeClaim(w) PROVE Claims'
  BY <1>5 DEF TakeClaim, Go
<1>6. ASSUME NEW w \in Workers, Handle(w) PROVE Claims'
  BY <1>6 DEF Handle, Go
<1>7. ASSUME NEW w \in Workers, HandleFails(w) PROVE Claims'
  BY <1>7 DEF HandleFails, Go
<1>8. ASSUME NEW w \in Workers, MarkFailed(w) PROVE Claims'
  BY <1>8 DEF MarkFailed, End, Go
<1>9. ASSUME NEW w \in Workers, AnswerOk(w) PROVE Claims'
  BY <1>9 DEF AnswerOk, End, Go
<1>10. ASSUME NEW w \in Workers, Die(w) PROVE Claims'
  BY <1>10 DEF Die, End, Go
<1> QED
  BY <1>1, <1>2, <1>3, <1>4, <1>5, <1>6, <1>7, <1>8, <1>9, <1>10
  DEF Next, Step

\* No step answers 200 for work not done.
LEMMA AnswersStep ==
    TypeOK /\ Busy /\ Claims /\ Answers /\ [Next]_vars => Answers'
<1> SUFFICES ASSUME TypeOK, Busy, Claims, Answers, [Next]_vars PROVE Answers'
  OBVIOUS
<1> USE EventsAssumption, OverlappingAssumption
    DEF TypeOK, Busy, Claims, Answers,
        ProcessedMeansApplied, AcceptedMeansApplied
<1>1. CASE UNCHANGED vars
  BY <1>1 DEF vars
<1>2. ASSUME NEW w \in Workers, NEW e \in Events, Deliver(w, e) PROVE Answers'
  BY <1>2 DEF Deliver, Go, Handling
<1>3. ASSUME NEW w \in Workers, ReadClaim(w) PROVE Answers'
  BY <1>3 DEF ReadClaim, Go
<1>4. ASSUME NEW w \in Workers, InsertClaim(w) PROVE Answers'
  BY <1>4 DEF InsertClaim, Go
<1>5. ASSUME NEW w \in Workers, TakeClaim(w) PROVE Answers'
  BY <1>5 DEF TakeClaim, Go
<1>6. ASSUME NEW w \in Workers, Handle(w) PROVE Answers'
  BY <1>6 DEF Handle, Go
<1>7. ASSUME NEW w \in Workers, HandleFails(w) PROVE Answers'
  BY <1>7 DEF HandleFails, Go
<1>8. ASSUME NEW w \in Workers, MarkFailed(w) PROVE Answers'
  BY <1>8 DEF MarkFailed, End, Go
<1>9. ASSUME NEW w \in Workers, AnswerOk(w) PROVE Answers'
  BY <1>9 DEF AnswerOk, End, Go
<1>10. ASSUME NEW w \in Workers, Die(w) PROVE Answers'
  BY <1>10 DEF Die, End, Go
<1> QED
  BY <1>1, <1>2, <1>3, <1>4, <1>5, <1>6, <1>7, <1>8, <1>9, <1>10
  DEF Next, Step

\* No step but a failing one lets go of a claimed event.
LEMMA OwnedStep == TypeOK /\ Busy /\ Claims /\ Owned /\ [Next]_vars => Owned'
<1> SUFFICES ASSUME TypeOK, Busy, Claims, Owned, [Next]_vars PROVE Owned'
  OBVIOUS
<1> USE EventsAssumption, FailuresAssumption
    DEF TypeOK, Busy, Claims, Owned, InHand, ClaimStatus, Steps
<1>1. CASE UNCHANGED vars
  BY <1>1 DEF vars
<1>2. ASSUME NEW w \in Workers, NEW e \in Events, Deliver(w, e) PROVE Owned'
  BY <1>2 DEF Deliver, Go, Handling
<1>3. ASSUME NEW w \in Workers, ReadClaim(w) PROVE Owned'
  BY <1>3 DEF ReadClaim, Go
<1>4. ASSUME NEW w \in Workers, InsertClaim(w) PROVE Owned'
  BY <1>4 DEF InsertClaim, Go
<1>5. ASSUME NEW w \in Workers, TakeClaim(w) PROVE Owned'
  BY <1>5 DEF TakeClaim, Go
<1>6. ASSUME NEW w \in Workers, Handle(w) PROVE Owned'
  BY <1>6 DEF Handle, Go
<1>7. ASSUME NEW w \in Workers, HandleFails(w) PROVE Owned'
  BY <1>7 DEF HandleFails, Go
<1>8. ASSUME NEW w \in Workers, MarkFailed(w) PROVE Owned'
  BY <1>8 DEF MarkFailed, End, Go
<1>9. ASSUME NEW w \in Workers, AnswerOk(w) PROVE Owned'
  BY <1>9 DEF AnswerOk, End, Go
<1>10. ASSUME NEW w \in Workers, Die(w) PROVE Owned'
  BY <1>10 DEF Die, End, Go
<1> QED
  BY <1>1, <1>2, <1>3, <1>4, <1>5, <1>6, <1>7, <1>8, <1>9, <1>10
  DEF Next, Step

\* The four parts together are inductive.
LEMMA Invariance == Spec => []IInv
<1>1. Init => IInv
  BY FailuresAssumption, EventsAssumption
  DEF Init, IInv, TypeOK, Busy, Claims, Answers, Owned, InHand, ClaimStatus,
      Steps, ProcessedMeansApplied, AcceptedMeansApplied
<1>2. IInv /\ [Next]_vars => IInv'
  BY TypeStep, ClaimsStep, AnswersStep, OwnedStep DEF IInv
<1> QED BY <1>1, <1>2, PTL DEF Spec

---------------------------------------------------------------------------
\* Every variable of the webhook endpoint keeps its type.
THEOREM TypeCorrect == Spec => []TypeOK
<1>1. IInv => TypeOK
  BY DEF IInv
<1> QED BY <1>1, Invariance, PTL

\* Stripe is never told to stop sending an event whose first deliveries did
\* not overlap before the handling is committed, however many requests work
\* on it, fail, die or are repeated (stripe_webhook and _claim).
THEOREM NothingAcceptedUndone == Spec => []AcceptedMeansApplied
<1>1. IInv => AcceptedMeansApplied
  BY DEF IInv, Answers
<1> QED BY <1>1, Invariance, PTL

\* A row of processed_events says processed only of an event whose handling
\* was committed (_mark and commit_and_invalidate).
THEOREM MarkIsTruthful == Spec => []ProcessedMeansApplied
<1>1. IInv => ProcessedMeansApplied
  BY DEF IInv, Answers
<1> QED BY <1>1, Invariance, PTL

\* When deliveries do overlap, the 200 a loser of the insert gives stands for
\* work somebody is doing, until a request fails.
THEOREM AcceptedIsOwned == Spec => []AcceptedMeansOwned
<1>1. IInv => AcceptedMeansOwned
  <2> SUFFICES ASSUME IInv, NEW e \in accepted \ applied, ~(failures > 0)
               PROVE  \E w \in Handling(e) : pc[w] = "handle"
    BY DEF AcceptedMeansOwned
  <2>1. e \in Events /\ failures = 0 /\ claim[e] \in ClaimStatus
    BY FailuresAssumption DEF IInv, TypeOK
  <2>2. claim[e] = "processing"
    BY <2>1 DEF IInv, Claims, Owned, Answers, ProcessedMeansApplied,
               ClaimStatus
  <2>3. InHand(e)
    BY <2>1, <2>2 DEF IInv, Owned
  <2> QED BY <2>3 DEF InHand, Handling
<1> QED BY <1>1, Invariance, PTL
=============================================================================
