--------------------------- MODULE CheckoutProofs ---------------------------
(***************************************************************************)
(* Theorems about checkout, for any number of requests at once, whatever   *)
(* they ask for, and for any bounds.                                       *)
(***************************************************************************)
EXTENDS Checkout, TLAPS

USE WorkersAssumption, ParamsAssumption, BoundsAssumption

---------------------------------------------------------------------------
(* Types *)

ReqSet == [params : Params \cup {NoParams}, held : 0..customers,
           customer : 0..customers, session : sessions \cup {NoSession},
           n : 0..requests, live : SUBSET sessions]

Busy(w) == pc[w] # "idle"

\* What a request has at each of its steps.
Provided ==
    \A w \in Workers :
        /\ Busy(w) => req[w].params \in Params /\ req[w].n # 0
        /\ pc[w] \in {"attach", "session", "commit"} => req[w].customer # NoCustomer
        /\ pc[w] = "commit" => req[w].session \in sessions

Typed == TypeOK /\ Provided

LEMMA ReqType == ASSUME TypeOK, NEW w \in Workers PROVE req[w] \in ReqSet
BY DEF TypeOK, ReqSet

LEMMA InitTyped == Init => Typed
<1> SUFFICES ASSUME Init PROVE Typed
    OBVIOUS
<1>1. Idle \in ReqSet
    BY DEF Init, ReqSet, Idle, NoCustomer
<1>2. req \in [Workers -> ReqSet]
    BY <1>1 DEF Init
<1>3. row \in [present : BOOLEAN, customer : 0..customers, access : BOOLEAN]
  <2>1. {NoCustomer} \subseteq 0..customers /\ {FALSE} \subseteq BOOLEAN
        BY DEF Init, NoCustomer
  <2>2. QED BY <2>1 DEF Init
<1>4. customerKey \in [customer : 0..customers, day : 0..day]
    BY DEF Init, NoCustomer
<1>5. pc \in [Workers -> {"idle", "insert", "ask", "customer", "attach",
                         "session", "commit"}]
    BY DEF Init
<1>6. TypeOK
    BY <1>2, <1>3, <1>4, <1>5 DEF Init, TypeOK, ReqSet, Session
<1>7. QED BY <1>6 DEF Init, Typed, Provided, Busy

\* What grows keeps the types of what refers to it.
LEMMA SessionGrows ==
    ASSUME TypeOK, day' \in Nat, customers' \in Nat, requests' \in Nat,
           day <= day', customers <= customers', requests <= requests'
    PROVE  sessions \subseteq Session'
BY DEF TypeOK, Session

LEMMA ReqGrows ==
    ASSUME TypeOK, customers' \in Nat, requests' \in Nat,
           customers <= customers', requests <= requests',
           sessions \subseteq sessions', NEW w \in Workers
    PROVE  req[w] \in ReqSet'
BY DEF TypeOK, ReqSet

\* The types are kept by the user, by Stripe and by each step of a request.
LEMMA StepTyped == Typed /\ [Next]_vars => Typed'
<1> SUFFICES ASSUME Typed, [Next]_vars PROVE Typed'
    OBVIOUS
<1> USE DEF Typed
<1>0. \A w \in Workers : req[w] \in ReqSet
    BY ReqType
<1>1. CASE NextDay
  <2>1. sessions \subseteq Session'
        BY <1>1, SessionGrows DEF NextDay, stripeVars, counts, TypeOK
  <2>2. QED BY <1>1, <2>1 DEF NextDay, stripeVars, userVars, counts, TypeOK,
                              Provided, Busy, Session
<1>2. CASE CustomerKeyExpires
  <2>1. customerKey' \in [customer : 0..customers, day : 0..day]
        BY <1>2 DEF CustomerKeyExpires, TypeOK, NoCustomer
  <2>2. UNCHANGED <<day, customers, sessions, row, lock, userVars, pc, req,
                    counts>>
        BY <1>2 DEF CustomerKeyExpires
  <2>3. QED BY <2>1, <2>2 DEF userVars, counts, TypeOK, Provided, Busy, Session
<1>3. ASSUME NEW s \in shown, Pay(s) PROVE Typed'
  <2>1. s.customer \in 1..customers
        BY DEF TypeOK, Session
  <2>2. late' = late \cup {s.customer} /\ live' = live \cup {s} /\ paid' = paid \cup {s}
        BY <1>3 DEF Pay
  <2>3. late \subseteq 1..customers /\ live \subseteq paid /\ paid \subseteq shown
        BY DEF TypeOK
  <2>4. late' \subseteq 1..customers /\ live' \subseteq paid' /\ paid' \subseteq shown
        BY <2>1, <2>2, <2>3
  <2>5. QED BY <1>3, <2>4 DEF Pay, stripeVars, counts, TypeOK, Provided, Busy,
                              Session
<1>4. ASSUME NEW s \in live, Lapse(s) PROVE Typed'
  <2>1. s.customer \in 1..customers
        BY DEF TypeOK, Session
  <2>2. QED BY <1>4, <2>1 DEF Lapse, stripeVars, counts, TypeOK, Provided, Busy,
                              Session
<1>5. ASSUME NEW c \in late, Webhook(c) PROVE Typed'
  BY <1>5 DEF Webhook, stripeVars, counts, TypeOK, Provided, Busy, Session
<1>6. ASSUME NEW w \in Workers, NEW p \in Params, Begin(w, p) PROVE Typed'
  <2>1. requests' \in 0..MaxRequests /\ requests' = requests + 1
        BY <1>6 DEF Begin, TypeOK
  <2>2. sessions \subseteq Session'
        BY <1>6, <2>1, SessionGrows DEF Begin, stripeVars, TypeOK
  <2>3. \A v \in Workers : req[v] \in ReqSet'
        BY <1>6, <2>1, ReqGrows DEF Begin, stripeVars, TypeOK
  <2>4. [params |-> p, held |-> row.customer, customer |-> NoCustomer,
         session |-> NoSession, n |-> requests', live |-> live] \in ReqSet'
    <3>1. live \subseteq sessions /\ row.customer \in 0..customers
          BY DEF TypeOK
    <3>2. sessions' = sessions /\ customers' = customers /\ customers \in Nat
          BY <1>6 DEF Begin, stripeVars, TypeOK
    <3>3. NoSession \in sessions \cup {NoSession} /\ requests' \in 0..requests'
          BY <2>1
    <3>4. QED BY <3>1, <3>2, <3>3 DEF ReqSet, NoCustomer
  <2>5. req' \in [Workers -> ReqSet']
        BY <1>6, <2>3, <2>4 DEF Begin, TypeOK
  <2>6. TypeOK'
        BY <1>6, <2>1, <2>2, <2>5 DEF Begin, TypeOK, ReqSet, Go, stripeVars,
                                      userVars
  <2>7. Provided'
        BY <1>6, <2>1 DEF Begin, Provided, Busy, Go, TypeOK, stripeVars
  <2>8. QED BY <2>6, <2>7
<1>7. ASSUME NEW w \in Workers,
             \/ InsertRow(w) \/ AskStripe(w) \/ Attach(w) \/ Fail(w)
      PROVE  Typed'
  <2>1. Idle \in ReqSet
        BY DEF ReqSet, Idle, NoCustomer, TypeOK
  <2>2. /\ row' = row /\ sessions' = sessions /\ customers' = customers
        /\ customerKey' = customerKey /\ day' = day /\ requests' = requests
        /\ shown' = shown /\ paid' = paid /\ live' = live /\ late' = late
        /\ lock' \in Workers \cup {NoWorker} /\ failures' \in 0..MaxFailures
        BY <1>7 DEF InsertRow, AskStripe, Attach, Fail, End, stripeVars,
                    userVars, counts, TypeOK
  <2>3. req' = req \/ req' = [req EXCEPT ![w] = Idle]
        BY <1>7 DEF InsertRow, AskStripe, Attach, Fail, End
  <2>4. req' \in [Workers -> ReqSet']
        BY <1>0, <2>1, <2>2, <2>3 DEF ReqSet, TypeOK
  <2>5. \/ pc' = [pc EXCEPT ![w] = "idle"]
        \/ pc' = [pc EXCEPT ![w] = "customer"] /\ req' = req /\ pc[w] # "idle"
        \/ /\ pc' = [pc EXCEPT ![w] = "session"] /\ req' = req
           /\ pc[w] = "attach"
        BY <1>7 DEF InsertRow, AskStripe, Attach, Fail, End, Go
  <2>6. TypeOK'
        BY <2>2, <2>4, <2>5 DEF TypeOK, ReqSet, Session
  <2>7. Provided'
        BY <2>2, <2>3, <2>5 DEF Provided, Busy, TypeOK
  <2>8. QED BY <2>6, <2>7
<1>8. ASSUME NEW w \in Workers, EnsureCustomer(w) PROVE Typed'
  <2>1. /\ customers' \in Nat /\ customers <= customers'
        /\ customerKey' \in [customer : 0..customers', day : 0..day]
        BY <1>8 DEF EnsureCustomer, TypeOK
  <2>2. PICK c \in (1..customers') :
            /\ req' = [req EXCEPT ![w].customer = c]
            /\ pc' = [pc EXCEPT ![w] = IF req[w].held = c THEN "session"
                                       ELSE "attach"]
        BY <1>8, <2>1, <1>0 DEF EnsureCustomer, UseCustomer, Go, NoCustomer,
                                ReqSet, TypeOK
  <2>3. /\ sessions' = sessions /\ requests' = requests /\ day' = day
        /\ row' = row /\ lock' = lock /\ failures' = failures
        /\ shown' = shown /\ paid' = paid /\ live' = live /\ late' = late
        /\ pc[w] = "customer"
        BY <1>8 DEF EnsureCustomer, userVars, counts
  <2>4. sessions \subseteq Session'
        BY <2>1, <2>3, SessionGrows DEF TypeOK
  <2>5. \A v \in Workers : req[v] \in ReqSet'
        BY <2>1, <2>3, ReqGrows DEF TypeOK
  <2>6. req' \in [Workers -> ReqSet']
        BY <2>1, <2>2, <2>5 DEF ReqSet, TypeOK
  <2>7. TypeOK'
    <3>1. late' \subseteq 1..customers'
          BY <2>1, <2>3 DEF TypeOK
    <3>2. row' \in [present : BOOLEAN, customer : 0..customers', access : BOOLEAN]
          BY <2>1, <2>3 DEF TypeOK
    <3>3. QED BY <2>1, <2>2, <2>3, <2>4, <2>6, <3>1, <3>2 DEF TypeOK, ReqSet
  <2>8. Provided'
        BY <2>2, <2>3, <1>0 DEF Provided, Busy, TypeOK, NoCustomer, ReqSet
  <2>9. QED BY <2>7, <2>8
<1>9. ASSUME NEW w \in Workers, CreateSession(w) PROVE Typed'
  <2> DEFINE wanted == [customer |-> req[w].customer, params |-> req[w].params,
                        day |-> day, by |-> req[w].n]
  <2>0. /\ customers' = customers /\ requests' = requests /\ day' = day
        /\ customerKey' = customerKey /\ row' = row /\ failures' = failures
        /\ shown' = shown /\ paid' = paid /\ live' = live /\ late' = late
        /\ pc[w] = "session"
        BY <1>9 DEF CreateSession, userVars, counts
  <2>1. wanted \in Session
        BY <1>0, <2>0 DEF Session, Provided, Busy, ReqSet, TypeOK, NoCustomer
  <2>2. \/ /\ \/ sessions' = sessions \cup {wanted}
              \/ sessions' = sessions
           /\ \E s \in sessions' : req' = [req EXCEPT ![w].session = s]
           /\ pc' = [pc EXCEPT ![w] = "commit"]
           /\ lock' = lock
        \/ sessions' = sessions /\ End(w)
        BY <1>9 DEF CreateSession, Go
  <2>3. sessions \subseteq sessions' /\ sessions' \subseteq Session
        BY <2>1, <2>2 DEF TypeOK
  <2>4. \A v \in Workers : req[v] \in ReqSet'
        BY <2>0, <2>3, ReqGrows DEF TypeOK
  <2>5. Idle \in ReqSet'
        BY <2>0 DEF ReqSet, Idle, NoCustomer, TypeOK
  <2>6. req' \in [Workers -> ReqSet']
    <3>1. CASE End(w)
          BY <2>4, <2>5, <3>1 DEF TypeOK, End
    <3>2. ASSUME NEW s \in sessions', req' = [req EXCEPT ![w].session = s]
          PROVE  req' \in [Workers -> ReqSet']
      <4>1. [req[w] EXCEPT !.session = s] \in ReqSet'
            BY <2>4 DEF ReqSet
      <4>2. QED BY <2>4, <3>2, <4>1 DEF TypeOK
    <3>3. QED BY <2>2, <3>1, <3>2
  <2>7. /\ lock' \in Workers \cup {NoWorker}
        /\ pc' = [pc EXCEPT ![w] = "commit"] \/ pc' = [pc EXCEPT ![w] = "idle"]
        BY <2>2 DEF TypeOK, End, Go
  <2>8. TypeOK'
        BY <2>0, <2>3, <2>6, <2>7 DEF TypeOK, ReqSet, Session
  <2>9. Provided'
    <3>1. CASE End(w)
          BY <2>0, <2>3, <3>1 DEF End, Go, Provided, Busy, TypeOK
    <3>2. CASE /\ \E s \in sessions' : req' = [req EXCEPT ![w].session = s]
               /\ pc' = [pc EXCEPT ![w] = "commit"]
          BY <2>0, <2>3, <3>2, <1>0 DEF Provided, Busy, TypeOK, ReqSet
    <3>3. QED BY <2>2, <3>1, <3>2
  <2>10. QED BY <2>8, <2>9
<1>10. ASSUME NEW w \in Workers, Commit(w) PROVE Typed'
  <2>1. /\ sessions' = sessions /\ customers' = customers /\ day' = day
        /\ customerKey' = customerKey /\ requests' = requests
        /\ failures' = failures /\ paid' = paid /\ live' = live
        /\ late' = late /\ pc[w] = "commit"
        BY <1>10 DEF Commit, stripeVars, counts
  <2>2. Idle \in ReqSet'
        BY <2>1 DEF ReqSet, Idle, NoCustomer, TypeOK
  <2>3. req' \in [Workers -> ReqSet']
        BY <1>10, <2>1, <2>2, <1>0 DEF Commit, End, ReqSet, TypeOK
  <2>4. shown' \subseteq sessions /\ shown \subseteq shown'
        BY <1>10, <2>1 DEF Commit, TypeOK, Provided
  <2>5. row' \in [present : BOOLEAN, customer : 0..customers, access : BOOLEAN]
        BY <1>10, <1>0 DEF Commit, TypeOK, ReqSet
  <2>6. TypeOK'
        BY <1>10, <2>1, <2>3, <2>4, <2>5 DEF Commit, End, Go, TypeOK, ReqSet,
                                             Session
  <2>7. Provided'
        BY <1>10, <2>1 DEF Commit, End, Go, Provided, Busy, TypeOK
  <2>8. QED BY <2>6, <2>7
<1>11. CASE UNCHANGED vars
  BY <1>11 DEF vars, stripeVars, userVars, counts, TypeOK, Provided, Busy,
               Session
<1>12. QED
  BY <1>1, <1>2, <1>3, <1>4, <1>5, <1>6, <1>7, <1>8, <1>9, <1>10, <1>11 DEF Next

\* Every variable keeps its type.
THEOREM TypeCorrect == Spec => []TypeOK
<1>1. Typed => TypeOK
    BY DEF Typed
<1>2. QED BY InitTyped, StepTyped, <1>1, PTL DEF Spec

---------------------------------------------------------------------------
(* Stripe's keys: an intent is paid once *)

\* Of the checkouts opened on one day, no two are for the same parameters: the
\* second is answered with the first, or refused.
KeysUnique ==
    \A s, t \in sessions : CheckoutKey(s) = CheckoutKey(t) => s = t

LEMMA StepKeyed == KeysUnique /\ [Next]_vars => KeysUnique'
<1> SUFFICES ASSUME KeysUnique, [Next]_vars PROVE KeysUnique'
    OBVIOUS
<1>1. ASSUME NEW w \in Workers, CreateSession(w) PROVE KeysUnique'
  <2> DEFINE wanted == [customer |-> req[w].customer, params |-> req[w].params,
                        day |-> day, by |-> req[w].n]
             known  == {s \in sessions : CheckoutKey(s) = CheckoutKey(wanted)}
  <2>1. CASE known = {} /\ sessions' = sessions \cup {wanted}
        BY <2>1 DEF KeysUnique, CheckoutKey
  <2>2. CASE sessions' = sessions
        BY <2>2 DEF KeysUnique, CheckoutKey
  <2>3. QED BY <1>1, <2>1, <2>2 DEF CreateSession
<1>2. CASE sessions' = sessions
      BY <1>2 DEF KeysUnique, CheckoutKey
<1>3. QED
  BY <1>1, <1>2 DEF Next, NextDay, CustomerKeyExpires, Pay, Lapse, Webhook, Begin,
     InsertRow, AskStripe, EnsureCustomer, Attach, Commit, Fail, stripeVars, vars

LEMMA AlwaysKeyed == Spec => []KeysUnique
<1>1. Init => KeysUnique
    BY DEF Init, KeysUnique
<1>2. QED BY <1>1, StepKeyed, PTL DEF Spec

\* A double click, a second tab or a retry of the same request on one day never
\* ends in two live subscriptions.
THEOREM OneIntentOnePayment == Spec => []IntentPaidOnce
<1>1. TypeOK /\ KeysUnique => IntentPaidOnce
    BY DEF TypeOK, KeysUnique, IntentPaidOnce, CheckoutKey
<1>2. QED BY TypeCorrect, AlwaysKeyed, <1>1, PTL

---------------------------------------------------------------------------
(* One customer, and no checkout for one who has paid *)

\* All that is under way or paid is the customer's whom the row names, or, as
\* long as it names nobody, the one Stripe keeps under the user's key: the key
\* outlives the requests that found no customer in the row.
Known(w) == IF req[w].held # NoCustomer THEN req[w].held
            ELSE customerKey.customer

Ours ==
    /\ ~row.present => row.customer = NoCustomer
    /\ \A s \in shown : s.customer = row.customer
    /\ late \subseteq {row.customer}
    /\ \A w \in Workers :
        /\ Busy(w) /\ req[w].held # NoCustomer => req[w].held = row.customer
        /\ Busy(w) /\ row.customer # NoCustomer => Known(w) = row.customer
        /\ pc[w] = "attach" => req[w].held = NoCustomer
        /\ pc[w] \in {"attach", "session", "commit"}
              => req[w].customer = Known(w)
        /\ pc[w] \in {"session", "commit"} /\ req[w].held = NoCustomer
              => lock = w
        /\ pc[w] = "insert" => req[w].held = NoCustomer
        /\ pc[w] = "commit" => req[w].session.customer = req[w].customer

\* What a request knew to be live when it began is over before it opens a
\* checkout.
Unpaid ==
    \A w \in Workers :
        /\ Busy(w) => req[w].live \subseteq paid
        /\ Busy(w) /\ req[w].held = NoCustomer => req[w].live = {}
        /\ pc[w] \in {"customer", "attach", "session"}
              => req[w].live \cap live = {}

Inv == Ours /\ Unpaid

LEMMA InitInv == Init => Inv
BY DEF Init, Inv, Ours, Unpaid, Busy, NoCustomer

\* A row that somebody has paid under names a customer.
LEMMA ShownNamed ==
    ASSUME Typed, Ours, shown # {} \/ late # {}
    PROVE  row.customer # NoCustomer
<1>1. \A s \in shown : s.customer \in 1..customers
    BY DEF Typed, TypeOK, Session
<1>2. late \subseteq 1..customers /\ customers \in Nat
    BY DEF Typed, TypeOK
<1>3. QED BY <1>1, <1>2 DEF Ours, NoCustomer

\* What the user and the webhooks do: pay what was shown, let a subscription
\* end, and sync the row with the customer it already names.
LEMMA WorldInv ==
    ASSUME Typed, Inv,
           \/ \E s \in shown : Pay(s)
           \/ \E s \in live : Lapse(s)
           \/ \E c \in late : Webhook(c)
    PROVE  Inv'
<1>1. ASSUME NEW s \in shown, Pay(s) PROVE Inv'
  <2>1. s.customer = row.customer /\ s \notin paid
        BY <1>1 DEF Pay, Inv, Ours
  <2>2. Ours'
        BY <1>1, <2>1 DEF Pay, stripeVars, Inv, Ours, Busy, Known
  <2>3. Unpaid'
        BY <1>1, <2>1 DEF Pay, Inv, Unpaid, Busy
  <2>4. QED BY <2>2, <2>3 DEF Inv
<1>2. ASSUME NEW s \in live, Lapse(s) PROVE Inv'
  <2>1. s.customer = row.customer
        BY DEF Typed, TypeOK, Inv, Ours
  <2>2. Ours'
        BY <1>2, <2>1 DEF Lapse, stripeVars, Inv, Ours, Busy, Known
  <2>3. Unpaid'
        BY <1>2 DEF Lapse, Inv, Unpaid, Busy
  <2>4. QED BY <2>2, <2>3 DEF Inv
<1>3. ASSUME NEW c \in late, Webhook(c) PROVE Inv'
  <2>1. row'.present /\ row'.customer = row.customer
        BY <1>3 DEF Webhook, Inv, Ours
  <2>2. Ours'
        BY <1>3, <2>1 DEF Webhook, stripeVars, Inv, Ours, Busy, Known
  <2>3. Unpaid'
        BY <1>3 DEF Webhook, Inv, Unpaid, Busy
  <2>4. QED BY <2>2, <2>3 DEF Inv
<1>4. QED BY <1>1, <1>2, <1>3

\* A request reads the row, and what is live then is the row's customer's.
LEMMA BeginInv ==
    ASSUME Typed, Inv, NEW w \in Workers, NEW p \in Params, Begin(w, p)
    PROVE  Inv'
<1>1. /\ row' = row /\ lock' = lock /\ customerKey' = customerKey
      /\ shown' = shown /\ paid' = paid /\ live' = live /\ late' = late
      /\ pc[w] = "idle"
    BY DEF Begin, stripeVars, userVars
<1>2. /\ req'[w].held = row.customer /\ req'[w].live = live
      /\ pc'[w] = IF ~row.present THEN "insert"
                  ELSE IF row.customer # NoCustomer THEN "ask" ELSE "customer"
      /\ \A v \in Workers \ {w} : req'[v] = req[v] /\ pc'[v] = pc[v]
    BY DEF Begin, Go, Typed, TypeOK
<1>3. live \subseteq paid /\ (row.customer = NoCustomer => live = {})
    BY ShownNamed DEF Typed, TypeOK, Inv
<1>4. Ours'
    BY <1>1, <1>2 DEF Inv, Ours, Busy, Known
<1>5. Unpaid'
    BY <1>1, <1>2, <1>3 DEF Inv, Unpaid, Busy, Typed, TypeOK
<1>6. QED BY <1>4, <1>5 DEF Inv

\* A request that ends, in whatever way, takes its claims with it.
LEMMA EndInv ==
    ASSUME Typed, Inv, NEW w \in Workers, End(w),
           UNCHANGED <<row, customerKey, userVars>>
    PROVE  Inv'
<1>1. /\ pc'[w] = "idle"
      /\ \A v \in Workers \ {w} :
            /\ req'[v] = req[v] /\ pc'[v] = pc[v]
            /\ lock = v => lock' = v
    BY DEF End, Go, Typed, TypeOK
<1>2. Ours'
    BY <1>1 DEF Inv, Ours, Busy, Known, userVars
<1>3. Unpaid'
    BY <1>1 DEF Inv, Unpaid, Busy, userVars
<1>4. QED BY <1>2, <1>3 DEF Inv

LEMMA InsertRowInv ==
    ASSUME Typed, Inv, NEW w \in Workers, InsertRow(w)
    PROVE  Inv'
<1>1. CASE End(w) /\ row' = row
    BY <1>1, EndInv DEF InsertRow, stripeVars
<1>2. CASE lock' = w /\ Go(w, "customer") /\ UNCHANGED <<row, req>>
  <2>1. /\ pc[w] = "insert" /\ lock = NoWorker /\ pc'[w] = "customer"
        /\ \A v \in Workers \ {w} : pc'[v] = pc[v]
        BY <1>2 DEF InsertRow, Go, Typed, TypeOK
  <2>2. customerKey' = customerKey /\ UNCHANGED userVars
        BY DEF InsertRow, stripeVars
  <2>3. Ours'
        BY <1>2, <2>1, <2>2 DEF Inv, Ours, Busy, Known, userVars
  <2>4. req[w].live = {}
        BY <2>1 DEF Inv, Ours, Unpaid, Busy
  <2>5. Unpaid'
        BY <1>2, <2>1, <2>2, <2>4 DEF Inv, Unpaid, Busy, userVars
  <2>6. QED BY <2>3, <2>5 DEF Inv
<1>3. QED BY <1>1, <1>2 DEF InsertRow

\* Stripe says that nothing of the row's customer is live, so nothing is.
LEMMA AskStripeInv ==
    ASSUME Typed, Inv, NEW w \in Workers, AskStripe(w)
    PROVE  Inv'
<1>1. CASE End(w)
    BY <1>1, EndInv DEF AskStripe, stripeVars
<1>2. CASE /\ LiveSubscriptions(req[w].held) = {} /\ Go(w, "customer")
           /\ UNCHANGED <<lock, req>>
  <2>1. /\ pc[w] = "ask" /\ pc'[w] = "customer"
        /\ \A v \in Workers \ {w} : pc'[v] = pc[v]
        BY <1>2 DEF AskStripe, Go, Typed, TypeOK
  <2>2. row' = row /\ customerKey' = customerKey /\ UNCHANGED userVars
        BY DEF AskStripe, stripeVars
  <2>3. Ours'
        BY <1>2, <2>1, <2>2 DEF Inv, Ours, Busy, Known, userVars
  <2>4. req[w].live \cap live = {}
    <3>1. CASE req[w].held = NoCustomer
          BY <2>1, <3>1 DEF Inv, Unpaid, Busy
    <3>2. CASE req[w].held # NoCustomer
      <4>1. req[w].held = row.customer
            BY <2>1, <3>2 DEF Inv, Ours, Busy
      <4>2. \A s \in live : s.customer = row.customer
            BY DEF Typed, TypeOK, Inv, Ours
      <4>3. QED BY <1>2, <4>1, <4>2 DEF LiveSubscriptions
    <3>3. QED BY <3>1, <3>2
  <2>5. Unpaid'
        BY <1>2, <2>1, <2>2, <2>4 DEF Inv, Unpaid, Busy, userVars
  <2>6. QED BY <2>3, <2>5 DEF Inv
<1>3. QED BY <1>1, <1>2 DEF AskStripe

\* Nobody who is past this step without a customer in the row is there before
\* the key is: a new customer is created for the first of them only.
LEMMA EnsureCustomerInv ==
    ASSUME Typed, Inv, NEW w \in Workers, EnsureCustomer(w)
    PROVE  Inv'
<1>1. /\ row' = row /\ lock' = lock /\ UNCHANGED userVars /\ pc[w] = "customer"
    BY DEF EnsureCustomer
<1>2. PICK c :
        /\ UseCustomer(w, c)
        /\ c = (IF req[w].held # NoCustomer THEN req[w].held
                ELSE customerKey'.customer)
        /\ customerKey' = customerKey \/ customerKey.customer = NoCustomer
    BY DEF EnsureCustomer
<1>3. /\ req'[w].held = req[w].held /\ req'[w].live = req[w].live
      /\ req'[w].customer = c
      /\ pc'[w] = IF req[w].held = c THEN "session" ELSE "attach"
      /\ \A v \in Workers \ {w} : req'[v] = req[v] /\ pc'[v] = pc[v]
    BY <1>2, ReqType DEF UseCustomer, Go, Typed, TypeOK, ReqSet
<1>4. c # NoCustomer
    BY <1>3, <1>1, StepTyped DEF Typed, Provided, Next
<1>5. customerKey' = customerKey \/ \A v \in Workers :
          pc[v] \in {"attach", "session", "commit"} => req[v].held # NoCustomer
    BY <1>2 DEF Typed, Provided, Inv, Ours, Known
<1>6. customerKey' = customerKey \/ \A v \in Workers :
          Busy(v) /\ row.customer # NoCustomer => req[v].held # NoCustomer
    BY <1>2 DEF Inv, Ours, Known
<1>7. Ours'
    BY <1>1, <1>2, <1>3, <1>4, <1>5, <1>6 DEF Inv, Ours, Busy, Known, userVars
<1>8. Unpaid'
    BY <1>1, <1>3 DEF Inv, Unpaid, Busy, userVars
<1>9. QED BY <1>7, <1>8 DEF Inv

\* The flush waits for the lock, which others past their flush have.
LEMMA AttachInv ==
    ASSUME Typed, Inv, NEW w \in Workers, Attach(w)
    PROVE  Inv'
<1>1. /\ pc[w] = "attach" /\ pc'[w] = "session" /\ lock' = w
      /\ lock \in {NoWorker, w} /\ row' = row /\ req' = req
      /\ customerKey' = customerKey /\ UNCHANGED userVars
      /\ \A v \in Workers \ {w} : pc'[v] = pc[v]
    BY DEF Attach, Go, stripeVars, Typed, TypeOK
<1>2. Ours'
    BY <1>1 DEF Inv, Ours, Busy, Known, userVars
<1>3. Unpaid'
    BY <1>1 DEF Inv, Unpaid, Busy, userVars
<1>4. QED BY <1>2, <1>3 DEF Inv

\* Stripe answers with the checkout that was asked for, a new or an old one.
LEMMA CreateSessionInv ==
    ASSUME Typed, Inv, NEW w \in Workers, CreateSession(w)
    PROVE  Inv'
<1>1. CASE End(w)
    BY <1>1, EndInv DEF CreateSession
<1>2. CASE ~End(w)
  <2>1. PICK s :
          /\ req' = [req EXCEPT ![w].session = s]
          /\ s.customer = req[w].customer
        BY <1>2 DEF CreateSession
  <2>2. /\ pc[w] = "session" /\ pc'[w] = "commit" /\ lock' = lock
        /\ \A v \in Workers \ {w} : pc'[v] = pc[v] /\ req'[v] = req[v]
        BY <1>2, <2>1 DEF CreateSession, Go, Typed, TypeOK
  <2>3. /\ req'[w].held = req[w].held /\ req'[w].customer = req[w].customer
        /\ req'[w].session = s /\ req'[w].live = req[w].live
        BY <2>1, ReqType DEF Typed, TypeOK, ReqSet
  <2>4. row' = row /\ customerKey' = customerKey /\ UNCHANGED userVars
        BY DEF CreateSession
  <2>5. Ours'
        BY <2>1, <2>2, <2>3, <2>4 DEF Inv, Ours, Busy, Known, userVars
  <2>6. Unpaid'
        BY <2>2, <2>3, <2>4 DEF Inv, Unpaid, Busy, userVars
  <2>7. QED BY <2>5, <2>6 DEF Inv
<1>3. QED BY <1>1, <1>2

\* The commit leaves in the row the customer whose checkout it is.
LEMMA CommitNames ==
    ASSUME Typed, Inv, NEW w \in Workers, Commit(w)
    PROVE  row'.customer = req[w].customer /\ (row'.present \/ row' = row)
<1>1. pc[w] = "commit" /\ req[w].customer = Known(w)
    BY DEF Commit, Inv, Ours
<1>2. CASE lock = w
    BY <1>2 DEF Commit, Typed, TypeOK
<1>3. CASE lock # w
  <2>1. req[w].held # NoCustomer
        BY <1>1, <1>3 DEF Inv, Ours
  <2>2. QED BY <1>1, <1>3, <2>1 DEF Commit, Inv, Ours, Busy, Known
<1>4. QED BY <1>2, <1>3

\* The commit names the customer that the row named, or that all who found no
\* customer in it agree on.
LEMMA CommitInv ==
    ASSUME Typed, Inv, NEW w \in Workers, Commit(w)
    PROVE  Inv'
<1>1. /\ pc[w] = "commit" /\ pc'[w] = "idle"
      /\ shown' = shown \cup {req[w].session}
      /\ customerKey' = customerKey
      /\ paid' = paid /\ live' = live /\ late' = late
      /\ \A v \in Workers \ {w} :
            /\ req'[v] = req[v] /\ pc'[v] = pc[v]
            /\ lock = v => lock' = v
    BY DEF Commit, End, Go, stripeVars, Typed, TypeOK
<1>2. /\ req[w].customer = Known(w) /\ req[w].customer # NoCustomer
      /\ req[w].session.customer = req[w].customer
    BY <1>1 DEF Typed, Provided, Inv, Ours
<1>3. row.customer # NoCustomer => row.customer = req[w].customer
    BY <1>1, <1>2 DEF Inv, Ours, Busy
<1>4. row'.customer = req[w].customer /\ (row'.present \/ row' = row)
    BY CommitNames
<1>5. (shown # {} \/ late # {}) => row.customer = req[w].customer
    BY <1>3, ShownNamed DEF Inv
<1>6. \A v \in Workers \ {w} : Busy(v) => Known(v) = req[w].customer
  <2> SUFFICES ASSUME NEW v \in Workers \ {w}, Busy(v)
               PROVE  Known(v) = req[w].customer
      OBVIOUS
  <2>1. CASE row.customer # NoCustomer
        BY <1>3, <2>1 DEF Inv, Ours
  <2>2. CASE row.customer = NoCustomer
    <3>1. req[v].held = NoCustomer
          BY <2>2 DEF Inv, Ours
    <3>2. req[w].held = NoCustomer
          BY <1>1, <2>2 DEF Inv, Ours, Busy
    <3>3. QED BY <1>2, <3>1, <3>2 DEF Known
  <2>3. QED BY <2>1, <2>2
<1>7. Ours'
    BY <1>1, <1>2, <1>4, <1>5, <1>6 DEF Inv, Ours, Busy, Known
<1>8. Unpaid'
    BY <1>1 DEF Inv, Unpaid, Busy
<1>9. QED BY <1>7, <1>8 DEF Inv

LEMMA StepInv == Typed /\ Inv /\ [Next]_vars => Inv'
<1> SUFFICES ASSUME Typed, Inv, [Next]_vars PROVE Inv'
    OBVIOUS
<1>1. CASE NextDay
  BY <1>1 DEF NextDay, stripeVars, userVars, Inv, Ours, Unpaid, Busy, Known
<1>2. CASE CustomerKeyExpires
  BY <1>2 DEF CustomerKeyExpires, userVars, Inv, Ours, Unpaid, Busy, Known
<1>3. ASSUME NEW w \in Workers, Fail(w) PROVE Inv'
  BY <1>3, EndInv DEF Fail, stripeVars
<1>4. CASE UNCHANGED vars
  BY <1>4 DEF vars, stripeVars, userVars, Inv, Ours, Unpaid, Busy, Known
<1>5. QED
  BY <1>1, <1>2, <1>3, <1>4, WorldInv, BeginInv, InsertRowInv, AskStripeInv,
     EnsureCustomerInv, AttachInv, CreateSessionInv, CommitInv DEF Next

LEMMA Invariance == Spec => [](Typed /\ Inv)
BY InitTyped, StepTyped, InitInv, StepInv, PTL DEF Spec

\* Every live subscription of the user is the row's customer's, whichever of
\* two first requests commits first and whatever the webhooks do meanwhile.
THEOREM OneCustomer == Spec => []SingleCustomer
<1>1. Typed /\ Inv => SingleCustomer
    BY DEF Typed, TypeOK, Inv, Ours, SingleCustomer
<1>2. QED BY Invariance, <1>1, PTL

\* A customer who had paid when he clicked is given no second checkout while
\* that subscription lives.
THEOREM PaidMeansRefused == Spec => NoCheckoutWhilePaid
<1>1. Typed /\ Inv =>
         [\A w \in Workers : pc[w] = "session" /\ pc'[w] = "commit"
              => req[w].live \cap live = {}]_pc
    BY DEF Inv, Unpaid
<1>2. QED BY Invariance, <1>1, PTL DEF NoCheckoutWhilePaid

\* Every checkout that a user was given the URL of is for the customer that
\* the row names, though the request read the row, asked Stripe and committed
\* at three different times: whatever he pays, the sync finds.
ShownOurs == \A s \in shown : s.customer = row.customer

\* Once the row names a customer it names him for good, and no request that is
\* still under way, having read the row before, creates another in Stripe.
CustomerForGood ==
    [][row.customer # NoCustomer
          => row'.customer = row.customer /\ customers' = customers
      ]_<<row, customers>>

\* Not only what was paid: nothing that could be paid is a stranger's.
THEOREM EveryCheckoutOurs == Spec => []ShownOurs
<1>1. Inv => ShownOurs
    BY DEF Inv, Ours, ShownOurs
<1>2. QED BY Invariance, <1>1, PTL

\* Whichever of several first requests wins.
THEOREM CustomerStays == Spec => CustomerForGood
<1>1. Typed /\ Inv /\ [Next]_vars =>
         [row.customer # NoCustomer
            => row'.customer = row.customer /\ customers' = customers
         ]_<<row, customers>>
  <2> SUFFICES ASSUME Typed, Inv, [Next]_vars, row.customer # NoCustomer
               PROVE  row'.customer = row.customer /\ customers' = customers
      OBVIOUS
  <2>1. ASSUME NEW w \in Workers, Commit(w)
        PROVE  row'.customer = row.customer /\ customers' = customers
    <3>1. req[w].customer = row.customer
          BY <2>1 DEF Commit, Inv, Ours, Busy
    <3>2. row' = row \/ row'.customer = req[w].customer
          BY <2>1 DEF Commit, Typed, TypeOK
    <3>3. QED BY <2>1, <3>1, <3>2 DEF Commit, stripeVars
  <2>2. ASSUME NEW w \in Workers, EnsureCustomer(w)
        PROVE  row'.customer = row.customer /\ customers' = customers
    <3>1. Known(w) = row.customer
          BY <2>2 DEF EnsureCustomer, Inv, Ours, Busy
    <3>2. req[w].held # NoCustomer \/ customerKey.customer # NoCustomer
          BY <3>1 DEF Known
    <3>3. QED BY <2>2, <3>2 DEF EnsureCustomer
  <2>3. ASSUME NEW c \in late, Webhook(c)
        PROVE  row'.customer = row.customer /\ customers' = customers
        BY <2>3 DEF Webhook, stripeVars, Inv, Ours
  <2>4. ASSUME NEW w \in Workers, InsertRow(w)
        PROVE  row' = row /\ customers' = customers
        BY <2>4 DEF InsertRow, stripeVars
  <2>5. ASSUME NEW w \in Workers, CreateSession(w)
        PROVE  row' = row /\ customers' = customers
        BY <2>5 DEF CreateSession
  <2>6. CASE row' = row /\ customers' = customers
        BY <2>6
  <2>7. QED BY <2>1, <2>2, <2>3, <2>4, <2>5, <2>6 DEF Next, NextDay,
       CustomerKeyExpires, Pay, Lapse, Begin, AskStripe, Attach, Fail,
       stripeVars, vars
<1>2. QED BY InitTyped, StepTyped, InitInv, StepInv, <1>1, PTL
          DEF Spec, CustomerForGood

---------------------------------------------------------------------------
(* A request that repeats another is answered alike *)

\* Who has a customer of Stripe's and not yet the row.
Holding(w) == pc[w] \in {"attach", "session", "commit"}

\* Until a request fails Stripe has one customer of the user at most, and as
\* long as the row does not name it, it is the one under the user's key, which
\* does not expire before the request that holds it is over.
Calm ==
    failures = 0 =>
        /\ customers <= 1
        /\ customers = 1 /\ row.customer = NoCustomer
              => customerKey.customer = 1 /\ \E w \in Workers : Holding(w)

\* What a request wants and what Stripe has under its key.
Wanted(w) == [customer |-> req[w].customer, params |-> req[w].params,
              day |-> day, by |-> req[w].n]
Under(w)  == {s \in sessions : CheckoutKey(s) = CheckoutKey(Wanted(w))}

\* Stripe refuses a key for the customer alone.
LEMMA RefusedForCustomer ==
    ASSUME TypeOK, NEW w \in Workers, CreateSession(w), pc'[w] # "commit"
    PROVE  \E s \in Under(w) : s.customer # req[w].customer
<1> DEFINE same == {s \in Under(w) : s.customer = Wanted(w).customer
                                     /\ s.params = Wanted(w).params}
<1>1. Under(w) # {} /\ same = {}
    BY DEF CreateSession, Under, Wanted, Go, TypeOK
<1>2. \A s \in Under(w) : s.params = Wanted(w).params
    BY DEF Under, CheckoutKey
<1>3. QED BY <1>1, <1>2 DEF Wanted

\* While Stripe has one customer only, it refuses nobody.
LEMMA CalmAnswers ==
    ASSUME Typed, NEW w \in Workers, CreateSession(w), customers <= 1
    PROVE  pc'[w] = "commit"
<1> SUFFICES ASSUME pc'[w] # "commit" PROVE FALSE
    OBVIOUS
<1>1. PICK s \in sessions : s.customer # req[w].customer
    BY RefusedForCustomer DEF Typed, Under
<1>2. s.customer \in 1..customers
    BY DEF Typed, TypeOK, Session
<1>3. req[w].customer \in 0..customers /\ req[w].customer # 0
    BY ReqType DEF Typed, TypeOK, ReqSet, Provided, CreateSession, NoCustomer
<1>4. customers \in Nat
    BY DEF Typed, TypeOK
<1>5. QED BY <1>1, <1>2, <1>3, <1>4

\* A step that lets nobody go and changes neither the row's customer nor
\* Stripe's.
LEMMA CalmKept ==
    ASSUME Calm, failures' = failures, customers' = customers,
           row'.customer = row.customer, customerKey' = customerKey,
           \A v \in Workers : Holding(v) => Holding(v)'
    PROVE  Calm'
BY DEF Calm

LEMMA StepCalm == Typed /\ Inv /\ Calm /\ [Next]_vars => Calm'
<1> SUFFICES ASSUME Typed, Inv, Calm, [Next]_vars PROVE Calm'
    OBVIOUS
<1>1. CASE NextDay
    BY <1>1, CalmKept DEF NextDay, stripeVars, counts, Holding
<1>2. CASE CustomerKeyExpires
    BY <1>2 DEF CustomerKeyExpires, Calm, Holding, counts
<1>3. ASSUME NEW s \in shown, Pay(s) PROVE Calm'
    BY <1>3, CalmKept DEF Pay, stripeVars, counts, Holding
<1>4. ASSUME NEW s \in live, Lapse(s) PROVE Calm'
    BY <1>4, CalmKept DEF Lapse, stripeVars, counts, Holding
<1>5. ASSUME NEW c \in late, Webhook(c) PROVE Calm'
  <2>1. row'.customer = row.customer
        BY <1>5 DEF Webhook, Inv, Ours
  <2>2. QED BY <1>5, <2>1, CalmKept DEF Webhook, stripeVars, counts, Holding
<1>6. ASSUME NEW w \in Workers, NEW p \in Params, Begin(w, p) PROVE Calm'
  <2>1. \A v \in Workers : Holding(v) => Holding(v)'
        BY <1>6 DEF Begin, Holding, Go, Typed, TypeOK
  <2>2. QED BY <1>6, <2>1, CalmKept DEF Begin, stripeVars
<1>7. ASSUME NEW w \in Workers, InsertRow(w) PROVE Calm'
  <2>1. \A v \in Workers : Holding(v) => Holding(v)'
        BY <1>7 DEF InsertRow, End, Holding, Go, Typed, TypeOK
  <2>2. QED BY <1>7, <2>1, CalmKept DEF InsertRow, stripeVars, counts
<1>8. ASSUME NEW w \in Workers, AskStripe(w) PROVE Calm'
  <2>1. \A v \in Workers : Holding(v) => Holding(v)'
        BY <1>8 DEF AskStripe, End, Holding, Go, Typed, TypeOK
  <2>2. QED BY <1>8, <2>1, CalmKept DEF AskStripe, stripeVars, counts
<1>9. ASSUME NEW w \in Workers, EnsureCustomer(w) PROVE Calm'
  <2>1. row' = row /\ failures' = failures
        BY <1>9 DEF EnsureCustomer, counts
  <2>2. Holding(w)' /\ \A v \in Workers : Holding(v) => Holding(v)'
        BY <1>9 DEF EnsureCustomer, UseCustomer, Holding, Go, Typed, TypeOK
  <2>3. CASE UNCHANGED <<customers, customerKey>>
        BY <2>1, <2>2, <2>3, CalmKept
  <2>4. CASE /\ req[w].held = NoCustomer /\ customerKey.customer = NoCustomer
             /\ customers' = customers + 1
             /\ customerKey' = [customer |-> customers', day |-> day]
    <3>1. row.customer = NoCustomer
          BY <1>9, <2>4 DEF EnsureCustomer, Inv, Ours, Busy, Known
    <3>2. failures = 0 => customers = 0
          BY <2>4, <3>1 DEF Calm, NoCustomer, Typed, TypeOK
    <3>3. QED BY <2>1, <2>2, <2>4, <3>2 DEF Calm
  <2>5. QED BY <1>9, <2>3, <2>4 DEF EnsureCustomer
<1>10. ASSUME NEW w \in Workers, Attach(w) PROVE Calm'
  <2>1. \A v \in Workers : Holding(v) => Holding(v)'
        BY <1>10 DEF Attach, Holding, Go, Typed, TypeOK
  <2>2. QED BY <1>10, <2>1, CalmKept DEF Attach, stripeVars, counts
<1>11. ASSUME NEW w \in Workers, CreateSession(w) PROVE Calm'
  <2>1. failures' = failures /\ row' = row /\ UNCHANGED <<customers, customerKey>>
        BY <1>11 DEF CreateSession, counts
  <2>2. \A v \in Workers \ {w} : pc'[v] = pc[v]
        BY <1>11 DEF CreateSession, End, Go, Typed, TypeOK
  <2>3. failures = 0 => pc'[w] = "commit"
        BY <1>11, CalmAnswers DEF Calm
  <2>4. failures = 0 => \A v \in Workers : Holding(v) => Holding(v)'
        BY <2>2, <2>3 DEF Holding
  <2>5. QED BY <2>1, <2>4 DEF Calm
<1>12. ASSUME NEW w \in Workers, Commit(w) PROVE Calm'
  <2>1. row'.customer # NoCustomer
    <3>1. req[w].customer # NoCustomer
          BY <1>12 DEF Commit, Typed, Provided
    <3>2. QED BY <1>12, <3>1, CommitNames
  <2>2. failures' = failures /\ customers' = customers
        BY <1>12 DEF Commit, stripeVars, counts
  <2>3. QED BY <2>1, <2>2 DEF Calm
<1>13. ASSUME NEW w \in Workers, Fail(w) PROVE Calm'
  BY <1>13 DEF Fail, Calm, Typed, TypeOK
<1>14. CASE UNCHANGED vars
  BY <1>14, CalmKept DEF vars, stripeVars, counts, Holding
<1>15. QED
  BY <1>1, <1>2, <1>3, <1>4, <1>5, <1>6, <1>7, <1>8, <1>9, <1>10, <1>11, <1>12,
     <1>13, <1>14 DEF Next

\* A checkout the user was shown is for the customer that any request he makes
\* finds, so under the key of a repeat there is this one alone.
LEMMA RepeatFinds ==
    ASSUME Typed, Inv, KeysUnique, NEW w \in Workers, CreateSession(w),
           NEW s \in shown, s.params = req[w].params, s.day = day
    PROVE  pc'[w] = "commit" /\ req'[w].session = s
<1>1. s \in sessions /\ pc[w] = "session"
    BY DEF Typed, TypeOK, CreateSession
<1>2. s.customer = req[w].customer
  <2>1. row.customer # NoCustomer
        BY ShownNamed DEF Inv
  <2>2. QED BY <1>1, <2>1 DEF Inv, Ours, Busy
<1>3. Under(w) = {s}
  <2>1. CheckoutKey(s) = CheckoutKey(Wanted(w))
        BY DEF CheckoutKey, Wanted
  <2>2. QED BY <1>1, <2>1 DEF Under, KeysUnique
<1>4. pc'[w] = "commit"
    BY <1>2, <1>3, RefusedForCustomer DEF Typed
<1>5. \E t \in Under(w) : req' = [req EXCEPT ![w].session = t]
    BY <1>3, <1>4 DEF CreateSession, Under, Wanted, End, Go, Typed, TypeOK
<1>6. QED BY <1>3, <1>4, <1>5, ReqType DEF Typed, TypeOK, ReqSet

\* Stripe refuses no request for its key unless one failed before, and answers
\* a repeat with the checkout the user was shown, for any number of requests in
\* any order, whichever found the customer in the row, under the user's key or
\* by creating it.
THEOREM RepeatsAnsweredAlike == Spec => RepeatAnswered
<1>1. Init => Calm
    BY DEF Init, Calm
<1>2. Typed /\ Inv /\ Calm /\ KeysUnique /\ [Next]_vars =>
         [\A w \in Workers :
             pc[w] = "session" /\ pc'[w] # "session" /\ failures' = failures
                 => /\ failures = 0 => pc'[w] = "commit"
                    /\ \A s \in shown :
                          s.params = req[w].params /\ s.day = day
                              => req'[w].session = s]_pc
  <2> SUFFICES ASSUME Typed, Inv, Calm, KeysUnique, [Next]_vars,
                      NEW w \in Workers, pc[w] = "session", pc'[w] # "session",
                      failures' = failures
               PROVE  /\ failures = 0 => pc'[w] = "commit"
                      /\ \A s \in shown :
                            s.params = req[w].params /\ s.day = day
                                => req'[w].session = s
      OBVIOUS
  <2>1. CreateSession(w)
    <3>1. \A v \in Workers : ~Fail(v)
          BY DEF Fail, Typed, TypeOK
    <3>2. \A v \in Workers \ {w} :
             /\ \A p \in Params : ~Begin(v, p)
             /\ ~InsertRow(v) /\ ~AskStripe(v) /\ ~EnsureCustomer(v)
             /\ ~Attach(v) /\ ~CreateSession(v) /\ ~Commit(v)
          BY DEF Begin, InsertRow, AskStripe, EnsureCustomer, UseCustomer, Attach,
                 CreateSession, Commit, End, Go, Typed, TypeOK
    <3>3. /\ \A p \in Params : ~Begin(w, p)
          /\ ~InsertRow(w) /\ ~AskStripe(w) /\ ~EnsureCustomer(w)
          /\ ~Attach(w) /\ ~Commit(w)
          BY DEF Begin, InsertRow, AskStripe, EnsureCustomer, Attach, Commit
    <3>4. QED BY <3>1, <3>2, <3>3 DEF Next, NextDay, CustomerKeyExpires, Pay,
                                      Lapse, Webhook, vars
  <2>2. failures = 0 => pc'[w] = "commit"
        BY <2>1, CalmAnswers DEF Calm
  <2>3. QED BY <2>1, <2>2, RepeatFinds
<1>3. QED BY InitTyped, StepTyped, InitInv, StepInv, StepCalm, AlwaysKeyed,
             <1>1, <1>2, PTL DEF Spec, RepeatAnswered

---------------------------------------------------------------------------
(* The lock *)

\* The row's lock is held by a request that has written and not committed, and
\* by none that is over: however a request ends or fails, it lets go.
LockHolderBusy ==
    lock # NoWorker => pc[lock] \in {"customer", "attach", "session", "commit"}

\* For any number of requests at once.
THEOREM NoLockLeaked == Spec => []LockHolderBusy
<1>1. Init => LockHolderBusy
    BY DEF Init, LockHolderBusy
<1>2. TypeOK /\ LockHolderBusy /\ [Next]_vars => LockHolderBusy'
  <2> SUFFICES ASSUME TypeOK, LockHolderBusy, [Next]_vars PROVE LockHolderBusy'
      OBVIOUS
  <2> DEFINE Writing == {"customer", "attach", "session", "commit"}
  <2>1. CASE UNCHANGED <<lock, pc>>
        BY <2>1 DEF LockHolderBusy
  <2>2. ASSUME NEW w \in Workers, End(w) PROVE LockHolderBusy'
    <3>1. lock' # w /\ lock' \in {lock, NoWorker}
          BY <2>2 DEF End
    <3>2. lock' # NoWorker => lock' \in Workers /\ pc'[lock'] = pc[lock]
          BY <2>2, <3>1 DEF End, Go, TypeOK
    <3>3. QED BY <3>1, <3>2 DEF LockHolderBusy
  <2>3. ASSUME NEW w \in Workers, NEW step \in Writing, Go(w, step),
               lock' \in {lock, w}
        PROVE  LockHolderBusy'
    <3>1. pc'[w] \in Writing /\ \A v \in Workers \ {w} : pc'[v] = pc[v]
          BY <2>3 DEF Go, TypeOK
    <3>2. lock \in Workers \cup {NoWorker}
          BY DEF TypeOK
    <3>3. CASE lock' = w
          BY <3>1, <3>3 DEF LockHolderBusy
    <3>4. CASE lock' = lock /\ lock # w
          BY <3>1, <3>2, <3>4 DEF LockHolderBusy
    <3>5. QED BY <2>3, <3>3, <3>4
  <2>4. ASSUME NEW w \in Workers, NEW p \in Params, Begin(w, p)
        PROVE  LockHolderBusy'
    <3>1. lock # w /\ lock' = lock
          BY <2>4 DEF Begin, LockHolderBusy
    <3>2. \A v \in Workers \ {w} : pc'[v] = pc[v]
          BY <2>4 DEF Begin, Go, TypeOK
    <3>3. QED BY <3>1, <3>2 DEF LockHolderBusy, TypeOK
  <2>5. ASSUME NEW w \in Workers,
               \/ InsertRow(w) \/ AskStripe(w) \/ EnsureCustomer(w)
               \/ Attach(w) \/ CreateSession(w) \/ Commit(w) \/ Fail(w)
        PROVE  LockHolderBusy'
    <3>1. End(w) \/ \E step \in Writing : Go(w, step) /\ lock' \in {lock, w}
          BY <2>5 DEF InsertRow, AskStripe, EnsureCustomer, UseCustomer,
                      Attach, CreateSession, Commit, Fail
    <3>2. QED BY <2>2, <2>3, <3>1
  <2>6. QED BY <2>1, <2>4, <2>5 DEF Next, NextDay, CustomerKeyExpires, Pay,
                                    Lapse, Webhook, vars
<1>3. QED BY TypeCorrect, <1>1, <1>2, PTL DEF Spec
=============================================================================
