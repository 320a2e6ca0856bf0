------------------------------ MODULE Checkout ------------------------------
(***************************************************************************)
(* start_checkout (services/subscriptions.py) for one user who clicks as   *)
(* often as he likes, in several tabs, with the webhooks that report his   *)
(* payments arriving late.                                                 *)
(*                                                                         *)
(* A worker is a POST /v1/billing/checkout.  Its session reads the row     *)
(* without a lock, asks Stripe twice or three times and commits at the     *)
(* end; what it flushed meanwhile locks the row.  Stripe keeps, for a day, *)
(* the answer it gave under an idempotency key.  The URL of a hosted       *)
(* checkout reaches the user only after the commit, and he may pay any he  *)
(* was shown while it lasts.                                               *)
(***************************************************************************)
EXTENDS Naturals, FiniteSets

CONSTANTS
    Workers,        \* checkout requests in progress at once
    NoWorker,       \* nobody, as the holder of the row's lock
    Params,         \* what a request may ask for: tier, interval, URLs, promo
    NoParams,       \* what an idle worker asks for
    MaxDay,         \* bound on the calendar
    MaxRequests,    \* bound on the requests
    MaxFailures     \* bound on the requests that fail on the way

ASSUME WorkersAssumption == NoWorker \notin Workers
ASSUME ParamsAssumption  == NoParams \notin Params
ASSUME BoundsAssumption  ==
    MaxDay \in Nat /\ MaxRequests \in Nat /\ MaxFailures \in Nat

VARIABLES
    day,        \* the UTC date
    row,        \* the committed row: present, customer id, paid access
    lock,       \* the worker whose flush locks the row
    customers,  \* Stripe's customers are 1..customers
    customerKey,\* what Stripe answered under customer:<user>, and when
    sessions,   \* Stripe's hosted checkouts
    shown,      \* those whose URL the user has
    paid,       \* those he has paid
    live,       \* those paid for a subscription that has not ended
    late,       \* customers an event is on its way for
    requests, failures,
    pc, req     \* per worker: its next step, and what it has so far

stripeVars == <<customers, customerKey, sessions>>
userVars   == <<shown, paid, live, late>>
counts     == <<requests, failures>>
vars == <<day, row, lock, stripeVars, userVars, counts, pc, req>>

NoCustomer == 0                 \* stripe_customer_id is NULL

NoSession == [customer |-> NoCustomer, params |-> NoParams,
              day |-> 0, by |-> 0]

Idle == [params |-> NoParams, held |-> NoCustomer, customer |-> NoCustomer,
         session |-> NoSession, n |-> 0, live |-> {}]

Init ==
    /\ day = 0
    /\ row \in [present : BOOLEAN, customer : {NoCustomer}, access : {FALSE}]
    /\ lock = NoWorker
    /\ customers = 0
    /\ customerKey = [customer |-> NoCustomer, day |-> 0]
    /\ sessions = {} /\ shown = {}
    /\ paid = {} /\ live = {} /\ late = {}
    /\ requests = 0 /\ failures = 0
    /\ pc = [w \in Workers |-> "idle"]
    /\ req = [w \in Workers |-> Idle]

Go(w, step) == pc' = [pc EXCEPT ![w] = step]

End(w) ==
    /\ Go(w, "idle")
    /\ req' = [req EXCEPT ![w] = Idle]
    /\ lock' = IF lock = w THEN NoWorker ELSE lock

---------------------------------------------------------------------------
(* The user and Stripe *)

\* A hosted checkout can be paid once, until a day after it was opened.
Pay(s) ==
    /\ s \notin paid
    /\ day <= s.day + 1
    /\ paid' = paid \cup {s}
    /\ live' = live \cup {s}
    /\ late' = late \cup {s.customer}
    /\ UNCHANGED <<day, row, lock, stripeVars, shown, counts, pc, req>>

\* A subscription ends.
Lapse(s) ==
    /\ live' = live \ {s}
    /\ late' = late \cup {s.customer}
    /\ UNCHANGED <<day, row, lock, stripeVars, shown, paid, counts, pc, req>>

LiveSubscriptions(c) == {s \in live : s.customer = c}

\* The sync of a customer: the row, found by customer id or else by the user
\* id on the customer, shows whether a subscription of his is live.  What
\* other events do to it meanwhile is module SubscriptionSync's.
Webhook(c) ==
    /\ lock = NoWorker
    /\ late' = late \ {c}
    /\ row' = [present |-> TRUE, customer |-> c,
               access |-> LiveSubscriptions(c) # {}]
    /\ UNCHANGED <<day, lock, stripeVars, shown, paid, live, counts, pc,
                   req>>

\* Midnight passes at any moment.  The customer's key lasts 24 hours: it is
\* gone some time the next day.  A request under way in that very second is
\* left out.
NextDay ==
    /\ day < MaxDay
    /\ day' = day + 1
    /\ UNCHANGED <<row, lock, stripeVars, userVars, counts, pc, req>>

CustomerKeyExpires ==
    /\ customerKey.customer # NoCustomer
    /\ customerKey.day < day
    /\ \A w \in Workers : pc[w] = "idle"
    /\ customerKey' = [customer |-> NoCustomer, day |-> 0]
    /\ UNCHANGED <<day, row, lock, customers, sessions, userVars, counts, pc,
                   req>>

---------------------------------------------------------------------------
(* start_checkout *)

\* The row is read.  Access that shows in it refuses the request.
Begin(w, p) ==
    /\ pc[w] = "idle"
    /\ requests < MaxRequests
    /\ ~row.access
    /\ requests' = requests + 1
    /\ req' = [req EXCEPT ![w] =
                  [params |-> p, held |-> row.customer, customer |-> NoCustomer,
                   session |-> NoSession, n |-> requests', live |-> live]]
    /\ Go(w, IF ~row.present THEN "insert"
             ELSE IF row.customer # NoCustomer THEN "ask" ELSE "customer")
    /\ UNCHANGED <<day, row, lock, stripeVars, userVars, failures>>

\* get_or_create_subscription with no row.  The second INSERT waits for the
\* first to commit, and then fails the request on the unique user id.
InsertRow(w) ==
    /\ pc[w] = "insert"
    /\ lock = NoWorker
    /\ IF row.present THEN End(w) /\ UNCHANGED row
       ELSE lock' = w /\ Go(w, "customer") /\ UNCHANGED <<row, req>>
    /\ UNCHANGED <<day, stripeVars, userVars, counts>>

\* Mistaken: the mirror is trusted, though it lags.
AskNobody(w) ==
    /\ pc[w] = "ask"
    /\ Go(w, "customer")
    /\ UNCHANGED <<day, row, lock, stripeVars, userVars, counts, req>>

\* The row is a mirror and lags, so Stripe is asked: a customer who has paid
\* is refused.
AskStripe(w) ==
    /\ pc[w] = "ask"
    /\ \/ /\ LiveSubscriptions(req[w].held) = {}
          /\ Go(w, "customer")
          /\ UNCHANGED <<lock, req>>
       \/ /\ LiveSubscriptions(req[w].held) # {}
          /\ End(w)
    /\ UNCHANGED <<day, row, stripeVars, userVars, counts>>

UseCustomer(w, c) ==
    /\ req' = [req EXCEPT ![w].customer = c]
    /\ Go(w, IF req[w].held = c THEN "session" ELSE "attach")

\* Mistaken: a customer is created under no key.
CreateCustomer(w) ==
    /\ pc[w] = "customer"
    /\ IF req[w].held # NoCustomer
       THEN UseCustomer(w, req[w].held) /\ UNCHANGED customers
       ELSE customers' = customers + 1 /\ UseCustomer(w, customers')
    /\ UNCHANGED <<day, row, lock, customerKey, sessions, userVars, counts>>

\* ensure_customer: the row's customer, the one Stripe created under the
\* user's key today, or a new one.
EnsureCustomer(w) ==
    /\ pc[w] = "customer"
    /\ \/ /\ req[w].held # NoCustomer
          /\ UseCustomer(w, req[w].held)
          /\ UNCHANGED <<customers, customerKey>>
       \/ /\ req[w].held = NoCustomer /\ customerKey.customer # NoCustomer
          /\ UseCustomer(w, customerKey.customer)
          /\ UNCHANGED <<customers, customerKey>>
       \/ /\ req[w].held = NoCustomer /\ customerKey.customer = NoCustomer
          /\ customers' = customers + 1
          /\ customerKey' = [customer |-> customers', day |-> day]
          /\ UseCustomer(w, customers')
    /\ UNCHANGED <<day, row, lock, sessions, userVars, counts>>

\* The flush of the customer id: an UPDATE, which waits for the row's lock.
Attach(w) ==
    /\ pc[w] = "attach"
    /\ lock \in {NoWorker, w}
    /\ lock' = w
    /\ Go(w, "session")
    /\ UNCHANGED <<day, row, stripeVars, userVars, counts, req>>

\* Mistaken: the key is the user's and the date's alone.
KeyWithoutParams(s) == <<s.day>>

\* Mistaken: the key is drawn afresh for each request.
KeyPerRequest(s) == <<s.by>>

\* _checkout_idempotency_key: a digest of the parameters, and the date.
CheckoutKey(s) == <<s.params, s.day>>

\* create_checkout_session: under a key it has seen Stripe answers as before,
\* and refuses one that came with other parameters.
CreateSession(w) ==
    LET wanted == [customer |-> req[w].customer, params |-> req[w].params,
                   day |-> day, by |-> req[w].n]
        known  == {s \in sessions : CheckoutKey(s) = CheckoutKey(wanted)}
        same   == {s \in known : s.customer = wanted.customer
                                  /\ s.params = wanted.params}
    IN  /\ pc[w] = "session"
        /\ \/ /\ known = {}
              /\ sessions' = sessions \cup {wanted}
              /\ req' = [req EXCEPT ![w].session = wanted]
              /\ Go(w, "commit")
              /\ UNCHANGED lock
           \/ /\ known # {}
              /\ UNCHANGED sessions
              /\ IF same # {}
                 THEN /\ \E s \in same : req' = [req EXCEPT ![w].session = s]
                      /\ Go(w, "commit")
                      /\ UNCHANGED lock
                 ELSE End(w)
        /\ UNCHANGED <<day, row, customers, customerKey, userVars, counts>>

\* The route commits and answers with the URL.
Commit(w) ==
    /\ pc[w] = "commit"
    /\ row' = IF lock # w THEN row
              ELSE [row EXCEPT !.present = TRUE, !.customer = req[w].customer]
    /\ shown' = shown \cup {req[w].session}
    /\ End(w)
    /\ UNCHANGED <<day, stripeVars, paid, live, late, counts>>

\* Mistaken: a request that failed answers with its URL all the same.
FailAnswering(w) ==
    /\ pc[w] # "idle"
    /\ failures < MaxFailures
    /\ failures' = failures + 1
    /\ shown' = shown \cup {req[w].session}
    /\ End(w)
    /\ UNCHANGED <<day, row, stripeVars, paid, live, late, requests>>

\* The request fails before its commit: what Stripe did stays done.
Fail(w) ==
    /\ pc[w] # "idle"
    /\ failures < MaxFailures
    /\ failures' = failures + 1
    /\ End(w)
    /\ UNCHANGED <<day, row, stripeVars, userVars, requests>>

Next ==
    \/ NextDay \/ CustomerKeyExpires
    \/ \E s \in shown : Pay(s)
    \/ \E s \in live : Lapse(s)
    \/ \E c \in late : Webhook(c)
    \/ \E w \in Workers :
          \/ \E p \in Params : Begin(w, p)
          \/ InsertRow(w) \/ AskStripe(w) \/ EnsureCustomer(w) \/ Attach(w)
          \/ CreateSession(w) \/ Commit(w) \/ Fail(w)

Spec == Init /\ [][Next]_vars

---------------------------------------------------------------------------
(* Properties *)

Session == [customer : 1..customers, params : Params, day : 0..day,
            by : 1..requests]

\* Every variable keeps its type; what Stripe has is never about a customer
\* or a request that does not exist.
TypeOK ==
    /\ day \in 0..MaxDay /\ customers \in Nat
    /\ row \in [present : BOOLEAN, customer : 0..customers, access : BOOLEAN]
    /\ lock \in Workers \cup {NoWorker}
    /\ customerKey \in [customer : 0..customers, day : 0..day]
    /\ live \subseteq paid /\ paid \subseteq shown
    /\ shown \subseteq sessions /\ sessions \subseteq Session
    /\ late \subseteq 1..customers
    /\ requests \in 0..MaxRequests /\ failures \in 0..MaxFailures
    /\ pc \in [Workers -> {"idle", "insert", "ask", "customer", "attach",
                           "session", "commit"}]
    /\ req \in [Workers -> [params : Params \cup {NoParams},
                            held : 0..customers, customer : 0..customers,
                            session : sessions \cup {NoSession},
                            n : 0..requests, live : SUBSET sessions]]

\* A double click, a second tab or a retry of the same request on one day
\* never ends in two live subscriptions, in whatever order the requests run,
\* fail and are paid (_checkout_idempotency_key: "double-click protection").
IntentPaidOnce ==
    \A s, t \in live : s.params = t.params /\ s.day = t.day => s = t

\* A customer who had paid when he clicked is given no second checkout while
\* that subscription lives, though the row shows nothing of it yet.
NoCheckoutWhilePaid ==
    [][\A w \in Workers :
          pc[w] = "session" /\ pc'[w] = "commit"
              => req[w].live \cap live = {}]_pc

\* Every live subscription of the user is the row's customer's: Cancel, the
\* portal and the sync reach it.
SingleCustomer == \A s \in live : s.customer = row.customer

\* As long as no request failed on its way, Stripe refuses none for the key it
\* comes with, whatever ran before or beside it; and at any time a request that
\* repeats one whose URL the user was shown that day is answered with that URL,
\* not refused and not with a second checkout, though the two may have found
\* the customer in different places (_checkout_idempotency_key: "Identical
\* request -> same key; different request -> different key").
RepeatAnswered ==
    [][\A w \in Workers :
          pc[w] = "session" /\ pc'[w] # "session" /\ failures' = failures
              => /\ failures = 0 => pc'[w] = "commit"
                 /\ \A s \in shown :
                       s.params = req[w].params /\ s.day = day
                           => req'[w].session = s]_pc
=============================================================================
