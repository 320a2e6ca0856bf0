------------------------------ MODULE Metering ------------------------------
(***************************************************************************)
(* The two users of the atomic counter of cache.py, both of which let the  *)
(* request through when Redis does not answer:                             *)
(*                                                                         *)
(*   - services/quota.py, `consume`: one user's one quota, counted in a    *)
(*     daily window, with a durable copy of the count in Postgres;         *)
(*   - ratelimit.py, `enforce`: one caller of the public contact-sales     *)
(*     form, counted in an hourly window and then in a daily one, before   *)
(*     the body is validated and the inquiry stored (routers/billing.py).  *)
(*                                                                         *)
(* A worker is a request.  INCR, TTL and EXPIRE are three calls, the       *)
(* mirror's UPDATE and INSERT two statements in a transaction of their     *)
(* own, and time passes, calls fail and processes die between any two.     *)
(* Time runs in ticks, Second of them to a second.                         *)
(***************************************************************************)
EXTENDS Catalog, Sequences

CONSTANTS
    Workers,       \* requests in progress at once
    Callers,       \* the tiers the user may have when a request begins
    Cap,           \* the cap of each tier: the catalog's, scaled down
    HourCap,       \* contact_sales_per_hour and
    DayCap,        \*   contact_sales_per_day; 0 switches the window off
    Second,        \* ticks to a second
    Hour, Day,     \* lengths of the windows
    Floor,         \* the shortest TTL a quota counter is given
    MaxTime,       \* bound on the clock
    MaxRequests,   \* bound on the requests
    MaxFailures    \* bound on failing calls and dying processes

ASSUME WorkersAssumption == IsFiniteSet(Workers)
ASSUME CapsAssumption ==
    /\ Callers \subseteq Tier /\ Cap \in [Tier -> Amount]
    /\ \A a, b \in Tier :
          AtLeast(Cap[a], Cap[b])
             <=> AtLeast(Quota["messages_per_day"][a], Quota["messages_per_day"][b])
    /\ HourCap \in Nat /\ DayCap \in Nat /\ HourCap + DayCap > 0
ASSUME TicksAssumption ==
    /\ Second \in Nat \ {0} /\ Floor \in Nat \ {0}
    /\ Hour \in Nat \ {0} /\ Day \in Nat \ {0} /\ Day % Hour = 0
    /\ MaxTime \in Nat /\ MaxRequests \in Nat /\ MaxFailures \in Nat

VARIABLES
    now,        \* the clock
    counter,    \* the Redis keys
    usage,      \* usage_counters: the count of each day, 0 if no row
    admitted,   \* quota requests admitted, by day
    within,     \* requests a key let through in time, under each cap or less
    passed,     \* inquiries the hourly window let through, by day
    settled,    \* keys that saw an incr to its end since they were made
    requests,   \* requests made
    failures,   \* failures, and of what:
    databaseDown, died,
    pc,         \* per worker: its next step
    req         \* per worker: what it is, the windows it has still to be
                \*   counted in, and what INCR said

world   == <<now, requests, failures, databaseDown, died>>
redis   == <<counter, settled>>
tally   == <<admitted, within, passed>>
vars    == <<world, redis, usage, tally, pc, req>>

---------------------------------------------------------------------------
(* Windows and keys *)

Never == -1                     \* a key without a TTL

Gone == [count |-> 0, expires |-> 0]

Length == [quota |-> Day, hour |-> Hour, day |-> Day]

\* The last window of each length that the clock reaches.
Days == 0..(MaxTime \div Day)

Keys == UNION { {of} \X (0..(MaxTime \div Length[of])) : of \in DOMAIN Length }

KeyOf(of, t) == <<of, t \div Length[of]>>

WindowEnd(key) == (key[2] + 1) * Length[key[1]]

\* Mistaken: a request late in the window gets whatever is left of it.
TTLUnfloored(key, t) == ((WindowEnd(key) - t) \div Second) * Second

\* Mistaken: the counter gets the shortest TTL there is.
TTLFixed(key, t) == Floor

\* consume: max(60, int(the rest of the window)).
CounterTTL(key, t) ==
    LET rest == ((WindowEnd(key) - t) \div Second) * Second
    IN  IF rest > Floor THEN rest ELSE Floor

\* What consume counts a request against, with the cap its caller came with.
QuotaWindow(t, cap) ==
    LET key == KeyOf("quota", t)
    IN  <<[key |-> key, ttl |-> CounterTTL(key, t), limit |-> cap]>>

RateWindow(of, t, cap) ==
    [key |-> KeyOf(of, t), ttl |-> Length[of], limit |-> cap]

IfOn(window) == IF window.limit > 0 THEN <<window>> ELSE <<>>

\* Mistaken: the day is counted before the hour.
DayFirst(t) ==
    IfOn(RateWindow("day", t, DayCap)) \o IfOn(RateWindow("hour", t, HourCap))

\* contact_sales_windows, without those that are switched off; one reading of
\* the clock names both keys.
ContactSalesWindows(t) ==
    IfOn(RateWindow("hour", t, HourCap)) \o IfOn(RateWindow("day", t, DayCap))

Caps == { Cap[tier] : tier \in Callers } \cup {HourCap, DayCap}

\* The finite caps there are.
Limits == Caps \ {0, Unlimited}

Present(key) ==
    /\ counter[key].count > 0
    /\ counter[key].expires = Never \/ now < counter[key].expires

Kinds == {"quota", "inquiry"}

NoRequest == [kind |-> "none", windows |-> <<>>, used |-> 0, late |-> FALSE]

Init ==
    /\ now = 0
    /\ counter = [key \in Keys |-> Gone]
    /\ usage = [n \in Days |-> 0]
    /\ admitted = [n \in Days |-> 0]
    /\ within = [key \in Keys |-> [limit \in Limits |-> 0]]
    /\ passed = [n \in Days |-> 0]
    /\ settled = {}
    /\ requests = 0 /\ failures = 0
    /\ databaseDown = FALSE /\ died = FALSE
    /\ pc = [w \in Workers |-> "idle"]
    /\ req = [w \in Workers |-> NoRequest]

---------------------------------------------------------------------------
Go(w, step) == pc' = [pc EXCEPT ![w] = step]

Plus1(f, n) == [f EXCEPT ![n] = @ + 1]

End(w) == Go(w, "idle") /\ req' = [req EXCEPT ![w] = NoRequest]

Tick ==
    /\ now < MaxTime
    /\ now' = now + 1
    /\ UNCHANGED <<requests, failures, databaseDown, died,
                   redis, usage, tally, pc, req>>

Begin(w, kind, windows) ==
    /\ pc[w] = "idle"
    /\ requests < MaxRequests
    /\ requests' = requests + 1
    /\ req' = [req EXCEPT ![w] = [kind |-> kind, windows |-> windows,
                                  used |-> 0, late |-> FALSE]]
    /\ UNCHANGED <<now, failures, databaseDown, died,
                   redis, usage, tally>>

\* consume: the window and the TTL from the clock as it is at the beginning,
\* the cap from the caller's entitlements.  A quota without a cap is counted.
Consume(w) ==
    /\ \E tier \in Callers : Begin(w, "quota", QuotaWindow(now, Cap[tier]))
    /\ Go(w, "incr")

\* The day a quota's request was counted in.
DayOf(w) == req[w].windows[1].key[2]

\* Admitted: the quota's request goes to the mirror, the inquiry to its
\* handler.
Admit(w) ==
    IF req[w].kind = "quota"
    THEN admitted' = Plus1(admitted, DayOf(w)) /\ Go(w, "update") /\ UNCHANGED req
    ELSE Go(w, "store") /\ UNCHANGED <<admitted, req>>

\* The rate limit is a dependency: it runs before the body is looked at, so a
\* malformed one counts as well.
ContactSales(w) ==
    /\ Begin(w, "inquiry", ContactSalesWindows(now))
    /\ Go(w, "incr")

\* INCR, which creates the key without a TTL.  A key can go before its window
\* has: a quota's in the last second, for int() cut its TTL, and any key under
\* a request that was held up past the window's end.  What is counted that
\* late is marked.
Incr(w) ==
    LET key   == req[w].windows[1].key
        slack == IF key[1] = "quota" THEN Second ELSE 0
        count == IF Present(key) THEN counter[key].count + 1 ELSE 1
    IN  /\ pc[w] = "incr"
        /\ counter' = [counter EXCEPT ![key] =
                           [count   |-> count,
                            expires |-> IF count = 1 THEN Never ELSE @.expires]]
        /\ settled' = IF count = 1 THEN settled \ {key} ELSE settled
        /\ req' = [req EXCEPT ![w].used = count,
                              ![w].late = now >= WindowEnd(key) - slack]
        /\ Go(w, IF count = 1 THEN "expire" ELSE "check_ttl")
        /\ UNCHANGED <<world, usage, tally>>

\* The first of the windows lets the request through: on to the next, if any.
Pass(w) ==
    LET window == req[w].windows[1]
        under(c) == ~req[w].late /\ window.limit # Unlimited /\ window.limit <= c
    IN  /\ within' = [within EXCEPT ![window.key] =
                         [c \in Limits |-> IF under(c) THEN @[c] + 1 ELSE @[c]]]
        /\ passed' = IF window.key[1] # "hour" THEN passed
                     ELSE Plus1(passed, (window.key[2] * Hour) \div Day)
        /\ IF Len(req[w].windows) = 1 THEN Admit(w)
           ELSE /\ req' = [req EXCEPT ![w].windows = Tail(@)]
                /\ Go(w, "incr")
                /\ UNCHANGED admitted

\* Increment, then check: a refused request stays counted.
Decide(w) ==
    LET limit == req[w].windows[1].limit
    IN  IF limit # Unlimited /\ req[w].used > limit
        THEN End(w) /\ UNCHANGED tally
        ELSE Pass(w)

\* Mistaken: only the increment that created the key sees to its TTL.
CheckNothing(w) ==
    /\ pc[w] = "check_ttl"
    /\ Decide(w)
    /\ settled' = settled \cup {req[w].windows[1].key}
    /\ UNCHANGED <<world, counter, usage>>

\* TTL: a key left without one by a process that died is repaired.
CheckTTL(w) ==
    LET key == req[w].windows[1].key
    IN  /\ pc[w] = "check_ttl"
        /\ IF Present(key) /\ counter[key].expires # Never
           THEN Decide(w) /\ settled' = settled \cup {key}
           ELSE Go(w, "expire") /\ UNCHANGED <<settled, tally, req>>
        /\ UNCHANGED <<world, counter, usage>>

Expire(w) ==
    LET window == req[w].windows[1]
        key    == window.key
    IN  /\ pc[w] = "expire"
        /\ counter' = IF Present(key)
                      THEN [counter EXCEPT ![key].expires = now + window.ttl]
                      ELSE counter
        /\ settled' = settled \cup {key}
        /\ Decide(w)
        /\ UNCHANGED <<world, usage>>

\* A call to Redis fails: the request is admitted there and then, and the
\* windows after this one do not count it.
FailOpen(w) ==
    /\ pc[w] \in {"incr", "check_ttl", "expire"}
    /\ failures < MaxFailures
    /\ failures' = failures + 1
    /\ Admit(w)
    /\ UNCHANGED <<now, requests, databaseDown, died, redis, usage, within,
                   passed>>

---------------------------------------------------------------------------
(* _mirror, and the handler of contact-sales *)

\* UPDATE ... SET count = count + 1, which may find no row.
Update(w) ==
    LET n == DayOf(w)
    IN  /\ pc[w] = "update"
        /\ \/ /\ usage[n] > 0
              /\ usage' = Plus1(usage, n)
              /\ End(w)
           \/ /\ usage[n] = 0
              /\ Go(w, "insert")
              /\ UNCHANGED <<usage, req>>
        /\ UNCHANGED <<world, redis, tally>>

\* Mistaken: the loser of the insert leaves it at that.
InsertGivesUp(w) ==
    LET n == DayOf(w)
    IN  /\ pc[w] = "insert"
        /\ usage' = IF usage[n] = 0 THEN Plus1(usage, n) ELSE usage
        /\ End(w)
        /\ UNCHANGED <<world, redis, tally>>

\* INSERT with a count of one; the unique key refuses a second row, and the
\* loser's update then finds the first.
Insert(w) ==
    LET n == DayOf(w)
    IN  /\ pc[w] = "insert"
        /\ \/ /\ usage[n] = 0
              /\ usage' = Plus1(usage, n)
              /\ End(w)
           \/ /\ usage[n] > 0
              /\ Go(w, "update")
              /\ UNCHANGED <<usage, req>>
        /\ UNCHANGED <<world, redis, tally>>

\* The inquiry is inserted and committed, or its body was malformed.  Nothing
\* in the service reads the row back but the operators' list.
StoreInquiry(w) ==
    /\ pc[w] = "store"
    /\ End(w)
    /\ UNCHANGED <<world, redis, usage, tally>>

\* The mirror fails: logged and swallowed.
MirrorFails(w) ==
    /\ pc[w] \in {"update", "insert"}
    /\ failures < MaxFailures
    /\ failures' = failures + 1
    /\ databaseDown' = TRUE
    /\ End(w)
    /\ UNCHANGED <<now, requests, died, redis, usage, tally>>

Die(w) ==
    /\ pc[w] # "idle"
    /\ failures < MaxFailures
    /\ failures' = failures + 1
    /\ died' = TRUE
    /\ End(w)
    /\ UNCHANGED <<now, requests, databaseDown, redis, usage,
                   tally>>

Next ==
    \/ Tick
    \/ \E w \in Workers :
          \/ Consume(w) \/ ContactSales(w)
          \/ Incr(w) \/ CheckTTL(w) \/ Expire(w) \/ FailOpen(w)
          \/ Update(w) \/ Insert(w) \/ StoreInquiry(w)
          \/ MirrorFails(w) \/ Die(w)

Spec == Init /\ [][Next]_vars

---------------------------------------------------------------------------
(* Properties *)

Window == [key   : Keys,
           ttl   : Nat \ {0},
           limit : Caps]

\* Every variable keeps its type, and every key is given a positive TTL: an
\* EXPIRE of zero would delete the counter it is meant to keep.
TypeOK ==
    /\ now \in 0..MaxTime /\ requests \in Nat /\ failures \in Nat
    /\ databaseDown \in BOOLEAN /\ died \in BOOLEAN
    /\ counter \in [Keys -> [count : Nat, expires : Nat \cup {Never}]]
    /\ usage \in [Days -> Nat]
    /\ admitted \in [Days -> Nat]
    /\ within \in [Keys -> [Limits -> Nat]]
    /\ passed \in [Days -> Nat]
    /\ settled \subseteq Keys
    /\ pc \in [Workers -> {"idle", "incr", "check_ttl", "expire", "update",
                           "insert", "store"}]
    /\ req \in [Workers -> [kind : Kinds \cup {"none"}, windows : Seq(Window),
                            used : Nat, late : BOOLEAN]]

\* The requests a window lets through with a cap of c or less are never more
\* than c, however they interleave, whichever calls fail, whoever dies half way
\* and though others come with higher caps or with none.  Those let in because
\* Redis failed are not the window's doing, and late ones are left out (see
\* Incr).
QuotaHolds == \A key \in Keys, c \in Limits : within[key][c] <= c

\* A counter cannot outlive its window for ever: once any request has been
\* through its whole incr the key has a TTL, whoever died before it.
CounterExpires ==
    \A key \in settled : Present(key) => counter[key].expires # Never

\* A caller whom the hour refuses does not use up his day: the daily counter
\* never counts more than the hours of that day let through.
DaySpared ==
    HourCap > 0 =>
        \A n \in Days : LET key == <<"day", n>>
                        IN  Present(key) => counter[key].count <= passed[n]

\* The durable copy counts exactly the admitted requests, those admitted
\* because Redis was down included, once all of them are through.
MirrorCounts ==
    ~databaseDown /\ ~died /\ (\A w \in Workers : pc[w] = "idle")
        => usage = admitted
=============================================================================
