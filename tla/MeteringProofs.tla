--------------------------- MODULE MeteringProofs ---------------------------
(***************************************************************************)
(* Theorems about the counters, for any number of requests, any caps, any  *)
(* lengths of the windows and any bounds.                                  *)
(***************************************************************************)
EXTENDS Metering, FiniteSetTheorems, SequenceTheorems, TLAPS

USE WorkersAssumption, TicksAssumption

---------------------------------------------------------------------------
(* Arithmetic of the windows *)

LEMMA DivRange ==
    ASSUME NEW n \in Int, NEW d \in Nat \ {0}
    PROVE  n \div d \in Int /\ (n \div d) * d <= n /\ n < (n \div d) * d + d
OBVIOUS

LEMMA ProductMonotone ==
    ASSUME NEW a \in Int, NEW b \in Int, NEW d \in Nat \ {0}, a <= b
    PROVE  a * d <= b * d
<1>1. (b - a) * d >= 0
    OBVIOUS
<1>2. (b - a) * d = b * d - a * d
    OBVIOUS
<1>3. QED BY <1>1, <1>2

\* Nothing but the quotient lies between its multiple and the next.
LEMMA DivUnique ==
    ASSUME NEW n \in Int, NEW q \in Int, NEW d \in Nat \ {0},
           q * d <= n, n < q * d + d
    PROVE  n \div d = q
<1> DEFINE p == n \div d
<1>1. p \in Int /\ p * d <= n /\ n < p * d + d
    BY DivRange
<1> HIDE DEF p
<1>2. CASE p < q
  <2>1. p + 1 <= q /\ (p + 1) * d = p * d + d
        BY <1>1, <1>2
  <2>2. (p + 1) * d <= q * d
        BY <1>1, <2>1, ProductMonotone
  <2>3. QED BY <1>1, <2>1, <2>2
<1>3. CASE q < p
  <2>1. q + 1 <= p /\ (q + 1) * d = q * d + d
        BY <1>1, <1>3
  <2>2. (q + 1) * d <= p * d
        BY <1>1, <2>1, ProductMonotone
  <2>3. QED BY <1>1, <2>1, <2>2
<1>4. QED BY <1>1, <1>2, <1>3 DEF p

LEMMA DivMonotone ==
    ASSUME NEW m \in Nat, NEW n \in Nat, NEW d \in Nat \ {0}, m <= n
    PROVE  m \div d <= n \div d /\ m \div d \in Nat
<1> DEFINE p == m \div d
           q == n \div d
<1>1. /\ p \in Int /\ p * d <= m /\ m < p * d + d
      /\ q \in Int /\ q * d <= n /\ n < q * d + d
    BY DivRange
<1> HIDE DEF p, q
<1>2. CASE q < p
  <2>1. q + 1 <= p /\ (q + 1) * d = q * d + d
        BY <1>1, <1>2
  <2>2. (q + 1) * d <= p * d
        BY <1>1, <2>1, ProductMonotone
  <2>3. QED BY <1>1, <2>1, <2>2
<1>3. CASE p < 0
  <2>1. p + 1 <= 0 /\ (p + 1) * d = p * d + d
        BY <1>1, <1>3
  <2>2. (p + 1) * d <= 0 * d
        BY <1>1, <2>1, ProductMonotone
  <2>3. QED BY <1>1, <2>1, <2>2
<1>4. QED BY <1>1, <1>2, <1>3 DEF p, q

\* The day of an hour is the day of the moments in it: an hour is in one day.
LEMMA DayOfHour ==
    ASSUME NEW t \in Nat
    PROVE  ((t \div Hour) * Hour) \div Day = t \div Day
<1> DEFINE h == t \div Hour
           n == t \div Day
           k == Day \div Hour
<1>1. /\ h \in Int /\ h * Hour <= t /\ t < h * Hour + Hour
      /\ n \in Int /\ n * Day <= t /\ t < n * Day + Day
    BY DivRange
<1>2. k \in Int /\ Day = k * Hour
    BY DEF k
<1> HIDE DEF h, n, k
<1>3. n * Day = (n * k) * Hour /\ n * k \in Int
    BY <1>1, <1>2
<1>4. n * Day <= h * Hour
  <2>1. CASE h < n * k
    <3>1. h + 1 <= n * k /\ (h + 1) * Hour = h * Hour + Hour
          BY <1>1, <1>3, <2>1
    <3>2. (h + 1) * Hour <= (n * k) * Hour
          BY <1>1, <1>3, <3>1, ProductMonotone
    <3>3. QED BY <1>1, <1>3, <3>1, <3>2
  <2>2. CASE n * k <= h
        BY <1>1, <1>3, <2>2, ProductMonotone
  <2>3. QED BY <1>1, <1>3, <2>1, <2>2
<1>5. h * Hour < n * Day + Day
    BY <1>1
<1>6. (h * Hour) \div Day = n
    BY <1>1, <1>4, <1>5, DivUnique
<1>7. QED BY <1>6 DEF h, n

---------------------------------------------------------------------------
(* Keys and windows *)

Sorts == {"quota", "hour", "day"}

\* A quota's key may go within the last second of its window.
Slack(key) == IF key[1] = "quota" THEN Second ELSE 0

LEMMA KeyIs ==
    ASSUME NEW key \in Keys
    PROVE  /\ key[1] \in Sorts /\ key = <<key[1], key[2]>>
           /\ Length[key[1]] \in Nat \ {0}
           /\ key[2] \in 0..(MaxTime \div Length[key[1]]) /\ key[2] \in Nat
           /\ key[1] = "quota" => key[2] \in Days
           /\ Slack(key) \in Nat /\ WindowEnd(key) \in Nat
<1>1. PICK of \in DOMAIN Length : key \in {of} \X (0..(MaxTime \div Length[of]))
    BY DEF Keys
<1>2. key = <<of, key[2]>> /\ key[1] = of /\ key[2] \in 0..(MaxTime \div Length[of])
    BY <1>1
<1>3. of \in Sorts /\ Length[of] \in Nat \ {0} /\ Length["quota"] = Day
    BY DEF Length, Sorts
<1>4. WindowEnd(key) \in Nat /\ Slack(key) \in Nat
  <2>1. key[2] + 1 \in Nat
        BY <1>2
  <2>2. QED BY <1>2, <1>3, <2>1 DEF WindowEnd, Slack
<1>5. QED BY <1>2, <1>3, <1>4 DEF Days

LEMMA KeyOfIs ==
    ASSUME NEW of \in Sorts, NEW t \in 0..MaxTime
    PROVE  /\ KeyOf(of, t) \in Keys /\ KeyOf(of, t)[1] = of
           /\ KeyOf(of, t)[2] = t \div Length[of]
           /\ t < WindowEnd(KeyOf(of, t))
           /\ WindowEnd(KeyOf(of, t)) <= t + Length[of]
<1>1. Length[of] \in Nat \ {0} /\ of \in DOMAIN Length
    BY DEF Length, Sorts
<1>2. t \div Length[of] \in 0..(MaxTime \div Length[of])
    BY <1>1, DivMonotone, DivRange
<1>3. /\ t \div Length[of] \in Int
      /\ (t \div Length[of]) * Length[of] <= t
      /\ t < (t \div Length[of]) * Length[of] + Length[of]
    BY <1>1, DivRange
<1>4. ((t \div Length[of]) + 1) * Length[of]
         = (t \div Length[of]) * Length[of] + Length[of]
    BY <1>1, <1>3
<1>5. QED BY <1>1, <1>2, <1>3, <1>4 DEF KeyOf, Keys, WindowEnd

\* However late it is taken, the TTL is positive, and ends in the last second
\* of the window or after it.
LEMMA CounterTTLIs ==
    ASSUME NEW key \in Keys, key[1] = "quota", NEW t \in Nat
    PROVE  /\ CounterTTL(key, t) \in Nat \ {0}
           /\ t + CounterTTL(key, t) >= WindowEnd(key) - Slack(key)
<1> DEFINE n == WindowEnd(key) - t
           rest == (n \div Second) * Second
<1>1. n \in Int /\ WindowEnd(key) \in Nat
    BY KeyIs
<1>2. CounterTTL(key, t) = IF rest > Floor THEN rest ELSE Floor
    BY DEF CounterTTL
<1>3. rest \in Int /\ rest <= n /\ n < rest + Second
  <2> DEFINE q == n \div Second
  <2>1. n \in Int
        BY <1>1
  <2> HIDE DEF n
  <2>2. q \in Int /\ q * Second <= n /\ n < q * Second + Second
        BY <2>1, DivRange
  <2> HIDE DEF q
  <2>3. q * Second \in Int
        BY <2>2
  <2>4. QED BY <2>2, <2>3 DEF q
<1> HIDE DEF rest
<1>4. QED BY <1>1, <1>2, <1>3 DEF Slack

\* What a request may have as its first window: its limit and its TTL are in
\* range, and the TTL reaches the end of the window from any time on.
Sound(window) ==
    /\ window \in Window
    /\ now + window.ttl >= WindowEnd(window.key) - Slack(window.key)

LEMMA QuotaWindowIs ==
    ASSUME TypeOK, NEW tier \in Callers
    PROVE  /\ QuotaWindow(now, Cap[tier]) \in Seq(Window)
           /\ Len(QuotaWindow(now, Cap[tier])) = 1
           /\ QuotaWindow(now, Cap[tier])[1].key[1] = "quota"
           /\ Sound(QuotaWindow(now, Cap[tier])[1])
<1> DEFINE key == KeyOf("quota", now)
           window == [key |-> key, ttl |-> CounterTTL(key, now),
                      limit |-> Cap[tier]]
<1>1. now \in 0..MaxTime /\ now \in Nat
    BY DEF TypeOK
<1>2. key \in Keys /\ key[1] = "quota"
    BY <1>1, KeyOfIs DEF Sorts
<1>3. /\ CounterTTL(key, now) \in Nat \ {0}
      /\ now + CounterTTL(key, now) >= WindowEnd(key) - Slack(key)
    BY <1>1, <1>2, CounterTTLIs
<1>4. Cap[tier] \in Caps
    BY DEF Caps
<1>5. QuotaWindow(now, Cap[tier]) = <<window>>
    BY DEF QuotaWindow
<1> HIDE DEF key
<1>6. Sound(window) /\ window.key[1] = "quota"
    BY <1>2, <1>3, <1>4 DEF Sound, Window
<1> HIDE DEF window
<1>7. QED BY <1>5, <1>6 DEF Sound

LEMMA RateWindowIs ==
    ASSUME TypeOK, NEW of \in {"hour", "day"}, NEW cap \in {HourCap, DayCap}
    PROVE  /\ Sound(RateWindow(of, now, cap))
           /\ RateWindow(of, now, cap).key = KeyOf(of, now)
           /\ RateWindow(of, now, cap).key[1] = of
           /\ RateWindow(of, now, cap).key[2] = now \div Length[of]
           /\ RateWindow(of, now, cap).limit = cap
<1>1. now \in 0..MaxTime /\ of \in Sorts
    BY DEF TypeOK, Sorts
<1>2. /\ KeyOf(of, now) \in Keys /\ KeyOf(of, now)[1] = of
      /\ KeyOf(of, now)[2] = now \div Length[of]
      /\ WindowEnd(KeyOf(of, now)) <= now + Length[of]
    BY <1>1, KeyOfIs
<1>3. Length[of] \in Nat \ {0} /\ cap \in Caps
    BY DEF Length, Caps
<1>4. Slack(KeyOf(of, now)) = 0
    BY <1>2 DEF Slack
<1>5. WindowEnd(KeyOf(of, now)) \in Nat
    BY <1>2, KeyIs
<1>6. QED BY <1>1, <1>2, <1>3, <1>4, <1>5 DEF Sound, Window, RateWindow

\* The windows a request of a kind has still to be counted in.
Queue(kind, ws) ==
    /\ ws \in Seq(Window) /\ Len(ws) \in {1, 2}
    /\ kind = "quota" => Len(ws) = 1 /\ ws[1].key[1] = "quota"
    /\ kind = "inquiry" => ws[1].key[1] \in {"hour", "day"}
    /\ Len(ws) = 2 =>
          /\ kind = "inquiry" /\ ws[1].key[1] = "hour" /\ ws[2].key[1] = "day"
          /\ ws[2].key[2] = (ws[1].key[2] * Hour) \div Day

LEMMA ContactSalesIs ==
    ASSUME TypeOK
    PROVE  /\ Queue("inquiry", ContactSalesWindows(now))
           /\ \A i \in DOMAIN ContactSalesWindows(now) :
                 Sound(ContactSalesWindows(now)[i])
           /\ HourCap > 0 => ContactSalesWindows(now)[1].key[1] = "hour"
<1> DEFINE hour == RateWindow("hour", now, HourCap)
           day  == RateWindow("day", now, DayCap)
<1>1. /\ Sound(hour) /\ hour.limit = HourCap /\ hour.key[1] = "hour"
      /\ hour.key[2] = now \div Length["hour"]
      /\ Sound(day) /\ day.limit = DayCap /\ day.key[1] = "day"
      /\ day.key[2] = now \div Length["day"]
    BY RateWindowIs
<1>2. ((now \div Hour) * Hour) \div Day = now \div Day
  <2>1. now \in Nat
        BY DEF TypeOK
  <2>2. QED BY <2>1, DayOfHour
<1> DEFINE ws == ContactSalesWindows(now)
<1>3. ws = IfOn(hour) \o IfOn(day)
    BY DEF ContactSalesWindows
<1> HIDE DEF hour, day, ws
<1>4. day.key[2] = (hour.key[2] * Hour) \div Day
    BY <1>1, <1>2 DEF Length
<1>5. hour \in Window /\ day \in Window
    BY <1>1 DEF Sound
<1>6. /\ IfOn(hour) = (IF HourCap > 0 THEN <<hour>> ELSE <<>>)
      /\ IfOn(day) = (IF DayCap > 0 THEN <<day>> ELSE <<>>)
    BY <1>1 DEF IfOn
<1>7. IfOn(hour) \in Seq(Window) /\ IfOn(day) \in Seq(Window)
    BY <1>5, <1>6
<1>8. /\ ws \in Seq(Window) /\ Len(ws) = Len(IfOn(hour)) + Len(IfOn(day))
      /\ \A i \in 1..Len(IfOn(hour)) + Len(IfOn(day)) :
            ws[i] = IF i <= Len(IfOn(hour)) THEN IfOn(hour)[i]
                    ELSE IfOn(day)[i - Len(IfOn(hour))]
    BY <1>3, <1>7, ConcatProperties
<1>9. HourCap \in Nat /\ DayCap \in Nat /\ HourCap + DayCap > 0
    BY CapsAssumption
<1>10. \/ HourCap > 0 /\ Len(ws) = 2 /\ ws[1] = hour /\ ws[2] = day
       \/ HourCap > 0 /\ Len(ws) = 1 /\ ws[1] = hour
       \/ HourCap = 0 /\ Len(ws) = 1 /\ ws[1] = day
  <2>1. CASE HourCap > 0 /\ DayCap > 0
    <3>1. /\ Len(IfOn(hour)) = 1 /\ IfOn(hour)[1] = hour
          /\ Len(IfOn(day)) = 1 /\ IfOn(day)[1] = day
          BY <1>6, <2>1
    <3>2. QED BY <1>8, <2>1, <3>1
  <2>2. CASE HourCap > 0 /\ DayCap = 0
    <3>1. Len(IfOn(hour)) = 1 /\ IfOn(hour)[1] = hour /\ Len(IfOn(day)) = 0
          BY <1>6, <2>2
    <3>2. QED BY <1>8, <2>2, <3>1
  <2>3. CASE HourCap = 0 /\ DayCap > 0
    <3>1. Len(IfOn(hour)) = 0 /\ Len(IfOn(day)) = 1 /\ IfOn(day)[1] = day
          BY <1>6, <2>3
    <3>2. QED BY <1>8, <2>3, <3>1
  <2>4. QED BY <1>9, <2>1, <2>2, <2>3
<1>11. Queue("inquiry", ws)
    BY <1>1, <1>4, <1>8, <1>10 DEF Queue
<1>12. \A i \in DOMAIN ws : Sound(ws[i])
  <2>1. DOMAIN ws = 1..Len(ws)
        BY <1>8
  <2>2. QED BY <1>1, <1>10, <2>1
<1>13. HourCap > 0 => ws[1].key[1] = "hour"
    BY <1>1, <1>10
<1>14. QED BY <1>11, <1>12, <1>13 DEF ws

---------------------------------------------------------------------------
(* Types *)

Busy(w) == pc[w] # "idle"

\* What a request under way is, and how far.
Under(w) ==
    Busy(w) =>
        /\ req[w].kind \in Kinds /\ Queue(req[w].kind, req[w].windows)
        /\ \A i \in DOMAIN req[w].windows : Sound(req[w].windows[i])
        /\ pc[w] \in {"update", "insert"} => req[w].kind = "quota"

Typed == TypeOK /\ \A w \in Workers : Under(w)

ReqSet == [kind : Kinds \cup {"none"}, windows : Seq(Window), used : Nat,
           late : BOOLEAN]

LEMMA NoRequestType == NoRequest \in ReqSet
BY DEF NoRequest, ReqSet

LEMMA InitTyped == Init => Typed
<1> SUFFICES ASSUME Init PROVE Typed
    OBVIOUS
<1>1. Gone \in [count : Nat, expires : Nat \cup {Never}]
    BY DEF Gone
<1>2. req \in [Workers -> ReqSet]
    BY NoRequestType DEF Init
<1>3. counter \in [Keys -> [count : Nat, expires : Nat \cup {Never}]]
    BY <1>1 DEF Init
<1>4. within \in [Keys -> [Limits -> Nat]]
    BY DEF Init
<1>5. /\ databaseDown \in BOOLEAN /\ died \in BOOLEAN
      /\ settled \subseteq Keys
    BY DEF Init
<1>6. pc \in [Workers -> {"idle", "incr", "check_ttl", "expire", "update",
                         "insert", "store"}]
    BY DEF Init
<1>7. /\ now \in 0..MaxTime /\ requests \in Nat /\ failures \in Nat
      /\ usage \in [Days -> Nat] /\ admitted \in [Days -> Nat]
      /\ passed \in [Days -> Nat]
    BY DEF Init
<1>8. TypeOK
    BY <1>2, <1>3, <1>4, <1>5, <1>6, <1>7 DEF TypeOK, ReqSet
<1>9. QED BY <1>8 DEF Init, Typed, Under, Busy

\* The first window of a request, and the day a quota's is counted in.
LEMMA FirstIs ==
    ASSUME Typed, NEW w \in Workers, Busy(w)
    PROVE  /\ req[w] \in ReqSet /\ req[w].windows # <<>>
           /\ req[w].windows[1] \in Window /\ Sound(req[w].windows[1])
           /\ req[w].windows[1].key \in Keys
           /\ req[w].windows[1].ttl \in Nat \ {0}
           /\ req[w].windows[1].limit \in Caps
           /\ req[w].kind = "quota" => DayOf(w) \in Days
<1>1. req[w] \in ReqSet
    BY DEF Typed, TypeOK, ReqSet
<1>2. Queue(req[w].kind, req[w].windows) /\ 1 \in DOMAIN req[w].windows
    BY DEF Typed, Under, Queue
<1>3. req[w].windows[1] \in Window /\ Sound(req[w].windows[1])
    BY <1>2 DEF Typed, Under, Queue, Sound
<1>4. req[w].windows[1].key \in Keys
    BY <1>3 DEF Window
<1>5. req[w].kind = "quota" => DayOf(w) \in Days
    BY <1>2, <1>4, KeyIs DEF Queue, DayOf
<1>6. QED BY <1>1, <1>2, <1>3, <1>4, <1>5 DEF Queue, Window

\* The hour an inquiry came through is in a day of the calendar.
LEMMA HourIs ==
    ASSUME NEW key \in Keys, key[1] = "hour"
    PROVE  (key[2] * Hour) \div Day \in Days
<1>1. key[2] \in 0..(MaxTime \div Hour) /\ key[2] \in Nat
    BY KeyIs DEF Length
<1>2. (MaxTime \div Hour) * Hour <= MaxTime /\ MaxTime \div Hour \in Int
    BY DivRange
<1>3. key[2] * Hour <= (MaxTime \div Hour) * Hour /\ key[2] * Hour \in Nat
    BY <1>1, <1>2, ProductMonotone
<1> DEFINE m == key[2] * Hour
<1>4. m \in Nat /\ m <= MaxTime
    BY <1>1, <1>2, <1>3
<1> HIDE DEF m
<1>5. m \div Day <= MaxTime \div Day /\ m \div Day \in Nat
    BY <1>4, DivMonotone
<1>6. MaxTime \div Day \in Int
    BY DivRange
<1>7. QED BY <1>5, <1>6 DEF Days, m

\* A step that leaves the clock alone and gives its worker a proper request.
LEMMA KeepsTyped ==
    ASSUME Typed, NEW w \in Workers, NEW step, Go(w, step),
           step \in {"idle", "incr", "check_ttl", "expire", "update", "insert",
                     "store"},
           req'[w] \in ReqSet, req' = [req EXCEPT ![w] = req'[w]],
           now' = now, requests' \in Nat, failures' \in Nat,
           databaseDown' \in BOOLEAN, died' \in BOOLEAN,
           counter' \in [Keys -> [count : Nat, expires : Nat \cup {Never}]],
           usage' \in [Days -> Nat], admitted' \in [Days -> Nat],
           within' \in [Keys -> [Limits -> Nat]], passed' \in [Days -> Nat],
           settled' \subseteq Keys,
           \/ step = "idle"
           \/ /\ req'[w].kind \in Kinds
              /\ Queue(req'[w].kind, req'[w].windows)
              /\ \A i \in DOMAIN req'[w].windows : Sound(req'[w].windows[i])
              /\ step \in {"update", "insert"} => req'[w].kind = "quota"
    PROVE  Typed'
<1>1. pc' = [pc EXCEPT ![w] = step]
    BY DEF Go
<1>2. req' \in [Workers -> ReqSet]
    BY DEF Typed, TypeOK, ReqSet
<1>3. TypeOK'
    BY <1>1, <1>2 DEF Typed, TypeOK, ReqSet
<1>4. \A v \in Workers \ {w} : req'[v] = req[v] /\ pc'[v] = pc[v]
    BY <1>1 DEF Typed, TypeOK
<1>5. pc'[w] = step
    BY <1>1 DEF Typed, TypeOK
<1>6. ASSUME NEW v \in Workers PROVE Under(v)'
  <2>1. CASE v = w
        BY <1>5, <2>1 DEF Under, Busy, Sound
  <2>2. CASE v # w
        BY <1>4, <2>2 DEF Typed, Under, Busy, Sound
  <2>3. QED BY <2>1, <2>2
<1>7. QED BY <1>3, <1>6 DEF Typed

LEMMA AdmitIs ==
    ASSUME Typed, NEW w \in Workers, Busy(w), Admit(w)
    PROVE  /\ req' = req /\ admitted' \in [Days -> Nat]
           /\ \/ req[w].kind = "quota" /\ Go(w, "update")
              \/ Go(w, "store")
<1>1. CASE req[w].kind = "quota"
  <2>1. DayOf(w) \in Days
        BY <1>1, FirstIs
  <2>2. QED BY <1>1, <2>1 DEF Admit, Plus1, Typed, TypeOK
<1>2. CASE req[w].kind # "quota"
    BY <1>2 DEF Admit, Typed, TypeOK
<1>3. QED BY <1>1, <1>2

LEMMA AdmitTyped ==
    ASSUME Typed, NEW w \in Workers, Busy(w), Admit(w),
           now' = now, requests' = requests, failures' \in Nat,
           databaseDown' = databaseDown, died' = died,
           counter' \in [Keys -> [count : Nat, expires : Nat \cup {Never}]],
           usage' = usage, within' \in [Keys -> [Limits -> Nat]],
           passed' \in [Days -> Nat], settled' \subseteq Keys
    PROVE  Typed'
<1>1. req' = req /\ admitted' \in [Days -> Nat]
    BY AdmitIs
<1>2. /\ req'[w] \in ReqSet /\ req' = [req EXCEPT ![w] = req'[w]]
      /\ req'[w].kind \in Kinds /\ Queue(req'[w].kind, req'[w].windows)
      /\ \A i \in DOMAIN req'[w].windows : Sound(req'[w].windows[i])
    BY <1>1 DEF Typed, TypeOK, Under, ReqSet
<1>3. /\ requests' \in Nat /\ databaseDown' \in BOOLEAN /\ died' \in BOOLEAN
      /\ usage' \in [Days -> Nat]
    BY DEF Typed, TypeOK
<1>4. CASE req[w].kind = "quota" /\ Go(w, "update")
    BY <1>1, <1>2, <1>3, <1>4, KeepsTyped
<1>5. CASE Go(w, "store")
    BY <1>1, <1>2, <1>3, <1>5, KeepsTyped
<1>6. QED BY <1>4, <1>5, AdmitIs

\* The first window let a request through that has no other, or one.
LEMMA NextIs ==
    ASSUME Typed, NEW w \in Workers, Busy(w), Len(req[w].windows) # 1
    PROVE  /\ req[w].kind = "inquiry"
           /\ Tail(req[w].windows)[1] = req[w].windows[2]
           /\ Queue("inquiry", Tail(req[w].windows))
           /\ \A i \in DOMAIN Tail(req[w].windows) :
                 Sound(Tail(req[w].windows)[i])
<1> DEFINE ws == req[w].windows
<1>1. Queue(req[w].kind, ws) /\ \A i \in DOMAIN ws : Sound(ws[i])
    BY DEF Typed, Under
<1> HIDE DEF ws
<1>2. /\ ws \in Seq(Window) /\ Len(ws) = 2 /\ req[w].kind = "inquiry"
      /\ ws[2].key[1] = "day"
    BY <1>1 DEF Queue, ws
<1>3. Sound(ws[2]) /\ ws[2] \in Window
    BY <1>1, <1>2 DEF Sound
<1> DEFINE rest == Tail(ws)
<1>4. rest \in Seq(Window) /\ Len(rest) = 1 /\ rest[1] = ws[2]
  <2>1. ws # <<>>
    <3>1. CASE ws = <<>>
      <4>1. Len(ws) = 0
            BY <3>1
      <4>2. QED BY <1>2, <4>1
    <3>2. QED BY <3>1
  <2>2. rest \in Seq(Window) /\ Len(rest) = 1
    <3>1. rest \in Seq(Window) /\ Len(rest) = Len(ws) - 1
          BY <1>2, <2>1, HeadTailProperties
    <3> HIDE DEF rest
    <3>2. QED BY <1>2, <3>1
  <2>3. 1 \in 1..Len(rest)
        BY <2>2
  <2>4. QED BY <1>2, <2>1, <2>2, <2>3, HeadTailProperties
<1> HIDE DEF rest
<1>5. DOMAIN rest = {1}
  <2>1. DOMAIN rest = 1..Len(rest)
        BY <1>4, LenProperties
  <2>2. QED BY <1>4, <2>1
<1>6. Queue("inquiry", rest) /\ \A i \in DOMAIN rest : Sound(rest[i])
    BY <1>2, <1>3, <1>4, <1>5 DEF Queue
<1>7. QED BY <1>2, <1>4, <1>6 DEF rest, ws

LEMMA PassIs ==
    ASSUME Typed, NEW w \in Workers, Busy(w), Pass(w)
    PROVE  /\ within' \in [Keys -> [Limits -> Nat]]
           /\ passed' \in [Days -> Nat]
<1> DEFINE window == req[w].windows[1]
           under(c) == ~req[w].late /\ window.limit # Unlimited /\ window.limit <= c
           row == [c \in Limits |-> IF under(c) THEN within[window.key][c] + 1
                                    ELSE within[window.key][c]]
<1>1. window.key \in Keys
    BY FirstIs
<1>2. within \in [Keys -> [Limits -> Nat]] /\ passed \in [Days -> Nat]
    BY DEF Typed, TypeOK
<1>3. within' = [within EXCEPT ![window.key] = row]
    BY DEF Pass
<1>4. row \in [Limits -> Nat]
  <2>1. within[window.key] \in [Limits -> Nat]
        BY <1>1, <1>2
  <2> HIDE DEF under, window
  <2>2. QED BY <2>1
<1>5. within' \in [Keys -> [Limits -> Nat]]
  <2> HIDE DEF row, window
  <2>1. QED BY <1>1, <1>2, <1>3, <1>4
<1>6. passed' = (IF window.key[1] # "hour" THEN passed
                 ELSE Plus1(passed, (window.key[2] * Hour) \div Day))
    BY DEF Pass
<1>7. passed' \in [Days -> Nat]
  <2>1. CASE window.key[1] # "hour"
        BY <1>2, <1>6, <2>1
  <2>2. CASE window.key[1] = "hour"
    <3> DEFINE n == (window.key[2] * Hour) \div Day
    <3> HIDE DEF window
    <3>1. n \in Days
          BY <1>1, <2>2, HourIs
    <3>2. passed' = Plus1(passed, n)
          BY <1>6, <2>2
    <3> HIDE DEF n
    <3>3. QED BY <1>2, <3>1, <3>2 DEF Plus1
  <2>3. QED BY <2>1, <2>2
<1>8. QED BY <1>5, <1>7

LEMMA DecideTyped ==
    ASSUME Typed, NEW w \in Workers, Busy(w), Decide(w),
           UNCHANGED <<world, usage>>,
           counter' \in [Keys -> [count : Nat, expires : Nat \cup {Never}]],
           settled' \subseteq Keys
    PROVE  Typed'
<1>1. /\ now' = now /\ requests' \in Nat /\ failures' \in Nat
      /\ requests' = requests
      /\ databaseDown' \in BOOLEAN /\ died' \in BOOLEAN
      /\ databaseDown' = databaseDown /\ died' = died
      /\ usage' \in [Days -> Nat] /\ usage' = usage
    BY DEF world, Typed, TypeOK
<1>2. CASE End(w) /\ UNCHANGED tally
  <2>1. /\ admitted' \in [Days -> Nat] /\ within' \in [Keys -> [Limits -> Nat]]
        /\ passed' \in [Days -> Nat]
        BY <1>2 DEF tally, Typed, TypeOK
  <2>2. req'[w] \in ReqSet /\ req' = [req EXCEPT ![w] = req'[w]]
        BY <1>2, NoRequestType DEF End, Typed, TypeOK
  <2>3. Go(w, "idle")
        BY <1>2 DEF End
  <2>4. QED BY <1>1, <2>1, <2>2, <2>3, KeepsTyped
<1>3. CASE Pass(w)
  <2>1. /\ within' \in [Keys -> [Limits -> Nat]]
        /\ passed' \in [Days -> Nat]
        BY <1>3, PassIs
  <2>2. CASE Admit(w)
        BY <1>1, <2>1, <2>2, AdmitTyped
  <2>3. CASE /\ Len(req[w].windows) # 1
             /\ req' = [req EXCEPT ![w].windows = Tail(@)]
             /\ Go(w, "incr") /\ UNCHANGED admitted
    <3>1. req[w] \in ReqSet
          BY FirstIs
    <3>2. /\ req'[w] \in ReqSet /\ req' = [req EXCEPT ![w] = req'[w]]
          /\ req'[w].kind = req[w].kind
          /\ req'[w].windows = Tail(req[w].windows)
      <4>1. Tail(req[w].windows) \in Seq(Window)
            BY <2>3, NextIs DEF Queue
      <4>2. QED BY <2>3, <3>1, <4>1 DEF ReqSet, Typed, TypeOK
    <3>3. /\ req'[w].kind \in Kinds /\ Queue(req'[w].kind, req'[w].windows)
          /\ \A i \in DOMAIN req'[w].windows : Sound(req'[w].windows[i])
      <4>1. req'[w].kind \in Kinds
            BY <2>3, <3>2, NextIs DEF Kinds
      <4>2. Queue(req'[w].kind, req'[w].windows)
            BY <2>3, <3>2, NextIs
      <4>3. \A i \in DOMAIN req'[w].windows : Sound(req'[w].windows[i])
            BY <2>3, <3>2, NextIs
      <4>4. QED BY <4>1, <4>2, <4>3
    <3>4. admitted' \in [Days -> Nat]
          BY <2>3 DEF Typed, TypeOK
    <3>5. QED BY <1>1, <2>1, <2>3, <3>2, <3>3, <3>4, KeepsTyped
  <2>4. QED BY <1>3, <2>2, <2>3 DEF Pass
<1>4. QED BY <1>2, <1>3 DEF Decide

\* A step with no part in the bookkeeping that ends at a given step.
LEMMA EndTyped ==
    ASSUME Typed, NEW w \in Workers, End(w),
           now' = now, requests' = requests, failures' \in Nat,
           databaseDown' \in BOOLEAN, died' \in BOOLEAN,
           UNCHANGED <<redis, tally>>, usage' \in [Days -> Nat]
    PROVE  Typed'
<1>1. /\ requests' \in Nat
      /\ counter' \in [Keys -> [count : Nat, expires : Nat \cup {Never}]]
      /\ admitted' \in [Days -> Nat] /\ within' \in [Keys -> [Limits -> Nat]]
      /\ passed' \in [Days -> Nat] /\ settled' \subseteq Keys
    BY DEF redis, tally, Typed, TypeOK
<1>2. /\ req'[w] \in ReqSet /\ req' = [req EXCEPT ![w] = req'[w]]
      /\ Go(w, "idle")
    BY NoRequestType DEF End, Typed, TypeOK
<1>3. QED BY <1>1, <1>2, KeepsTyped

LEMMA GoTyped ==
    ASSUME Typed, NEW w \in Workers, Busy(w), NEW step, Go(w, step),
           step \in {"incr", "check_ttl", "expire", "update", "insert", "store"},
           step \in {"update", "insert"} => req[w].kind = "quota",
           UNCHANGED <<world, usage, tally, req>>,
           counter' \in [Keys -> [count : Nat, expires : Nat \cup {Never}]],
           settled' \subseteq Keys
    PROVE  Typed'
<1>1. /\ requests' \in Nat /\ failures' \in Nat /\ now' = now
      /\ databaseDown' \in BOOLEAN /\ died' \in BOOLEAN
      /\ usage' \in [Days -> Nat]
      /\ admitted' \in [Days -> Nat] /\ within' \in [Keys -> [Limits -> Nat]]
      /\ passed' \in [Days -> Nat]
    BY DEF world, tally, Typed, TypeOK
<1>2. /\ req'[w] \in ReqSet /\ req' = [req EXCEPT ![w] = req'[w]]
      /\ req'[w].kind \in Kinds /\ Queue(req'[w].kind, req'[w].windows)
      /\ \A i \in DOMAIN req'[w].windows : Sound(req'[w].windows[i])
    BY DEF Typed, TypeOK, Under, ReqSet
<1>3. QED BY <1>1, <1>2, KeepsTyped

LEMMA BeginTyped ==
    ASSUME Typed, NEW w \in Workers, NEW kind \in Kinds, NEW ws,
           Begin(w, kind, ws), Go(w, "incr"), Queue(kind, ws),
           \A i \in DOMAIN ws : Sound(ws[i])
    PROVE  Typed'
<1> DEFINE r == [kind |-> kind, windows |-> ws, used |-> 0, late |-> FALSE]
<1>1. r \in ReqSet
    BY DEF ReqSet, Queue
<1>2. req' = [req EXCEPT ![w] = r] /\ r.kind = kind /\ r.windows = ws
    BY DEF Begin
<1> HIDE DEF r
<1>3. req'[w] = r /\ req' = [req EXCEPT ![w] = req'[w]]
    BY <1>2 DEF Typed, TypeOK
<1>4. requests' \in Nat
    BY DEF Begin, Typed, TypeOK
<1>5. /\ failures' \in Nat /\ now' = now
      /\ databaseDown' \in BOOLEAN /\ died' \in BOOLEAN
      /\ usage' \in [Days -> Nat]
      /\ admitted' \in [Days -> Nat] /\ within' \in [Keys -> [Limits -> Nat]]
      /\ passed' \in [Days -> Nat] /\ settled' \subseteq Keys
      /\ counter' \in [Keys -> [count : Nat, expires : Nat \cup {Never}]]
    BY DEF Begin, tally, redis, Typed, TypeOK
<1>6. req'[w].kind \in Kinds /\ Queue(req'[w].kind, req'[w].windows)
    BY <1>2, <1>3
<1>7. \A i \in DOMAIN req'[w].windows : Sound(req'[w].windows[i])
    BY <1>2, <1>3
<1>8. req'[w] \in ReqSet
    BY <1>1, <1>3
<1>9. QED BY <1>3, <1>4, <1>5, <1>6, <1>7, <1>8, KeepsTyped

\* INCR answers with what it counted, and notes whether that was late.
LEMMA IncrIs ==
    ASSUME Typed, NEW w \in Workers, Incr(w)
    PROVE  LET key   == req[w].windows[1].key
               count == IF Present(key) THEN counter[key].count + 1 ELSE 1
           IN  /\ Busy(w) /\ key \in Keys /\ count \in Nat
               /\ counter'[key].count = count
               /\ counter'[key].expires
                     = IF count = 1 THEN Never ELSE counter[key].expires
               /\ \A k \in Keys \ {key} : counter'[k] = counter[k]
               /\ counter' \in [Keys -> [count : Nat, expires : Nat \cup {Never}]]
               /\ Go(w, IF count = 1 THEN "expire" ELSE "check_ttl")
               /\ req'[w].kind = req[w].kind /\ req'[w].windows = req[w].windows
               /\ req'[w].used = count
               /\ req'[w].late = (now >= WindowEnd(key) - Slack(key))
               /\ req'[w] \in ReqSet /\ req' = [req EXCEPT ![w] = req'[w]]
<1> DEFINE key   == req[w].windows[1].key
           count == IF Present(key) THEN counter[key].count + 1 ELSE 1
<1>1. Busy(w)
    BY DEF Incr, Busy
<1>2. key \in Keys /\ req[w] \in ReqSet
    BY <1>1, FirstIs
<1>3. counter \in [Keys -> [count : Nat, expires : Nat \cup {Never}]]
    BY DEF Typed, TypeOK
<1>4. count \in Nat
    BY <1>2, <1>3
<1>5. /\ counter' = [counter EXCEPT ![key] =
                        [count |-> count,
                         expires |-> IF count = 1 THEN Never ELSE @.expires]]
      /\ Go(w, IF count = 1 THEN "expire" ELSE "check_ttl")
    BY DEF Incr
<1>6. req' = [req EXCEPT ![w].used = count,
                         ![w].late = now >= WindowEnd(key) - Slack(key)]
    BY DEF Incr, Slack
<1>7. (now >= WindowEnd(key) - Slack(key)) \in BOOLEAN
    OBVIOUS
<1>8. req \in [Workers -> ReqSet]
    BY DEF Typed, TypeOK, ReqSet
<1> HIDE DEF key, count
<1>9. /\ req'[w].kind = req[w].kind /\ req'[w].windows = req[w].windows
      /\ req'[w].used = count
      /\ req'[w].late = (now >= WindowEnd(key) - Slack(key))
      /\ req' = [req EXCEPT ![w] = req'[w]]
    BY <1>2, <1>6, <1>8 DEF ReqSet
<1>10. req'[w] \in ReqSet
    BY <1>2, <1>4, <1>6, <1>7, <1>8 DEF ReqSet
<1>11. /\ counter'[key].count = count
       /\ counter'[key].expires
             = IF count = 1 THEN Never ELSE counter[key].expires
       /\ \A k \in Keys \ {key} : counter'[k] = counter[k]
       /\ counter' \in [Keys -> [count : Nat, expires : Nat \cup {Never}]]
    BY <1>2, <1>3, <1>4, <1>5
<1>12. QED BY <1>1, <1>2, <1>4, <1>5, <1>9, <1>10, <1>11 DEF key, count

LEMMA ExpireIs ==
    ASSUME Typed, NEW w \in Workers, Expire(w)
    PROVE  LET window == req[w].windows[1]
           IN  /\ Busy(w) /\ window.key \in Keys
               /\ counter' \in [Keys -> [count : Nat, expires : Nat \cup {Never}]]
               /\ \A k \in Keys : counter'[k].count = counter[k].count
               /\ \A k \in Keys \ {window.key} : counter'[k] = counter[k]
               /\ IF Present(window.key)
                  THEN counter'[window.key].expires = now + window.ttl
                  ELSE counter'[window.key] = counter[window.key]
<1> DEFINE window == req[w].windows[1]
           key == window.key
<1>1. Busy(w)
    BY DEF Expire, Busy
<1>2. key \in Keys /\ window.ttl \in Nat \ {0}
    BY <1>1, FirstIs
<1>3. /\ counter \in [Keys -> [count : Nat, expires : Nat \cup {Never}]]
      /\ now + window.ttl \in Nat
    BY <1>2 DEF Typed, TypeOK
<1>4. counter' = IF Present(key)
                 THEN [counter EXCEPT ![key].expires = now + window.ttl]
                 ELSE counter
    BY DEF Expire
<1> HIDE DEF key, window
<1>5. /\ counter' \in [Keys -> [count : Nat, expires : Nat \cup {Never}]]
      /\ \A k \in Keys : counter'[k].count = counter[k].count
      /\ \A k \in Keys \ {key} : counter'[k] = counter[k]
      /\ IF Present(key) THEN counter'[key].expires = now + window.ttl
                         ELSE counter'[key] = counter[key]
    BY <1>2, <1>3, <1>4
<1>6. QED BY <1>1, <1>2, <1>5 DEF key, window

LEMMA StepTyped == Typed /\ [Next]_vars => Typed'
<1> SUFFICES ASSUME Typed, [Next]_vars PROVE Typed'
    OBVIOUS
<1>1. ASSUME Tick PROVE Typed'
  <2>1. /\ now \in 0..MaxTime /\ now < MaxTime /\ now' = now + 1
        /\ UNCHANGED <<requests, failures, databaseDown, died, counter, settled,
                       usage, admitted, within, passed, pc, req>>
        BY <1>1 DEF Tick, Typed, TypeOK, redis, tally
  <2>2. TypeOK'
        BY <2>1 DEF Typed, TypeOK
  <2>3. ASSUME NEW w \in Workers PROVE Under(w)'
    <3>1. CASE Busy(w)
      <4>1. /\ req[w].kind \in Kinds /\ Queue(req[w].kind, req[w].windows)
            /\ \A i \in DOMAIN req[w].windows : Sound(req[w].windows[i])
            /\ pc[w] \in {"update", "insert"} => req[w].kind = "quota"
            BY <3>1 DEF Typed, Under
      <4>2. ASSUME NEW i \in DOMAIN req[w].windows
            PROVE  Sound(req[w].windows[i])'
        <5>1. Sound(req[w].windows[i])
              BY <4>1
        <5>2. now' + req[w].windows[i].ttl
                 >= WindowEnd(req[w].windows[i].key) - Slack(req[w].windows[i].key)
          <6>1. /\ req[w].windows[i].ttl \in Nat \ {0}
                /\ req[w].windows[i].key \in Keys
                BY <5>1 DEF Sound, Window
          <6>2. /\ WindowEnd(req[w].windows[i].key) \in Nat
                /\ Slack(req[w].windows[i].key) \in Nat
                BY <6>1, KeyIs
          <6>3. QED BY <2>1, <5>1, <6>1, <6>2 DEF Sound
        <5>3. QED BY <2>1, <5>1, <5>2 DEF Sound
      <4>3. QED BY <2>1, <4>1, <4>2 DEF Under, Busy
    <3>2. CASE ~Busy(w)
          BY <2>1, <3>2 DEF Under, Busy
    <3>3. QED BY <3>1, <3>2
  <2>4. QED BY <2>2, <2>3 DEF Typed
<1>2. ASSUME NEW w \in Workers, Consume(w) PROVE Typed'
  <2>1. PICK tier \in Callers : Begin(w, "quota", QuotaWindow(now, Cap[tier]))
        BY <1>2 DEF Consume
  <2> DEFINE ws == QuotaWindow(now, Cap[tier])
  <2>2. /\ ws \in Seq(Window) /\ Len(ws) = 1 /\ ws[1].key[1] = "quota"
        /\ Sound(ws[1])
        BY QuotaWindowIs DEF Typed
  <2> HIDE DEF ws
  <2>3. Queue("quota", ws)
        BY <2>2 DEF Queue
  <2>4. \A i \in DOMAIN ws : Sound(ws[i])
    <3>1. DOMAIN ws = 1..Len(ws)
          BY <2>2, LenProperties
    <3>2. QED BY <2>2, <3>1
  <2>5. Begin(w, "quota", ws) /\ Go(w, "incr") /\ "quota" \in Kinds
        BY <1>2, <2>1 DEF Consume, Kinds, ws
  <2>6. QED BY <2>3, <2>4, <2>5, BeginTyped
<1>3. ASSUME NEW w \in Workers, ContactSales(w) PROVE Typed'
  <2>1. /\ Queue("inquiry", ContactSalesWindows(now))
        /\ \A i \in DOMAIN ContactSalesWindows(now) :
              Sound(ContactSalesWindows(now)[i])
        BY ContactSalesIs DEF Typed
  <2>2. Begin(w, "inquiry", ContactSalesWindows(now)) /\ Go(w, "incr")
        BY <1>3 DEF ContactSales
  <2>3. "inquiry" \in Kinds
        BY DEF Kinds
  <2>4. QED BY <2>1, <2>2, <2>3, BeginTyped
<1>4. ASSUME NEW w \in Workers, Incr(w) PROVE Typed'
  <2> DEFINE key   == req[w].windows[1].key
             count == IF Present(key) THEN counter[key].count + 1 ELSE 1
             step  == IF count = 1 THEN "expire" ELSE "check_ttl"
  <2>1. /\ Busy(w)
        /\ counter' \in [Keys -> [count : Nat, expires : Nat \cup {Never}]]
        /\ Go(w, step)
        /\ req'[w].kind = req[w].kind /\ req'[w].windows = req[w].windows
        /\ req'[w] \in ReqSet /\ req' = [req EXCEPT ![w] = req'[w]]
        BY <1>4, IncrIs
  <2>2. /\ now' = now /\ requests' \in Nat /\ failures' \in Nat
        /\ databaseDown' \in BOOLEAN /\ died' \in BOOLEAN
        /\ usage' \in [Days -> Nat]
        /\ admitted' \in [Days -> Nat] /\ within' \in [Keys -> [Limits -> Nat]]
        /\ passed' \in [Days -> Nat]
        BY <1>4 DEF Incr, world, tally, Typed, TypeOK
  <2>3. settled' \subseteq Keys
        BY <1>4 DEF Incr, Typed, TypeOK
  <2>4. step \in {"expire", "check_ttl"}
        OBVIOUS
  <2> HIDE DEF step
  <2>5. /\ req'[w].kind \in Kinds /\ Queue(req'[w].kind, req'[w].windows)
        /\ \A i \in DOMAIN req'[w].windows : Sound(req'[w].windows[i])
        BY <2>1 DEF Typed, Under
  <2>6. QED BY <2>1, <2>2, <2>3, <2>4, <2>5, KeepsTyped
<1>5. ASSUME NEW w \in Workers, CheckTTL(w) PROVE Typed'
  <2>1. Busy(w) /\ UNCHANGED <<world, usage, counter>>
        BY <1>5 DEF CheckTTL, Busy
  <2>2. counter' \in [Keys -> [count : Nat, expires : Nat \cup {Never}]]
        BY <2>1 DEF Typed, TypeOK
  <2>3. settled' \subseteq Keys
        BY <1>5, <2>1, FirstIs DEF CheckTTL, Typed, TypeOK
  <2>4. CASE Decide(w)
        BY <2>1, <2>2, <2>3, <2>4, DecideTyped
  <2>5. CASE Go(w, "expire") /\ UNCHANGED <<settled, tally, req>>
        BY <2>1, <2>2, <2>3, <2>5, GoTyped
  <2>6. QED BY <1>5, <2>4, <2>5 DEF CheckTTL
<1>6. ASSUME NEW w \in Workers, Expire(w) PROVE Typed'
  <2>1. /\ Busy(w) /\ req[w].windows[1].key \in Keys
        /\ counter' \in [Keys -> [count : Nat, expires : Nat \cup {Never}]]
        BY <1>6, ExpireIs
  <2>2. settled' \subseteq Keys
        BY <1>6, <2>1 DEF Expire, Typed, TypeOK
  <2>3. Decide(w) /\ UNCHANGED <<world, usage>>
        BY <1>6 DEF Expire
  <2>4. QED BY <2>1, <2>2, <2>3, DecideTyped
<1>7. ASSUME NEW w \in Workers, FailOpen(w) PROVE Typed'
  <2>1. /\ Busy(w) /\ Admit(w) /\ now' = now /\ requests' = requests
        /\ failures' \in Nat /\ databaseDown' = databaseDown /\ died' = died
        /\ usage' = usage
        BY <1>7 DEF FailOpen, Busy, Typed, TypeOK
  <2>2. /\ counter' \in [Keys -> [count : Nat, expires : Nat \cup {Never}]]
        /\ within' \in [Keys -> [Limits -> Nat]]
        /\ passed' \in [Days -> Nat] /\ settled' \subseteq Keys
        BY <1>7 DEF FailOpen, redis, Typed, TypeOK
  <2>3. QED BY <2>1, <2>2, AdmitTyped
<1>8. ASSUME NEW w \in Workers, Update(w) \/ Insert(w) PROVE Typed'
  <2>1. Busy(w) /\ req[w].kind = "quota" /\ UNCHANGED <<world, redis, tally>>
        BY <1>8 DEF Update, Insert, Busy, Typed, Under
  <2>2. DayOf(w) \in Days
        BY <2>1, FirstIs
  <2>3. CASE usage' = Plus1(usage, DayOf(w)) /\ End(w)
    <3>1. usage' \in [Days -> Nat]
          BY <2>2, <2>3 DEF Plus1, Typed, TypeOK
    <3>2. QED BY <2>1, <2>3, <3>1, EndTyped DEF world, Typed, TypeOK
  <2>4. CASE /\ UNCHANGED <<usage, req>>
             /\ Go(w, "insert") \/ Go(w, "update")
    <3>1. /\ counter' \in [Keys -> [count : Nat, expires : Nat \cup {Never}]]
          /\ settled' \subseteq Keys
          BY <2>1 DEF redis, Typed, TypeOK
    <3>2. QED BY <2>1, <2>4, <3>1, GoTyped
  <2>5. QED BY <1>8, <2>3, <2>4 DEF Update, Insert
<1>9. ASSUME NEW w \in Workers, StoreInquiry(w) \/ MirrorFails(w) \/ Die(w)
      PROVE  Typed'
  <2>1. /\ End(w) /\ now' = now /\ requests' = requests /\ failures' \in Nat
        /\ UNCHANGED <<redis, tally>> /\ usage' \in [Days -> Nat]
        BY <1>9 DEF StoreInquiry, MirrorFails, Die, world, Typed, TypeOK
  <2>2. databaseDown' \in BOOLEAN /\ died' \in BOOLEAN
        BY <1>9 DEF StoreInquiry, MirrorFails, Die, world, Typed, TypeOK
  <2>3. QED BY <2>1, <2>2, EndTyped
<1>10. CASE UNCHANGED vars
  <2>1. UNCHANGED <<now, requests, failures, databaseDown, died, counter, settled,
                    usage, admitted, within, passed, pc, req>>
        BY <1>10 DEF vars, world, redis, tally
  <2>2. TypeOK'
        BY <2>1 DEF Typed, TypeOK
  <2>3. \A w \in Workers : Under(w)'
        BY <2>1 DEF Typed, Under, Busy, Sound
  <2>4. QED BY <2>2, <2>3 DEF Typed
<1>11. QED
    BY <1>1, <1>2, <1>3, <1>4, <1>5, <1>6, <1>7, <1>8, <1>9, <1>10 DEF Next

\* The types, and that every EXPIRE is given a positive TTL (cache.py:100).
THEOREM TypeCorrect == Spec => []TypeOK
<1>1. Typed => TypeOK
    BY DEF Typed
<1>2. QED BY <1>1, InitTyped, StepTyped, PTL DEF Spec

---------------------------------------------------------------------------
(* One worker at a time *)

Counting == {"check_ttl", "expire"}

\* Steps that leave the windows and their counters alone.
Quiet(w) ==
    \/ Consume(w) \/ ContactSales(w) \/ FailOpen(w)
    \/ Update(w) \/ Insert(w) \/ StoreInquiry(w) \/ MirrorFails(w) \/ Die(w)

Others(w) == \A v \in Workers \ {w} : pc'[v] = pc[v] /\ req'[v] = req[v]

LEMMA GoIs ==
    ASSUME Typed, NEW w \in Workers, NEW step, Go(w, step), NEW r,
           req' = [req EXCEPT ![w] = r]
    PROVE  Others(w) /\ pc'[w] = step /\ req'[w] = r
BY DEF Go, Others, Typed, TypeOK

LEMMA QuietIs ==
    ASSUME Typed, NEW w \in Workers, Quiet(w)
    PROVE  /\ Others(w) /\ pc'[w] \notin Counting
           /\ UNCHANGED <<now, counter, settled, within, passed>>
<1>1. CASE Consume(w) \/ ContactSales(w)
  <2>1. PICK kind, ws : Begin(w, kind, ws) /\ Go(w, "incr")
        BY <1>1 DEF Consume, ContactSales
  <2>2. req' = [req EXCEPT ![w] = [kind |-> kind, windows |-> ws,
                                   used |-> 0, late |-> FALSE]]
        BY <2>1 DEF Begin
  <2>3. Others(w) /\ pc'[w] = "incr"
        BY <2>1, <2>2, GoIs
  <2>4. QED BY <2>1, <2>3 DEF Begin, redis, tally, Counting
<1>2. CASE FailOpen(w)
  <2>1. Busy(w) /\ Admit(w)
        BY <1>2 DEF FailOpen, Busy
  <2>2. req' = [req EXCEPT ![w] = req[w]]
        BY <2>1, AdmitIs DEF Typed, TypeOK
  <2>3. Go(w, "update") \/ Go(w, "store")
        BY <2>1, AdmitIs
  <2>4. Others(w) /\ pc'[w] \in {"update", "store"}
        BY <2>2, <2>3, GoIs
  <2>5. QED BY <1>2, <2>4 DEF FailOpen, redis, Counting
<1>3. CASE Update(w) \/ Insert(w) \/ StoreInquiry(w) \/ MirrorFails(w) \/ Die(w)
  <2>1. UNCHANGED <<now, counter, settled, within, passed>>
        BY <1>3 DEF Update, Insert, StoreInquiry, MirrorFails, Die, world, redis,
                    tally
  <2>2. CASE End(w)
    <3>1. Go(w, "idle") /\ req' = [req EXCEPT ![w] = NoRequest]
          BY <2>2 DEF End
    <3>2. Others(w) /\ pc'[w] = "idle"
          BY <3>1, GoIs
    <3>3. QED BY <2>1, <3>2 DEF Counting
  <2>3. CASE UNCHANGED req /\ (Go(w, "insert") \/ Go(w, "update"))
    <3>1. req' = [req EXCEPT ![w] = req[w]]
          BY <2>3 DEF Typed, TypeOK
    <3>2. Others(w) /\ pc'[w] \in {"insert", "update"}
          BY <2>3, <3>1, GoIs
    <3>3. QED BY <2>1, <3>2 DEF Counting
  <2>4. End(w) \/ (UNCHANGED req /\ (Go(w, "insert") \/ Go(w, "update")))
        BY <1>3 DEF Update, Insert, StoreInquiry, MirrorFails, Die
  <2>5. QED BY <2>2, <2>3, <2>4
<1>4. QED BY <1>1, <1>2, <1>3 DEF Quiet

LEMMA NextIsOneOf ==
    ASSUME [Next]_vars
    PROVE  \/ Tick \/ UNCHANGED vars
           \/ \E w \in Workers : Quiet(w) \/ Incr(w) \/ CheckTTL(w) \/ Expire(w)
BY DEF Next, Quiet

LEMMA TickIs ==
    ASSUME Typed, Tick \/ UNCHANGED vars
    PROVE  /\ now' \in Nat /\ now <= now'
           /\ UNCHANGED <<counter, settled, usage, admitted, within, passed,
                          databaseDown, died, pc, req>>
<1>1. now \in Nat
    BY DEF Typed, TypeOK
<1>2. QED BY <1>1 DEF Tick, vars, world, redis, tally

---------------------------------------------------------------------------
(* No counter without a TTL for ever *)

LEMMA CheckTTLIs ==
    ASSUME Typed, NEW w \in Workers, CheckTTL(w)
    PROVE  /\ Busy(w) /\ pc[w] \in Counting /\ req[w].windows[1].key \in Keys
           /\ now' = now /\ counter' = counter
           /\ \/ /\ Decide(w)
                 /\ settled' = settled \cup {req[w].windows[1].key}
                 /\ counter[req[w].windows[1].key].expires # Never
              \/ /\ Go(w, "expire") /\ UNCHANGED <<settled, tally, req>>
<1>1. Busy(w)
    BY DEF CheckTTL, Busy
<1>2. QED BY <1>1, FirstIs DEF CheckTTL, Counting, world

LEMMA StepExpires == Typed /\ CounterExpires /\ [Next]_vars => CounterExpires'
<1> SUFFICES ASSUME Typed, CounterExpires, [Next]_vars PROVE CounterExpires'
    OBVIOUS
<1>0. settled' \subseteq Keys
    BY StepTyped DEF Typed, TypeOK
<1> SUFFICES ASSUME NEW key \in Keys, key \in settled', Present(key)',
                    counter'[key].expires = Never
             PROVE  FALSE
    BY <1>0 DEF CounterExpires
<1>1. now \in Nat /\ settled \subseteq Keys
    BY DEF Typed, TypeOK
<1>2. CASE Tick \/ UNCHANGED vars
  <2>1. now' \in Nat /\ now <= now' /\ UNCHANGED <<counter, settled>>
        BY <1>2, TickIs
  <2>2. Present(key) /\ key \in settled /\ counter[key].expires = Never
        BY <2>1 DEF Present
  <2>3. QED BY <2>2 DEF CounterExpires
<1>3. ASSUME NEW w \in Workers, Quiet(w) PROVE FALSE
  <2>1. UNCHANGED <<now, counter, settled>>
        BY <1>3, QuietIs
  <2>2. QED BY <2>1 DEF CounterExpires, Present
<1>4. ASSUME NEW w \in Workers, Incr(w) PROVE FALSE
  <2> DEFINE at == req[w].windows[1].key
             count == IF Present(at) THEN counter[at].count + 1 ELSE 1
  <2>1. /\ at \in Keys
        /\ counter'[at].expires = IF count = 1 THEN Never ELSE counter[at].expires
        /\ \A k \in Keys \ {at} : counter'[k] = counter[k]
        BY <1>4, IncrIs
  <2>2. now' = now /\ settled' = IF count = 1 THEN settled \ {at} ELSE settled
        BY <1>4 DEF Incr, world
  <2>3. CASE key = at
    <3>1. count # 1 /\ key \in settled
          BY <2>2, <2>3
    <3>2. Present(key)
          BY <2>3, <3>1
    <3>3. counter[key].expires = Never
          BY <2>1, <2>3, <3>1
    <3>4. QED BY <3>1, <3>2, <3>3 DEF CounterExpires
  <2>4. CASE key # at
        BY <2>1, <2>2, <2>4 DEF CounterExpires, Present
  <2>5. QED BY <2>3, <2>4
<1>5. ASSUME NEW w \in Workers, CheckTTL(w) PROVE FALSE
    BY <1>5, CheckTTLIs DEF CounterExpires, Present
<1>6. ASSUME NEW w \in Workers, Expire(w) PROVE FALSE
  <2> DEFINE window == req[w].windows[1]
  <2>1. /\ Busy(w) /\ window.key \in Keys
        /\ \A k \in Keys : counter'[k].count = counter[k].count
        /\ \A k \in Keys \ {window.key} : counter'[k] = counter[k]
        /\ IF Present(window.key)
           THEN counter'[window.key].expires = now + window.ttl
           ELSE counter'[window.key] = counter[window.key]
        BY <1>6, ExpireIs
  <2>2. now' = now /\ settled' = settled \cup {window.key}
        BY <1>6 DEF Expire, world
  <2>3. window.ttl \in Nat \ {0}
        BY <2>1, FirstIs
  <2> HIDE DEF window
  <2>4. CASE key = window.key
    <3>1. CASE Present(key)
          BY <1>1, <2>1, <2>3, <2>4, <3>1 DEF Never
    <3>2. CASE ~Present(key)
          BY <2>1, <2>2, <2>4, <3>2 DEF Present
    <3>3. QED BY <3>1, <3>2
  <2>5. CASE key # window.key
        BY <2>1, <2>2, <2>5 DEF CounterExpires, Present
  <2>6. QED BY <2>4, <2>5
<1>7. QED BY <1>2, <1>3, <1>4, <1>5, <1>6, NextIsOneOf

\* Once any request has been through its whole incr the key has a TTL, whoever
\* died half way before it (cache.py:96-100).
THEOREM CounterCannotStay == Spec => []CounterExpires
<1>1. Init => CounterExpires
    BY DEF Init, CounterExpires
<1>2. QED BY <1>1, InitTyped, StepTyped, StepExpires, PTL DEF Spec

---------------------------------------------------------------------------
(* No window above its cap *)

\* Two sets of workers that differ in one at most.
LEMMA CountOne ==
    ASSUME NEW A \in SUBSET Workers, NEW B \in SUBSET Workers,
           NEW w \in Workers, \A v \in Workers \ {w} : v \in A <=> v \in B
    PROVE  /\ Cardinality(A) \in Nat /\ Cardinality(B) \in Nat
           /\ (w \in A <=> w \in B) => Cardinality(A) = Cardinality(B)
           /\ w \in A /\ w \notin B => Cardinality(A) = Cardinality(B) + 1
           /\ w \notin A /\ w \in B => Cardinality(B) = Cardinality(A) + 1
<1>1. IsFiniteSet(A) /\ IsFiniteSet(B)
    BY FS_Subset
<1>2. Cardinality(A) \in Nat /\ Cardinality(B) \in Nat
    BY <1>1, FS_CardinalityType
<1>3. (w \in A <=> w \in B) => A = B
    OBVIOUS
<1>4. w \in A /\ w \notin B => A = B \cup {w}
    OBVIOUS
<1>5. w \notin A /\ w \in B => B = A \cup {w}
    OBVIOUS
<1>6. w \in A /\ w \notin B => Cardinality(A) = Cardinality(B) + 1
    BY <1>1, <1>4, FS_AddElement
<1>7. w \notin A /\ w \in B => Cardinality(B) = Cardinality(A) + 1
    BY <1>1, <1>5, FS_AddElement
<1>8. QED BY <1>2, <1>3, <1>6, <1>7

\* A TTL that was set reaches the last second of the window at least.
Reaching ==
    \A key \in Keys :
        counter[key].count > 0 /\ counter[key].expires # Never
            => counter[key].expires >= WindowEnd(key) - Slack(key)

InTime(key, t) == t < WindowEnd(key) - Slack(key)

\* A request that was told a count it will be let through with, in time.
Pending(w, key, c) ==
    /\ pc[w] \in Counting /\ req[w].windows[1].key = key /\ ~req[w].late
    /\ req[w].windows[1].limit # Unlimited /\ req[w].windows[1].limit <= c
    /\ req[w].used <= req[w].windows[1].limit

Pend(key, c) == { w \in Workers : Pending(w, key, c) }

Let(key, c) == within[key][c] + Cardinality(Pend(key, c))

\* Those let through and those about to be are within the cap, and as long as
\* the window lasts the counter has counted each of them.
Held ==
    \A key \in Keys, c \in Limits :
        /\ Let(key, c) <= c
        /\ InTime(key, now) => Let(key, c) <= counter[key].count

LEMMA LimitIs == (\A c \in Limits : c \in Nat) /\ (\A cap \in Caps : cap \in Int)
<1>1. HourCap \in Nat /\ DayCap \in Nat /\ Cap \in [Tier -> Amount]
      /\ Callers \subseteq Tier
    BY CapsAssumption
<1>2. \A cap \in Caps : cap \in Amount
    BY <1>1 DEF Caps, Amount
<1>3. \A cap \in Amount : cap \in Int /\ (cap # Unlimited => cap \in Nat)
    BY DEF Amount, Unlimited
<1>4. QED BY <1>2, <1>3 DEF Limits

LEMMA LetIs ==
    ASSUME Typed, NEW key \in Keys, NEW c \in Limits
    PROVE  /\ Let(key, c) \in Nat /\ within[key][c] \in Nat /\ c \in Nat
           /\ Cardinality(Pend(key, c)) \in Nat
           /\ counter[key].count \in Nat /\ now \in Nat
           /\ counter[key].expires \in Nat \cup {Never}
           /\ WindowEnd(key) \in Nat /\ Slack(key) \in Nat
<1>1. within[key][c] \in Nat /\ counter[key].count \in Nat /\ now \in Nat
      /\ counter[key].expires \in Nat \cup {Never}
    BY DEF Typed, TypeOK
<1>2. Cardinality(Pend(key, c)) \in Nat
    BY FS_Subset, FS_CardinalityType DEF Pend
<1>3. QED BY <1>1, <1>2, LimitIs, KeyIs DEF Let

LEMMA StepReaching == Typed /\ Reaching /\ [Next]_vars => Reaching'
<1> SUFFICES ASSUME Typed, Reaching, [Next]_vars, NEW key \in Keys
             PROVE  (counter'[key].count > 0 /\ counter'[key].expires # Never)
                       => counter'[key].expires >= WindowEnd(key) - Slack(key)
    BY DEF Reaching, WindowEnd, Slack, Keys, Length
<1>1. /\ WindowEnd(key) \in Nat /\ Slack(key) \in Nat /\ now \in Nat
      /\ counter[key].expires \in Nat \cup {Never} /\ counter[key].count \in Nat
    BY KeyIs DEF Typed, TypeOK
<1>2. CASE counter' = counter
    BY <1>2 DEF Reaching
<1>3. ASSUME NEW w \in Workers, Incr(w)
      PROVE  (counter'[key].count > 0 /\ counter'[key].expires # Never)
                => counter'[key].expires >= WindowEnd(key) - Slack(key)
  <2> DEFINE at == req[w].windows[1].key
             count == IF Present(at) THEN counter[at].count + 1 ELSE 1
  <2>1. /\ at \in Keys
        /\ counter'[at].expires = IF count = 1 THEN Never ELSE counter[at].expires
        /\ \A k \in Keys \ {at} : counter'[k] = counter[k]
        BY <1>3, IncrIs
  <2>2. CASE key = at
    <3>1. count # 1 => counter[at].count > 0
          BY DEF Present
    <3>2. QED BY <2>1, <2>2, <3>1 DEF Reaching
  <2>3. CASE key # at
        BY <2>1, <2>3 DEF Reaching
  <2>4. QED BY <2>2, <2>3
<1>4. ASSUME NEW w \in Workers, Expire(w)
      PROVE  (counter'[key].count > 0 /\ counter'[key].expires # Never)
                => counter'[key].expires >= WindowEnd(key) - Slack(key)
  <2> DEFINE window == req[w].windows[1]
  <2>1. /\ Busy(w) /\ window.key \in Keys
        /\ \A k \in Keys \ {window.key} : counter'[k] = counter[k]
        /\ IF Present(window.key)
           THEN counter'[window.key].expires = now + window.ttl
           ELSE counter'[window.key] = counter[window.key]
        BY <1>4, ExpireIs
  <2>2. now + window.ttl >= WindowEnd(window.key) - Slack(window.key)
        BY <2>1, FirstIs DEF Sound
  <2> HIDE DEF window
  <2>3. QED BY <2>1, <2>2 DEF Reaching
<1>5. CASE Tick \/ UNCHANGED vars
    BY <1>2, <1>5, TickIs
<1>6. ASSUME NEW w \in Workers, Quiet(w) PROVE counter' = counter
    BY <1>6, QuietIs
<1>7. ASSUME NEW w \in Workers, CheckTTL(w) PROVE counter' = counter
    BY <1>7, CheckTTLIs
<1>8. QED BY <1>2, <1>3, <1>4, <1>5, <1>6, <1>7, NextIsOneOf

\* What a decision does to the requests let through and to those waiting.
LEMMA DecideIs ==
    ASSUME Typed, NEW w \in Workers, Busy(w), pc[w] \in Counting, Decide(w)
    PROVE  /\ Others(w) /\ pc'[w] \notin Counting
           /\ \A key \in Keys, c \in Limits :
                 within'[key][c] = IF Pending(w, key, c) THEN within[key][c] + 1
                                   ELSE within[key][c]
<1> DEFINE window == req[w].windows[1]
<1>1. /\ window.key \in Keys /\ window.limit \in Int
      /\ req[w].used \in Nat /\ req[w].late \in BOOLEAN
  <2>1. window.key \in Keys /\ req[w] \in ReqSet /\ window.limit \in Caps
        BY FirstIs
  <2> HIDE DEF window
  <2>2. window.limit \in Int
        BY <2>1, LimitIs
  <2>3. QED BY <2>1, <2>2 DEF ReqSet
<1>2. within \in [Keys -> [Limits -> Nat]]
    BY DEF Typed, TypeOK
<1>3. CASE window.limit # Unlimited /\ req[w].used > window.limit
  <2>1. End(w) /\ UNCHANGED tally
        BY <1>3 DEF Decide
  <2>2. Go(w, "idle") /\ req' = [req EXCEPT ![w] = NoRequest]
        BY <2>1 DEF End
  <2>3. Others(w) /\ pc'[w] = "idle"
        BY <2>2, GoIs
  <2>4. \A key \in Keys, c \in Limits : ~Pending(w, key, c)
        BY <1>1, <1>3 DEF Pending
  <2>5. QED BY <2>1, <2>3, <2>4 DEF tally, Counting
<1>4. CASE ~(window.limit # Unlimited /\ req[w].used > window.limit)
  <2>1. Pass(w)
        BY <1>4 DEF Decide
  <2> DEFINE under(c) == ~req[w].late /\ window.limit # Unlimited /\ window.limit <= c
             row == [c \in Limits |-> IF under(c) THEN within[window.key][c] + 1
                                      ELSE within[window.key][c]]
  <2>2. within' = [within EXCEPT ![window.key] = row]
        BY <2>1 DEF Pass
  <2>3. ASSUME NEW key \in Keys, NEW c \in Limits
        PROVE  within'[key][c] = IF Pending(w, key, c) THEN within[key][c] + 1
                                 ELSE within[key][c]
    <3>1. Pending(w, key, c) <=> key = window.key /\ under(c)
          BY <1>1, <1>4 DEF Pending
    <3> HIDE DEF under
    <3>2. CASE key = window.key
          BY <1>1, <1>2, <2>2, <3>1, <3>2
    <3>3. CASE key # window.key
          BY <1>1, <1>2, <2>2, <3>1, <3>3
    <3>4. QED BY <3>2, <3>3
  <2>4. Others(w) /\ pc'[w] \notin Counting
    <3>1. CASE Admit(w)
      <4>1. req' = [req EXCEPT ![w] = req[w]]
            BY <3>1, AdmitIs DEF Typed, TypeOK
      <4>2. Go(w, "update") \/ Go(w, "store")
            BY <3>1, AdmitIs
      <4>3. Others(w) /\ pc'[w] \in {"update", "store"}
            BY <4>1, <4>2, GoIs
      <4>4. QED BY <4>3 DEF Counting
    <3>2. CASE req' = [req EXCEPT ![w].windows = Tail(@)] /\ Go(w, "incr")
      <4>1. PICK r : req' = [req EXCEPT ![w] = r]
            BY <3>2
      <4>2. Others(w) /\ pc'[w] = "incr"
            BY <3>2, <4>1, GoIs
      <4>3. QED BY <4>2 DEF Counting
    <3>3. QED BY <2>1, <3>1, <3>2 DEF Pass
  <2>5. QED BY <2>3, <2>4
<1>5. QED BY <1>3, <1>4

LEMMA PendIs ==
    ASSUME Typed, NEW w \in Workers, Others(w), NEW key, NEW c
    PROVE  /\ Cardinality(Pend(key, c)) \in Nat /\ Cardinality(Pend(key, c)') \in Nat
           /\ (Pending(w, key, c) <=> Pending(w, key, c)')
                 => Cardinality(Pend(key, c)') = Cardinality(Pend(key, c))
           /\ Pending(w, key, c) /\ ~Pending(w, key, c)'
                 => Cardinality(Pend(key, c)) = Cardinality(Pend(key, c)') + 1
           /\ ~Pending(w, key, c) /\ Pending(w, key, c)'
                 => Cardinality(Pend(key, c)') = Cardinality(Pend(key, c)) + 1
<1> DEFINE A == Pend(key, c)
           B == { v \in Workers : Pending(v, key, c)' }
<1>1. Pend(key, c)' = B
    BY DEF Pend
<1>2. A \in SUBSET Workers /\ B \in SUBSET Workers
    BY DEF Pend
<1>3. \A v \in Workers : (v \in A <=> Pending(v, key, c)) /\ (v \in B <=> Pending(v, key, c)')
    BY DEF Pend
<1>4. \A v \in Workers \ {w} : Pending(v, key, c) <=> Pending(v, key, c)'
    BY DEF Others, Pending
<1> HIDE DEF A, B
<1>5. \A v \in Workers \ {w} : v \in A <=> v \in B
    BY <1>3, <1>4
<1>6. /\ Cardinality(A) \in Nat /\ Cardinality(B) \in Nat
      /\ (w \in A <=> w \in B) => Cardinality(A) = Cardinality(B)
      /\ w \in A /\ w \notin B => Cardinality(A) = Cardinality(B) + 1
      /\ w \notin A /\ w \in B => Cardinality(B) = Cardinality(A) + 1
    BY <1>2, <1>5, CountOne
<1>7. /\ Cardinality(A) \in Nat /\ Cardinality(B) \in Nat
      /\ (Pending(w, key, c) <=> Pending(w, key, c)')
            => Cardinality(B) = Cardinality(A)
      /\ Pending(w, key, c) /\ ~Pending(w, key, c)'
            => Cardinality(A) = Cardinality(B) + 1
      /\ ~Pending(w, key, c) /\ Pending(w, key, c)'
            => Cardinality(B) = Cardinality(A) + 1
    BY <1>3, <1>6
<1>8. QED BY <1>1, <1>7 DEF A

\* A counter that is gone before the last second of its window was never made.
LEMMA GoneMeansNone ==
    ASSUME Typed, Reaching, NEW key \in Keys, InTime(key, now), ~Present(key)
    PROVE  counter[key].count = 0
<1>1. /\ WindowEnd(key) \in Nat /\ Slack(key) \in Nat /\ now \in Nat
      /\ counter[key].expires \in Nat \cup {Never} /\ counter[key].count \in Nat
    BY KeyIs DEF Typed, TypeOK
<1>2. QED BY <1>1 DEF Reaching, InTime, Present

LEMMA StepHeld == Typed /\ Reaching /\ Held /\ [Next]_vars => Held'
<1> SUFFICES ASSUME Typed, Reaching, Held, [Next]_vars,
                    NEW key \in Keys, NEW c \in Limits
             PROVE  /\ Let(key, c)' <= c
                    /\ InTime(key, now') => Let(key, c)' <= counter'[key].count
    BY DEF Held, InTime, WindowEnd, Slack
<1> DEFINE in == within[key][c]
           out == Cardinality(Pend(key, c))
           in2 == within'[key][c]
           out2 == Cardinality(Pend(key, c)')
<1>1. /\ in \in Nat /\ out \in Nat /\ c \in Nat
      /\ counter[key].count \in Nat /\ now \in Nat
      /\ counter[key].expires \in Nat \cup {Never}
      /\ WindowEnd(key) \in Nat /\ Slack(key) \in Nat
    BY LetIs
<1>2. in + out <= c /\ (InTime(key, now) => in + out <= counter[key].count)
    BY DEF Held, Let
<1>3. Let(key, c)' = in2 + out2
    BY DEF Let
<1> DEFINE Goal == /\ in2 + out2 <= c
                   /\ InTime(key, now') => in2 + out2 <= counter'[key].count
<1>4. CASE Tick \/ UNCHANGED vars
  <2>1. /\ now' \in Nat /\ now <= now'
        /\ UNCHANGED <<counter, within, pc, req>>
        BY <1>4, TickIs
  <2>2. Pend(key, c)' = Pend(key, c)
        BY <2>1 DEF Pend, Pending
  <2>3. InTime(key, now') => InTime(key, now)
        BY <1>1, <2>1 DEF InTime
  <2>4. in2 = in /\ out2 = out /\ counter'[key].count = counter[key].count
        BY <2>1, <2>2
  <2> HIDE DEF in, out, in2, out2
  <2>5. QED BY <1>2, <1>3, <2>3, <2>4
<1>5. ASSUME NEW w \in Workers, Quiet(w) PROVE Goal
  <2>1. /\ Others(w) /\ pc'[w] \notin Counting
        /\ UNCHANGED <<now, counter, within>>
        BY <1>5, QuietIs
  <2>2. ~Pending(w, key, c)'
        BY <2>1 DEF Pending
  <2>3. out2 \in Nat /\ (out2 = out \/ out = out2 + 1)
        BY <2>1, <2>2, PendIs
  <2>4. in2 = in /\ counter'[key].count = counter[key].count /\ now' = now
        BY <2>1
  <2> HIDE DEF in, out, in2, out2
  <2>5. QED BY <1>1, <1>2, <2>3, <2>4
<1>6. ASSUME NEW w \in Workers, Incr(w) PROVE Goal
  <2> DEFINE at == req[w].windows[1].key
             count == IF Present(at) THEN counter[at].count + 1 ELSE 1
             limit == req[w].windows[1].limit
             step  == IF count = 1 THEN "expire" ELSE "check_ttl"
  <2>1. /\ Busy(w) /\ at \in Keys /\ count \in Nat
        /\ counter'[at].count = count
        /\ \A k \in Keys \ {at} : counter'[k] = counter[k]
        /\ Go(w, step)
        /\ req'[w].windows = req[w].windows /\ req'[w].used = count
        /\ req'[w].late = (now >= WindowEnd(at) - Slack(at))
        /\ req' = [req EXCEPT ![w] = req'[w]]
        BY <1>6, IncrIs
  <2>2. Others(w)
    <3> HIDE DEF step, count, at
    <3>1. QED BY <2>1, GoIs
  <2>3. pc[w] = "incr" /\ now' = now /\ within' = within
        BY <1>6 DEF Incr, world, tally
  <2>4. ~Pending(w, key, c)
        BY <2>3 DEF Pending, Counting
  <2>5. limit \in Int
        BY <2>1, FirstIs, LimitIs
  <2>6. out2 \in Nat /\ (Pending(w, key, c)' => out2 = out + 1)
        /\ (~Pending(w, key, c)' => out2 = out)
        BY <2>2, <2>4, PendIs
  <2>7. Pending(w, key, c)' =>
            /\ key = at /\ ~(now >= WindowEnd(at) - Slack(at))
            /\ limit <= c /\ count <= limit
        BY <2>1 DEF Pending
  <2> HIDE DEF limit
  <2>8. CASE key = at
    <3>1. CASE InTime(key, now)
      <4>1. count = counter[key].count + 1
            BY <1>1, <2>8, <3>1, GoneMeansNone
      <4>2. in + out + 1 <= count
            BY <1>1, <1>2, <3>1, <4>1
      <4>3. in2 = in /\ counter'[key].count = count
            BY <2>1, <2>3, <2>8
      <4> HIDE DEF in, out, in2, out2, count, at
      <4>4. QED BY <1>1, <1>2, <2>1, <2>3, <2>5, <2>6, <2>7, <4>2, <4>3
    <3>2. CASE ~InTime(key, now)
      <4>1. ~Pending(w, key, c)'
            BY <1>1, <2>7, <2>8, <3>2 DEF InTime
      <4>2. in2 = in /\ out2 = out
            BY <2>3, <2>6, <4>1
      <4> HIDE DEF in, out, in2, out2
      <4>3. QED BY <1>2, <2>3, <3>2, <4>2
    <3>3. QED BY <3>1, <3>2
  <2>9. CASE key # at
    <3>1. counter'[key] = counter[key] /\ in2 = in /\ out2 = out
          BY <2>1, <2>3, <2>6, <2>7, <2>9
    <3> HIDE DEF in, out, in2, out2
    <3>2. QED BY <1>2, <2>3, <3>1
  <2>10. QED BY <2>8, <2>9
<1>7. ASSUME NEW w \in Workers, Busy(w), pc[w] \in Counting, Decide(w),
             now' = now, counter'[key].count = counter[key].count
      PROVE  Goal
  <2>1. /\ Others(w) /\ pc'[w] \notin Counting
        /\ in2 = IF Pending(w, key, c) THEN in + 1 ELSE in
        BY <1>7, DecideIs
  <2>2. ~Pending(w, key, c)'
        BY <2>1 DEF Pending
  <2>3. /\ out2 \in Nat
        /\ IF Pending(w, key, c) THEN out = out2 + 1 ELSE out2 = out
        BY <2>1, <2>2, PendIs
  <2> HIDE DEF in, out, in2, out2
  <2>4. in2 + out2 = in + out
        BY <1>1, <2>1, <2>3
  <2>5. QED BY <1>2, <1>7, <2>4
<1>8. ASSUME NEW w \in Workers, CheckTTL(w) PROVE Goal
  <2>1. /\ Busy(w) /\ pc[w] \in Counting /\ now' = now /\ counter' = counter
        BY <1>8, CheckTTLIs
  <2>2. CASE Decide(w)
        BY <1>7, <2>1, <2>2
  <2>3. CASE Go(w, "expire") /\ UNCHANGED <<tally, req>>
    <3>1. req' = [req EXCEPT ![w] = req[w]] /\ within' = within
          BY <2>3 DEF tally, Typed, TypeOK
    <3>2. Others(w) /\ pc'[w] = "expire" /\ req'[w] = req[w]
          BY <2>3, <3>1, GoIs
    <3>3. Pending(w, key, c)' <=> Pending(w, key, c)
          BY <2>1, <3>2 DEF Pending, Counting
    <3>4. out2 = out /\ in2 = in
          BY <3>1, <3>2, <3>3, PendIs
    <3> HIDE DEF in, out, in2, out2
    <3>5. QED BY <1>2, <2>1, <3>4
  <2>4. QED BY <1>8, <2>2, <2>3, CheckTTLIs
<1>9. ASSUME NEW w \in Workers, Expire(w) PROVE Goal
  <2>1. Busy(w) /\ counter'[key].count = counter[key].count
        BY <1>9, ExpireIs
  <2>2. pc[w] \in Counting /\ Decide(w) /\ now' = now
        BY <1>9 DEF Expire, Counting, world
  <2>3. QED BY <1>7, <2>1, <2>2
<1>10. Goal
    BY <1>3, <1>4, <1>5, <1>6, <1>8, <1>9, NextIsOneOf
<1>11. QED BY <1>3, <1>10

LEMMA InitHeld == Init => Reaching /\ Held
<1> SUFFICES ASSUME Init PROVE Reaching /\ Held
    OBVIOUS
<1>1. \A key \in Keys : counter[key].count = 0
    BY DEF Init, Gone
<1>2. ASSUME NEW key \in Keys, NEW c \in Limits
      PROVE  Let(key, c) = 0 /\ 0 <= c
  <2>1. within[key][c] = 0 /\ Pend(key, c) = {}
        BY DEF Init, Pend, Pending, Counting
  <2>2. QED BY <2>1, FS_EmptySet, LimitIs DEF Let
<1>3. QED BY <1>1, <1>2 DEF Reaching, Held

\* No window lets more through than its cap, however the requests interleave,
\* whichever calls fail and whoever dies (quota.py:147-155, cache.py:94-100).
THEOREM NeverAboveTheCap == Spec => []QuotaHolds
<1>1. Typed /\ Held => QuotaHolds
  <2> SUFFICES ASSUME Typed, Held, NEW key \in Keys, NEW c \in Limits
               PROVE  within[key][c] <= c
      BY DEF QuotaHolds
  <2>1. /\ Let(key, c) <= c /\ within[key][c] \in Nat /\ c \in Nat
        /\ Cardinality(Pend(key, c)) \in Nat
        BY LetIs DEF Held
  <2>2. QED BY <2>1 DEF Let
<1>2. QED
    BY <1>1, InitTyped, InitHeld, StepTyped, StepReaching, StepHeld, PTL DEF Spec

---------------------------------------------------------------------------
(* The hour's refusals leave the day alone *)

DayKey(n) == <<"day", n>>

\* Let through by the hour, not yet counted in the day.
Towards(w, n) == pc[w] = "incr" /\ req[w].windows[1].key = DayKey(n)

TowardsDay(n) == { w \in Workers : Towards(w, n) }

\* The day has counted, or is about to count, no more than the hour let through.
Spared ==
    HourCap > 0 =>
        \A n \in Days :
            counter[DayKey(n)].count + Cardinality(TowardsDay(n)) <= passed[n]

LEMMA DayKeyIs ==
    ASSUME NEW n \in Days
    PROVE  n \in Nat /\ DayKey(n) \in Keys /\ DayKey(n)[1] = "day" /\ DayKey(n)[2] = n
<1>1. MaxTime \div Day \in Nat
    BY DivMonotone, DivRange
<1>2. n \in Nat /\ n \in 0..(MaxTime \div Length["day"]) /\ "day" \in DOMAIN Length
    BY <1>1 DEF Days, Length
<1>3. DayKey(n) \in {"day"} \X (0..(MaxTime \div Length["day"]))
    BY <1>2 DEF DayKey
<1>4. QED BY <1>2, <1>3 DEF Keys, DayKey

LEMMA TowardsIs ==
    ASSUME Typed, NEW w \in Workers, Others(w), NEW n
    PROVE  /\ Cardinality(TowardsDay(n)) \in Nat
           /\ Cardinality(TowardsDay(n)') \in Nat
           /\ (Towards(w, n) <=> Towards(w, n)')
                 => Cardinality(TowardsDay(n)') = Cardinality(TowardsDay(n))
           /\ Towards(w, n) /\ ~Towards(w, n)'
                 => Cardinality(TowardsDay(n)) = Cardinality(TowardsDay(n)') + 1
           /\ ~Towards(w, n) /\ Towards(w, n)'
                 => Cardinality(TowardsDay(n)') = Cardinality(TowardsDay(n)) + 1
<1> DEFINE A == TowardsDay(n)
           B == { v \in Workers : Towards(v, n)' }
<1>1. TowardsDay(n)' = B
    BY DEF TowardsDay
<1>2. A \in SUBSET Workers /\ B \in SUBSET Workers
    BY DEF TowardsDay
<1>3. \A v \in Workers : (v \in A <=> Towards(v, n)) /\ (v \in B <=> Towards(v, n)')
    BY DEF TowardsDay
<1>4. \A v \in Workers \ {w} : Towards(v, n) <=> Towards(v, n)'
    BY DEF Others, Towards
<1> HIDE DEF A, B
<1>5. \A v \in Workers \ {w} : v \in A <=> v \in B
    BY <1>3, <1>4
<1>6. /\ Cardinality(A) \in Nat /\ Cardinality(B) \in Nat
      /\ (w \in A <=> w \in B) => Cardinality(A) = Cardinality(B)
      /\ w \in A /\ w \notin B => Cardinality(A) = Cardinality(B) + 1
      /\ w \notin A /\ w \in B => Cardinality(B) = Cardinality(A) + 1
    BY <1>2, <1>5, CountOne
<1>7. /\ Cardinality(A) \in Nat /\ Cardinality(B) \in Nat
      /\ (Towards(w, n) <=> Towards(w, n)') => Cardinality(B) = Cardinality(A)
      /\ Towards(w, n) /\ ~Towards(w, n)' => Cardinality(A) = Cardinality(B) + 1
      /\ ~Towards(w, n) /\ Towards(w, n)' => Cardinality(B) = Cardinality(A) + 1
    BY <1>3, <1>6
<1>8. QED BY <1>1, <1>7 DEF A

\* A request begins with the hour, if the hour is on.
LEMMA QuietTowards ==
    ASSUME Typed, HourCap > 0, NEW w \in Workers, Quiet(w), NEW n \in Days
    PROVE  ~Towards(w, n)'
<1>1. DayKey(n)[1] = "day"
    BY DayKeyIs
<1>2. CASE Consume(w)
  <2>1. PICK tier \in Callers : Begin(w, "quota", QuotaWindow(now, Cap[tier]))
        BY <1>2 DEF Consume
  <2> DEFINE ws == QuotaWindow(now, Cap[tier])
  <2>2. ws[1].key[1] = "quota"
        BY QuotaWindowIs DEF Typed
  <2>3. Go(w, "incr") /\ req' = [req EXCEPT ![w] = [kind |-> "quota", windows |-> ws,
                                                    used |-> 0, late |-> FALSE]]
        BY <1>2, <2>1 DEF Consume, Begin
  <2> HIDE DEF ws
  <2>4. req'[w].windows = ws
        BY <2>3 DEF Typed, TypeOK
  <2>5. QED BY <1>1, <2>2, <2>4 DEF Towards
<1>3. CASE ContactSales(w)
  <2> DEFINE ws == ContactSalesWindows(now)
  <2>1. ws[1].key[1] = "hour"
        BY ContactSalesIs DEF Typed
  <2>2. Go(w, "incr") /\ req' = [req EXCEPT ![w] = [kind |-> "inquiry", windows |-> ws,
                                                    used |-> 0, late |-> FALSE]]
        BY <1>3 DEF ContactSales, Begin
  <2> HIDE DEF ws
  <2>3. req'[w].windows = ws
        BY <2>2 DEF Typed, TypeOK
  <2>4. QED BY <1>1, <2>1, <2>3 DEF Towards
<1>4. CASE FailOpen(w)
  <2>1. Go(w, "update") \/ Go(w, "store")
        BY <1>4, AdmitIs DEF FailOpen, Busy
  <2>2. QED BY <2>1 DEF Go, Towards, Typed, TypeOK
<1>5. CASE Update(w) \/ Insert(w) \/ StoreInquiry(w) \/ MirrorFails(w) \/ Die(w)
  <2>1. Go(w, "idle") \/ Go(w, "insert") \/ Go(w, "update")
        BY <1>5 DEF Update, Insert, StoreInquiry, MirrorFails, Die, End
  <2>2. QED BY <2>1 DEF Go, Towards, Typed, TypeOK
<1>6. QED BY <1>2, <1>3, <1>4, <1>5 DEF Quiet

\* Whoever goes on to the day's window is counted as let through by an hour of
\* that day.
LEMMA DecideTowards ==
    ASSUME Typed, NEW w \in Workers, Busy(w), Decide(w), NEW n \in Days
    PROVE  /\ passed'[n] \in Nat /\ passed'[n] >= passed[n]
           /\ Towards(w, n)' => passed'[n] = passed[n] + 1
<1> DEFINE window == req[w].windows[1]
           m == (window.key[2] * Hour) \div Day
<1>1. passed \in [Days -> Nat] /\ window.key \in Keys
    BY FirstIs DEF Typed, TypeOK
<1>2. CASE End(w) /\ UNCHANGED tally
  <2>1. pc'[w] = "idle"
        BY <1>2 DEF End, Go, Typed, TypeOK
  <2>2. passed' = passed
        BY <1>2 DEF tally
  <2>3. QED BY <1>1, <2>1, <2>2 DEF Towards
<1>3. CASE Pass(w)
  <2>1. passed' = IF window.key[1] # "hour" THEN passed
                  ELSE [passed EXCEPT ![m] = @ + 1]
        BY <1>3 DEF Pass, Plus1
  <2>2. window.key[1] = "hour" => m \in Days
        BY <1>1, HourIs
  <2>3. passed'[n] = IF window.key[1] = "hour" /\ n = m THEN passed[n] + 1
                     ELSE passed[n]
    <3> HIDE DEF m, window
    <3>1. QED BY <1>1, <2>1, <2>2
  <2>4. CASE Admit(w)
    <3>1. Go(w, "update") \/ Go(w, "store")
          BY <2>4, AdmitIs
    <3>2. ~Towards(w, n)'
          BY <3>1 DEF Go, Towards, Typed, TypeOK
    <3>3. QED BY <1>1, <2>3, <3>2
  <2>5. CASE /\ Len(req[w].windows) # 1
             /\ req' = [req EXCEPT ![w].windows = Tail(@)]
    <3>1. /\ req[w].windows[1].key[1] = "hour"
          /\ req[w].windows[2].key[2] = (req[w].windows[1].key[2] * Hour) \div Day
      <4>1. Queue(req[w].kind, req[w].windows)
            BY DEF Typed, Under
      <4>2. QED BY <2>5, <4>1 DEF Queue
    <3>2. req'[w].windows[1] = req[w].windows[2]
      <4>1. Tail(req[w].windows)[1] = req[w].windows[2]
            BY <2>5, NextIs
      <4>2. req'[w].windows = Tail(req[w].windows)
            BY <2>5, FirstIs DEF ReqSet, Typed, TypeOK
      <4>3. QED BY <4>1, <4>2
    <3>3. Towards(w, n)' => n = m
          BY <3>1, <3>2, DayKeyIs DEF Towards
    <3>4. QED BY <1>1, <2>3, <3>1, <3>3
  <2>6. QED BY <1>3, <2>4, <2>5 DEF Pass
<1>4. QED BY <1>2, <1>3 DEF Decide

LEMMA StepSpared == Typed /\ Spared /\ [Next]_vars => Spared'
<1> SUFFICES ASSUME Typed, Spared, [Next]_vars, HourCap > 0, NEW n \in Days
             PROVE  counter'[DayKey(n)].count + Cardinality(TowardsDay(n)')
                       <= passed'[n]
    BY DEF Spared, DayKey
<1> DEFINE count == counter[DayKey(n)].count
           count2 == counter'[DayKey(n)].count
           out == Cardinality(TowardsDay(n))
           out2 == Cardinality(TowardsDay(n)')
<1>1. /\ count + out <= passed[n] /\ count \in Nat /\ passed[n] \in Nat
      /\ out \in Nat
  <2>1. TowardsDay(n) \in SUBSET Workers
        BY DEF TowardsDay
  <2>2. out \in Nat
        BY <2>1, FS_Subset, FS_CardinalityType
  <2>3. QED BY <2>2, DayKeyIs DEF Spared, Typed, TypeOK
<1> DEFINE Goal == count2 + out2 <= passed'[n]
<1>2. CASE Tick \/ UNCHANGED vars
  <2>1. UNCHANGED <<counter, passed, pc, req>>
        BY <1>2, TickIs
  <2>2. TowardsDay(n)' = TowardsDay(n)
        BY <2>1 DEF TowardsDay, Towards
  <2>3. QED BY <1>1, <2>1, <2>2
<1>3. ASSUME NEW w \in Workers, Quiet(w) PROVE Goal
  <2>1. Others(w) /\ UNCHANGED <<counter, passed>>
        BY <1>3, QuietIs
  <2>2. ~Towards(w, n)'
        BY <1>3, QuietTowards
  <2>3. out2 \in Nat /\ (out2 = out \/ out = out2 + 1)
        BY <2>1, <2>2, TowardsIs
  <2>4. count2 = count /\ passed'[n] = passed[n]
        BY <2>1
  <2> HIDE DEF count, out, count2, out2
  <2>5. QED BY <1>1, <2>3, <2>4
<1>4. ASSUME NEW w \in Workers, Incr(w) PROVE Goal
  <2> DEFINE at == req[w].windows[1].key
             made == IF Present(at) THEN counter[at].count + 1 ELSE 1
             step == IF made = 1 THEN "expire" ELSE "check_ttl"
  <2>1. /\ Busy(w) /\ at \in Keys /\ counter'[at].count = made
        /\ \A k \in Keys \ {at} : counter'[k] = counter[k]
        /\ Go(w, step) /\ req' = [req EXCEPT ![w] = req'[w]]
        BY <1>4, IncrIs
  <2>2. Others(w) /\ pc'[w] # "incr"
    <3>1. step # "incr"
          OBVIOUS
    <3> HIDE DEF step, made, at
    <3>2. QED BY <2>1, <3>1, GoIs
  <2>3. ~Towards(w, n)'
        BY <2>2 DEF Towards
  <2>4. pc[w] = "incr" /\ passed' = passed
        BY <1>4 DEF Incr, tally
  <2>5. Towards(w, n) <=> at = DayKey(n)
        BY <2>4 DEF Towards
  <2>6. out2 \in Nat /\ (IF at = DayKey(n) THEN out = out2 + 1 ELSE out2 = out)
        BY <2>2, <2>3, <2>5, TowardsIs
  <2>7. count2 <= IF at = DayKey(n) THEN count + 1 ELSE count
    <3>1. CASE at = DayKey(n)
      <4>1. made <= counter[at].count + 1
            BY <1>1, <3>1
      <4> HIDE DEF made, at
      <4>2. QED BY <2>1, <3>1, <4>1
    <3>2. CASE at # DayKey(n)
      <4>1. DayKey(n) \in Keys \ {at}
            BY <3>2, DayKeyIs
      <4> HIDE DEF made, at
      <4>2. QED BY <1>1, <2>1, <3>2, <4>1
    <3>3. QED BY <3>1, <3>2
  <2>8. count2 \in Nat
    <3>1. Typed'
          BY StepTyped
    <3>2. QED BY <3>1, DayKeyIs DEF Typed, TypeOK
  <2> HIDE DEF count, out, count2, out2, at
  <2>9. QED BY <1>1, <2>4, <2>6, <2>7, <2>8
<1>5. ASSUME NEW w \in Workers, Busy(w), pc[w] \in Counting, Decide(w),
             count2 = count
      PROVE  Goal
  <2>1. Others(w) /\ ~Towards(w, n)
        BY <1>5, DecideIs DEF Towards, Counting
  <2>2. /\ passed'[n] \in Nat /\ passed'[n] >= passed[n]
        /\ Towards(w, n)' => passed'[n] = passed[n] + 1
        BY <1>5, DecideTowards
  <2>3. out2 \in Nat /\ (Towards(w, n)' => out2 = out + 1)
        /\ (~Towards(w, n)' => out2 = out)
        BY <2>1, TowardsIs
  <2> HIDE DEF count, out, count2, out2
  <2>4. QED BY <1>1, <1>5, <2>2, <2>3
<1>6. ASSUME NEW w \in Workers, CheckTTL(w) PROVE Goal
  <2>1. Busy(w) /\ pc[w] \in Counting /\ counter' = counter
        BY <1>6, CheckTTLIs
  <2>2. CASE Decide(w)
        BY <1>5, <2>1, <2>2
  <2>3. CASE Go(w, "expire") /\ UNCHANGED <<tally, req>>
    <3>1. req' = [req EXCEPT ![w] = req[w]] /\ passed' = passed
          BY <2>3 DEF tally, Typed, TypeOK
    <3>2. Others(w) /\ pc'[w] = "expire"
          BY <2>3, <3>1, GoIs
    <3>3. ~Towards(w, n)' /\ ~Towards(w, n)
          BY <2>1, <3>2 DEF Towards, Counting
    <3>4. out2 = out
          BY <3>2, <3>3, TowardsIs
    <3>5. QED BY <1>1, <2>1, <3>1, <3>4
  <2>4. QED BY <1>6, <2>2, <2>3, CheckTTLIs
<1>7. ASSUME NEW w \in Workers, Expire(w) PROVE Goal
  <2>1. Busy(w) /\ count2 = count
        BY <1>7, ExpireIs, DayKeyIs
  <2>2. pc[w] \in Counting /\ Decide(w)
        BY <1>7 DEF Expire, Counting
  <2>3. QED BY <1>5, <2>1, <2>2
<1>8. QED BY <1>2, <1>3, <1>4, <1>6, <1>7, NextIsOneOf

\* A caller whom the hour refuses does not use up his day: enforce counts the
\* hour first and stops at a refusal (ratelimit.py:74-94).
THEOREM RefusedHoursAreFree == Spec => []DaySpared
<1>1. Init => Spared
  <2> SUFFICES ASSUME Init, NEW n \in Days
               PROVE  counter[DayKey(n)].count + Cardinality(TowardsDay(n)) <= passed[n]
      BY DEF Spared
  <2>1. counter[DayKey(n)].count = 0 /\ passed[n] = 0
        BY DayKeyIs DEF Init, Gone
  <2>2. TowardsDay(n) = {}
        BY DEF Init, TowardsDay, Towards
  <2>3. QED BY <2>1, <2>2, FS_EmptySet
<1>2. Typed /\ Spared => DaySpared
  <2> SUFFICES ASSUME Typed, Spared, HourCap > 0, NEW n \in Days
               PROVE  counter[DayKey(n)].count <= passed[n]
      BY DEF DaySpared, DayKey
  <2>1. TowardsDay(n) \in SUBSET Workers
        BY DEF TowardsDay
  <2>2. Cardinality(TowardsDay(n)) \in Nat
        BY <2>1, FS_Subset, FS_CardinalityType
  <2>3. counter[DayKey(n)].count \in Nat /\ passed[n] \in Nat
        BY DayKeyIs DEF Typed, TypeOK
  <2>4. QED BY <2>2, <2>3 DEF Spared
<1>3. QED BY <1>1, <1>2, InitTyped, StepTyped, StepSpared, PTL DEF Spec

---------------------------------------------------------------------------
(* The mirror *)

\* An admitted request on its way to the durable copy.
Writing(w, n) == pc[w] \in {"update", "insert"} /\ DayOf(w) = n

Writers(n) == { w \in Workers : Writing(w, n) }

Owed(n) == usage[n] + Cardinality(Writers(n))

\* What the copy will be short of for good.
Short(n) == admitted[n] - Owed(n)

\* The copy is never ahead, and it is behind for good only if a mirror failed
\* or a process died.
CopyInv ==
    \A n \in Days : /\ Short(n) \in Nat
                    /\ ~databaseDown /\ ~died => Short(n) = 0

LEMMA WritersIs ==
    ASSUME Typed, NEW w \in Workers, Others(w), NEW n
    PROVE  /\ Cardinality(Writers(n)) \in Nat /\ Cardinality(Writers(n)') \in Nat
           /\ (Writing(w, n) <=> Writing(w, n)')
                 => Cardinality(Writers(n)') = Cardinality(Writers(n))
           /\ Writing(w, n) /\ ~Writing(w, n)'
                 => Cardinality(Writers(n)) = Cardinality(Writers(n)') + 1
           /\ ~Writing(w, n) /\ Writing(w, n)'
                 => Cardinality(Writers(n)') = Cardinality(Writers(n)) + 1
<1> DEFINE A == Writers(n)
           B == { v \in Workers : Writing(v, n)' }
<1>1. Writers(n)' = B
    BY DEF Writers
<1>2. A \in SUBSET Workers /\ B \in SUBSET Workers
    BY DEF Writers
<1>3. \A v \in Workers : (v \in A <=> Writing(v, n)) /\ (v \in B <=> Writing(v, n)')
    BY DEF Writers
<1>4. \A v \in Workers \ {w} : Writing(v, n) <=> Writing(v, n)'
    BY DEF Others, Writing, DayOf
<1> HIDE DEF A, B
<1>5. \A v \in Workers \ {w} : v \in A <=> v \in B
    BY <1>3, <1>4
<1>6. /\ Cardinality(A) \in Nat /\ Cardinality(B) \in Nat
      /\ (w \in A <=> w \in B) => Cardinality(A) = Cardinality(B)
      /\ w \in A /\ w \notin B => Cardinality(A) = Cardinality(B) + 1
      /\ w \notin A /\ w \in B => Cardinality(B) = Cardinality(A) + 1
    BY <1>2, <1>5, CountOne
<1>7. /\ Cardinality(A) \in Nat /\ Cardinality(B) \in Nat
      /\ (Writing(w, n) <=> Writing(w, n)') => Cardinality(B) = Cardinality(A)
      /\ Writing(w, n) /\ ~Writing(w, n)' => Cardinality(A) = Cardinality(B) + 1
      /\ ~Writing(w, n) /\ Writing(w, n)' => Cardinality(B) = Cardinality(A) + 1
    BY <1>3, <1>6
<1>8. QED BY <1>1, <1>7 DEF A

\* Nothing is lost by a step of a worker that is at the mirror before and after
\* it, or neither.
LEMMA ShortSame ==
    ASSUME Typed, NEW w \in Workers, Others(w), NEW n, usage' = usage,
           admitted' = admitted, Writing(w, n) <=> Writing(w, n)'
    PROVE  Short(n)' = Short(n)
BY WritersIs DEF Owed, Short

\* Whoever is admitted owes the mirror one.
LEMMA AdmitOwes ==
    ASSUME Typed, NEW w \in Workers, Busy(w), Admit(w),
           pc[w] \notin {"update", "insert"}, usage' = usage, NEW n \in Days
    PROVE  Short(n)' = Short(n)
<1>1. req' = [req EXCEPT ![w] = req[w]] /\ req' = req
    BY AdmitIs DEF Typed, TypeOK
<1>2. /\ usage \in [Days -> Nat] /\ admitted \in [Days -> Nat]
    BY DEF Typed, TypeOK
<1>3. ~Writing(w, n)
    BY DEF Writing
<1>4. CASE req[w].kind = "quota"
  <2>1. Go(w, "update") /\ admitted' = Plus1(admitted, DayOf(w))
        BY <1>4 DEF Admit
  <2>2. Others(w) /\ pc'[w] = "update"
        BY <1>1, <2>1, GoIs
  <2>3. Writing(w, n)' <=> n = DayOf(w)
        BY <1>1, <2>2 DEF Writing, DayOf
  <2>4. /\ Cardinality(Writers(n)) \in Nat /\ Cardinality(Writers(n)') \in Nat
        /\ Cardinality(Writers(n)')
              = IF n = DayOf(w) THEN Cardinality(Writers(n)) + 1
                ELSE Cardinality(Writers(n))
        BY <1>3, <2>2, <2>3, WritersIs
  <2>5. admitted'[n] = IF n = DayOf(w) THEN admitted[n] + 1 ELSE admitted[n]
        BY <1>2, <2>1 DEF Plus1
  <2>6. Short(n)' = admitted'[n] - (usage[n] + Cardinality(Writers(n)'))
        BY DEF Short, Owed
  <2>7. QED BY <1>2, <2>4, <2>5, <2>6 DEF Short, Owed
<1>5. CASE req[w].kind # "quota"
  <2>1. Go(w, "store") /\ admitted' = admitted
        BY <1>5 DEF Admit
  <2>2. Others(w) /\ pc'[w] = "store"
        BY <1>1, <2>1, GoIs
  <2>3. ~Writing(w, n)'
        BY <2>2 DEF Writing
  <2>4. QED BY <1>3, <2>1, <2>2, <2>3, ShortSame
<1>6. QED BY <1>4, <1>5

\* Only those two steps are failures of theirs.
LEMMA UpIsUp ==
    ASSUME Typed, [Next]_vars, ~ \E w \in Workers : MirrorFails(w) \/ Die(w)
    PROVE  UNCHANGED <<databaseDown, died>>
<1>1. CASE Tick \/ UNCHANGED vars
    BY <1>1, TickIs
<1>2. ASSUME NEW w \in Workers, Consume(w) \/ ContactSales(w)
      PROVE  UNCHANGED <<databaseDown, died>>
  <2>1. PICK kind, ws : Begin(w, kind, ws)
        BY <1>2 DEF Consume, ContactSales
  <2>2. QED BY <2>1 DEF Begin
<1>3. ASSUME NEW w \in Workers,
             Incr(w) \/ CheckTTL(w) \/ Expire(w) \/ Update(w) \/ Insert(w)
                \/ StoreInquiry(w)
      PROVE  UNCHANGED <<databaseDown, died>>
  <2>1. UNCHANGED world
        BY <1>3 DEF Incr, CheckTTL, Expire, Update, Insert, StoreInquiry
  <2>2. QED BY <2>1 DEF world
<1>4. ASSUME NEW w \in Workers, FailOpen(w)
      PROVE  UNCHANGED <<databaseDown, died>>
    BY <1>4 DEF FailOpen
<1>5. QED BY <1>1, <1>2, <1>3, <1>4, NextIsOneOf DEF Quiet

\* A request is lost to the copy only by a mirror that fails or a process that
\* dies, and none is counted twice.
LEMMA ShortStep ==
    ASSUME Typed, [Next]_vars, NEW n \in Days
    PROVE  \/ Short(n)' = Short(n) /\ UNCHANGED <<databaseDown, died>>
           \/ Short(n)' \in {Short(n), Short(n) + 1} /\ (databaseDown' \/ died')
<1>1. /\ usage \in [Days -> Nat] /\ admitted \in [Days -> Nat]
    BY DEF Typed, TypeOK
<1>3. ASSUME Tick \/ UNCHANGED vars PROVE Short(n)' = Short(n)
  <2>1. UNCHANGED <<usage, admitted, pc, req>>
        BY <1>3, TickIs
  <2>2. QED BY <2>1 DEF Short, Owed, Writers, Writing, DayOf
<1>4. ASSUME NEW w \in Workers, Consume(w) \/ ContactSales(w)
      PROVE  Short(n)' = Short(n)
  <2>1. PICK kind, ws : Begin(w, kind, ws) /\ Go(w, "incr")
        BY <1>4 DEF Consume, ContactSales
  <2>2. /\ pc[w] = "idle" /\ UNCHANGED <<usage, admitted>>
        /\ req' = [req EXCEPT ![w] = [kind |-> kind, windows |-> ws,
                                      used |-> 0, late |-> FALSE]]
        BY <2>1 DEF Begin, tally
  <2>3. Others(w) /\ pc'[w] = "incr"
        BY <2>1, <2>2, GoIs
  <2>4. ~Writing(w, n) /\ ~Writing(w, n)'
        BY <2>2, <2>3 DEF Writing
  <2>5. QED BY <2>2, <2>3, <2>4, ShortSame
<1>5. ASSUME NEW w \in Workers, Incr(w) PROVE Short(n)' = Short(n)
  <2> DEFINE at == req[w].windows[1].key
             made == IF Present(at) THEN counter[at].count + 1 ELSE 1
             step == IF made = 1 THEN "expire" ELSE "check_ttl"
  <2>1. Go(w, step) /\ req' = [req EXCEPT ![w] = req'[w]]
        BY <1>5, IncrIs
  <2>2. /\ pc[w] = "incr" /\ UNCHANGED <<usage, admitted>>
        BY <1>5 DEF Incr, world, tally
  <2>3. Others(w) /\ pc'[w] = step
        BY <2>1, GoIs
  <2>4. ~Writing(w, n) /\ ~Writing(w, n)'
        BY <2>2, <2>3 DEF Writing
  <2>5. QED BY <2>2, <2>3, <2>4, ShortSame
<1>6. ASSUME NEW w \in Workers, pc[w] \in Counting, Decide(w),
             usage' = usage
      PROVE  Short(n)' = Short(n)
  <2>1. Busy(w) /\ Others(w)
    <3>1. Busy(w)
          BY <1>6 DEF Busy, Counting
    <3>2. QED BY <1>6, <3>1, DecideIs
  <2>2. ~Writing(w, n)
        BY <1>6 DEF Writing, Counting
  <2>3. CASE Admit(w)
        BY <1>6, <2>1, <2>3, AdmitOwes DEF Counting
  <2>4. CASE (Go(w, "idle") \/ Go(w, "incr")) /\ admitted' = admitted
    <3>1. pc'[w] \in {"idle", "incr"}
          BY <2>4 DEF Go, Typed, TypeOK
    <3>2. ~Writing(w, n)'
          BY <3>1 DEF Writing
    <3>3. QED BY <1>6, <2>1, <2>2, <2>4, <3>2, ShortSame
  <2>5. QED BY <1>6, <2>3, <2>4 DEF Decide, Pass, End, tally
<1>7. ASSUME NEW w \in Workers, CheckTTL(w) PROVE Short(n)' = Short(n)
  <2>1. pc[w] \in Counting /\ usage' = usage
        BY <1>7 DEF CheckTTL, Counting, world
  <2>2. CASE Decide(w)
        BY <1>6, <2>1, <2>2
  <2>3. CASE Go(w, "expire") /\ UNCHANGED <<tally, req>>
    <3>1. req' = [req EXCEPT ![w] = req[w]] /\ admitted' = admitted
          BY <2>3 DEF tally, Typed, TypeOK
    <3>2. Others(w) /\ pc'[w] = "expire"
          BY <2>3, <3>1, GoIs
    <3>3. ~Writing(w, n)' /\ ~Writing(w, n)
          BY <2>1, <3>2 DEF Writing, Counting
    <3>4. QED BY <2>1, <3>1, <3>2, <3>3, ShortSame
  <2>4. QED BY <1>7, <2>2, <2>3, CheckTTLIs
<1>8. ASSUME NEW w \in Workers, Expire(w) PROVE Short(n)' = Short(n)
    BY <1>6, <1>8 DEF Expire, Counting, world
<1>9. ASSUME NEW w \in Workers, FailOpen(w) PROVE Short(n)' = Short(n)
    BY <1>9, AdmitOwes DEF FailOpen, Busy
<1>10. ASSUME NEW w \in Workers, Update(w) \/ Insert(w)
       PROVE  Short(n)' = Short(n)
  <2>1. /\ admitted' = admitted
        /\ pc[w] \in {"update", "insert"} /\ Busy(w)
        BY <1>10 DEF Update, Insert, world, tally, Busy
  <2>2. DayOf(w) \in Days
    <3>1. req[w].kind = "quota"
          BY <2>1 DEF Typed, Under
    <3>2. QED BY <2>1, <3>1, FirstIs
  <2>3. Writing(w, n) <=> n = DayOf(w)
        BY <2>1 DEF Writing
  <2>4. CASE usage' = Plus1(usage, DayOf(w)) /\ End(w)
    <3>1. Go(w, "idle") /\ req' = [req EXCEPT ![w] = NoRequest]
          BY <2>4 DEF End
    <3>2. Others(w) /\ pc'[w] = "idle"
          BY <3>1, GoIs
    <3>3. ~Writing(w, n)'
          BY <3>2 DEF Writing
    <3>4. /\ Cardinality(Writers(n)) \in Nat /\ Cardinality(Writers(n)') \in Nat
          /\ Cardinality(Writers(n))
                = IF n = DayOf(w) THEN Cardinality(Writers(n)') + 1
                  ELSE Cardinality(Writers(n)')
          BY <2>3, <3>2, <3>3, WritersIs
    <3>5. usage'[n] = IF n = DayOf(w) THEN usage[n] + 1 ELSE usage[n]
          BY <1>1, <2>2, <2>4 DEF Plus1
    <3>6. Short(n)' = admitted'[n] - (usage'[n] + Cardinality(Writers(n)'))
          BY DEF Short, Owed
    <3>7. QED BY <1>1, <2>1, <3>4, <3>5, <3>6 DEF Short, Owed
  <2>5. CASE UNCHANGED <<usage, req>> /\ (Go(w, "insert") \/ Go(w, "update"))
    <3>1. req' = [req EXCEPT ![w] = req[w]]
          BY <2>5 DEF Typed, TypeOK
    <3>2. Others(w) /\ pc'[w] \in {"insert", "update"}
          BY <2>5, <3>1, GoIs
    <3>3. Writing(w, n)' <=> Writing(w, n)
          BY <2>1, <2>5, <3>2 DEF Writing, DayOf
    <3>4. QED BY <2>1, <2>5, <3>2, <3>3, ShortSame
  <2>6. QED BY <1>10, <2>4, <2>5 DEF Update, Insert
<1>11. ASSUME NEW w \in Workers, StoreInquiry(w) PROVE Short(n)' = Short(n)
  <2>1. /\ pc[w] = "store" /\ UNCHANGED <<usage, admitted>>
        /\ Go(w, "idle") /\ req' = [req EXCEPT ![w] = NoRequest]
        BY <1>11 DEF StoreInquiry, End, world, tally
  <2>2. Others(w) /\ pc'[w] = "idle"
        BY <2>1, GoIs
  <2>3. ~Writing(w, n) /\ ~Writing(w, n)'
        BY <2>1, <2>2 DEF Writing
  <2>4. QED BY <2>1, <2>2, <2>3, ShortSame
<1>12. ASSUME NEW w \in Workers, MirrorFails(w) \/ Die(w)
       PROVE  Short(n)' \in {Short(n), Short(n) + 1} /\ (databaseDown' \/ died')
  <2>1. databaseDown' \/ died'
        BY <1>12 DEF MirrorFails, Die
  <2>2. /\ UNCHANGED <<usage, admitted>> /\ pc[w] # "idle"
        /\ Go(w, "idle") /\ req' = [req EXCEPT ![w] = NoRequest]
        BY <1>12 DEF MirrorFails, Die, End, tally
  <2>3. Others(w) /\ pc'[w] = "idle"
        BY <2>2, GoIs
  <2>4. ~Writing(w, n)'
        BY <2>3 DEF Writing
  <2>5. CASE ~Writing(w, n)
        BY <2>1, <2>2, <2>3, <2>4, <2>5, ShortSame
  <2>6. CASE Writing(w, n)
    <3>1. /\ Cardinality(Writers(n)) \in Nat /\ Cardinality(Writers(n)') \in Nat
          /\ Cardinality(Writers(n)) = Cardinality(Writers(n)') + 1
          BY <2>3, <2>4, <2>6, WritersIs
    <3>2. Short(n)' = admitted[n] - (usage[n] + Cardinality(Writers(n)'))
          BY <2>2 DEF Short, Owed
    <3>3. Short(n)' = Short(n) + 1
          BY <1>1, <3>1, <3>2 DEF Short, Owed
    <3>4. QED BY <2>1, <3>3
  <2>7. QED BY <2>5, <2>6
<1>13. ASSUME ~ \E w \in Workers : MirrorFails(w) \/ Die(w)
       PROVE  Short(n)' = Short(n)
    BY <1>3, <1>4, <1>5, <1>7, <1>8, <1>9, <1>10, <1>11, <1>13, NextIsOneOf DEF Quiet
<1>14. ASSUME ~ \E w \in Workers : MirrorFails(w) \/ Die(w)
       PROVE  UNCHANGED <<databaseDown, died>>
    BY <1>14, UpIsUp
<1>15. QED BY <1>12, <1>13, <1>14

LEMMA WritersCount ==
    ASSUME NEW n
    PROVE  Cardinality(Writers(n)) \in Nat
<1>1. Writers(n) \in SUBSET Workers
    BY DEF Writers
<1>2. QED BY <1>1, FS_Subset, FS_CardinalityType, WorkersAssumption

LEMMA InitCopyInv == Init => CopyInv
<1> SUFFICES ASSUME Init, NEW n \in Days PROVE Short(n) = 0
    BY DEF CopyInv
<1>1. Writers(n) = {} /\ usage[n] = 0 /\ admitted[n] = 0
    BY DEF Init, Writers, Writing
<1>2. QED BY <1>1, FS_EmptySet DEF Short, Owed

LEMMA StepCopyInv == Typed /\ CopyInv /\ [Next]_vars => CopyInv'
<1> SUFFICES ASSUME Typed, CopyInv, [Next]_vars, NEW n \in Days
             PROVE  Short(n)' \in Nat /\ (~databaseDown' /\ ~died' => Short(n)' = 0)
    BY DEF CopyInv
<1>1. Short(n) \in Nat
    BY DEF CopyInv
<1>2. Short(n)' \in {Short(n), Short(n) + 1}
    BY ShortStep
<1>3. Short(n)' \in Nat
    BY <1>1, <1>2
<1>4. ASSUME ~databaseDown', ~died' PROVE Short(n)' = 0
  <2>1. Short(n)' = Short(n) /\ UNCHANGED <<databaseDown, died>>
        BY <1>4, ShortStep
  <2>2. QED BY <1>4, <2>1 DEF CopyInv
<1>5. QED BY <1>3, <1>4

\* The durable copy counts exactly the admitted requests (quota.py:177-224),
\* those admitted because Redis was down included.
THEOREM MirrorIsExact == Spec => []MirrorCounts
<1>1. Typed /\ CopyInv => MirrorCounts
  <2> SUFFICES ASSUME Typed, CopyInv, ~databaseDown, ~died,
                      \A w \in Workers : pc[w] = "idle"
               PROVE  usage = admitted
      BY DEF MirrorCounts
  <2>1. usage \in [Days -> Nat] /\ admitted \in [Days -> Nat]
        BY DEF Typed, TypeOK
  <2>2. ASSUME NEW n \in Days PROVE usage[n] = admitted[n]
    <3>1. Writers(n) = {}
          BY DEF Writers, Writing
    <3>2. Short(n) = 0 /\ Short(n) = admitted[n] - (usage[n] + 0)
          BY <3>1, FS_EmptySet DEF CopyInv, Short, Owed
    <3>3. QED BY <2>1, <3>2
  <2>3. QED BY <2>1, <2>2
<1>2. QED BY <1>1, InitTyped, StepTyped, InitCopyInv, StepCopyInv, PTL DEF Spec

\* What an operator reads of somebody's use (counter_rows) is never above what
\* was let through: no day counts a refused request, or one twice, whichever
\* mirrors fail, whoever dies and however inserts of a day's first row collide.
NeverOvercounted == \A n \in Days : usage[n] <= admitted[n]

\* The copy is never ahead of the decisions it is a copy of (_mirror).
THEOREM MirrorNeverAhead == Spec => []NeverOvercounted
<1>1. Typed /\ CopyInv => NeverOvercounted
  <2> SUFFICES ASSUME Typed, CopyInv, NEW n \in Days
               PROVE  usage[n] <= admitted[n]
      BY DEF NeverOvercounted
  <2>1. usage[n] \in Nat /\ admitted[n] \in Nat
        BY DEF Typed, TypeOK
  <2>2. admitted[n] - (usage[n] + Cardinality(Writers(n))) \in Nat
        BY DEF CopyInv, Short, Owed
  <2>3. Cardinality(Writers(n)) \in Nat
        BY WritersCount
  <2>4. QED BY <2>1, <2>2, <2>3
<1>2. QED BY <1>1, InitTyped, StepTyped, InitCopyInv, StepCopyInv, PTL DEF Spec
=============================================================================
