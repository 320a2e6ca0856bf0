--------------------------- MODULE ReconcileProofs ---------------------------
(***************************************************************************)
(* Theorems about the nightly reconcile, for any subscriptions, customers, *)
(* page size and bounds.                                                   *)
(***************************************************************************)
EXTENDS Reconcile, TLAPS

USE OwnerAssumption, ForeignAssumption, PageAssumption, BoundsAssumption

RunSet ==
    [pc : {"over", "next", "account", "mark", "clear", "sync", "write", "send",
           "notified"},
     complete : BOOLEAN, dry : BOOLEAN, notifier : BOOLEAN,
     unlisted : SUBSET Subs, page : SUBSET Item, item : Item \cup {NoItem},
     local : {"absent", "free", "paid"}, orphans : SUBSET Item,
     tell : SUBSET Subs, failed : SUBSET Customers, unnotified : SUBSET Subs]

\* A run at an item has taken one from a page.
ItemInv == AtAnItem => run.item \in Item

Typed == TypeOK /\ ItemInv

LEMMA RunType == TypeOK => run \in RunSet
BY DEF TypeOK, RunSet

LEMMA NoRunType == NoRun \in RunSet
BY DEF NoRun, RunSet

LEMMA ListedType == ASSUME NEW s \in Subs PROVE Listed(s) \in Item
BY DEF Listed, Item

LEMMA ListedFields ==
    ASSUME NEW s
    PROVE  /\ Listed(s).sub = s
           /\ Listed(s).running <=> s \in running
           /\ Listed(s).orphaned <=> s \in orphaned
           /\ Listed(s).notified <=> s \in notified
BY DEF Listed

LEMMA UntoldType == TypeOK => Untold \subseteq Subs
BY DEF TypeOK, Untold, Item

\* What asking the directory and a customer's failure change in the run.
LEMMA AskDirectoryRun ==
    ASSUME run \in RunSet, AskDirectory, run.item \in Item
    PROVE  /\ run' \in RunSet
           /\ run'.pc \in {"next", "mark", "clear", "sync"}
           /\ run'.page = run.page /\ run'.item = run.item
           /\ run'.tell = run.tell /\ run'.failed = run.failed
           /\ run'.unlisted = run.unlisted /\ run'.complete = run.complete
           /\ run'.dry = run.dry /\ run'.local = run.local
           /\ run'.orphans \in {run.orphans, run.orphans \cup {run.item}}
<1>1. PICK p \in {"next", "mark", "clear", "sync"},
           o \in {run.orphans, run.orphans \cup {run.item}} :
          run' = [run EXCEPT !.pc = p, !.orphans = o]
    BY DEF AskDirectory, Compared
<1>2. o \in SUBSET Item
    BY <1>1 DEF RunSet
<1> DEFINE r == [run EXCEPT !.pc = p]
<1>3. /\ r \in RunSet /\ r.pc = p /\ r.page = run.page /\ r.item = run.item
      /\ r.tell = run.tell /\ r.failed = run.failed
      /\ r.unlisted = run.unlisted /\ r.complete = run.complete
      /\ r.dry = run.dry /\ r.local = run.local
    BY <1>1 DEF RunSet
<1>4. run' = [r EXCEPT !.orphans = o]
    BY <1>1
<1> HIDE DEF r
<1>5. QED BY <1>1, <1>2, <1>3, <1>4 DEF RunSet

LEMMA FailOneRun ==
    ASSUME run \in RunSet, FailOne, Owner[run.item.sub] \in Customers
    PROVE  /\ run' \in RunSet /\ run'.pc = "next"
           /\ run'.failed = run.failed \cup {Owner[run.item.sub]}
<1> DEFINE c == Owner[run.item.sub]
           r == [run EXCEPT !.pc = "next"]
<1>1. run' = [r EXCEPT !.failed = @ \cup {c}]
    BY DEF FailOne
<1>2. r \in RunSet /\ r.pc = "next" /\ r.failed = run.failed
    BY DEF RunSet
<1> HIDE DEF c, r
<1>3. run.failed \cup {c} \in SUBSET Customers
    BY DEF RunSet, c
<1>4. run' = [r EXCEPT !.failed = run.failed \cup {c}]
    BY <1>1, <1>2
<1>5. QED BY <1>2, <1>3, <1>4 DEF RunSet, c

LEMMA InitTyped == Init => Typed
<1> SUFFICES ASSUME Init PROVE Typed
    OBVIOUS
<1>1. run \in RunSet /\ ~AtAnItem
    BY NoRunType DEF Init, AtAnItem, NoRun
<1>2. TypeOK
    BY <1>1 DEF Init, TypeOK, RunSet
<1>3. QED BY <1>1, <1>2 DEF Typed, ItemInv

\* The types are kept by the world outside and by each step of a run.
LEMMA StepTyped == Typed /\ [Next]_vars => Typed'
<1> SUFFICES ASSUME Typed, [Next]_vars PROVE Typed'
    OBVIOUS
<1>0. run \in RunSet
    BY RunType DEF Typed
<1> USE DEF Typed
<1>1. ASSUME NEW s \in Subs, Ends(s) PROVE Typed'
    BY <1>1 DEF Ends, Changes, TypeOK, ItemInv, AtAnItem, Item, NoItem, stripe
<1>2. ASSUME NEW c \in Customers, Webhook(c) PROVE Typed'
    BY <1>2 DEF Webhook, Changes, Shows, TypeOK, ItemInv, AtAnItem, Item, NoItem,
                stripe
<1>3. ASSUME NEW c \in Customers, AccountChanges(c) PROVE Typed'
    BY <1>3 DEF AccountChanges, Changes, TypeOK, ItemInv, AtAnItem, Item, NoItem,
                stripe
<1>4. ASSUME NEW dry \in BOOLEAN, NEW notifier \in BOOLEAN, Start(dry, notifier)
      PROVE  Typed'
  <2>1. run' \in RunSet /\ run'.pc = "next"
        BY <1>4, NoRunType DEF Start, RunSet
  <2>2. QED BY <1>4, <2>1 DEF Start, TypeOK, RunSet, ItemInv, AtAnItem, outside,
                              stripe, Item, NoItem
<1>5. CASE ListPage
  <2>1. PICK P \in SUBSET run.unlisted :
            run' = [run EXCEPT !.page = {Listed(s) : s \in P}, !.unlisted = @ \ P]
        BY <1>5 DEF ListPage
  <2>2. {Listed(s) : s \in P} \subseteq Item
        BY <2>1, <1>0, ListedType DEF RunSet
  <2>3. run' \in RunSet /\ run'.pc = "next"
        BY <1>0, <1>5, <2>1, <2>2 DEF RunSet, ListPage
  <2>4. QED BY <1>5, <2>3 DEF ListPage, TypeOK, RunSet, ItemInv, AtAnItem,
                              outside, stripe, Item, NoItem
<1>6. CASE Take
  <2>1. PICK i \in run.page :
            run' = [run EXCEPT !.page = @ \ {i}, !.item = i,
                       !.local = row[Owner[i.sub]],
                       !.pc = IF Owner[i.sub] \in Foreign
                                 /\ row[Owner[i.sub]] = "absent"
                              THEN "next" ELSE "account"]
        BY <1>6 DEF Take
  <2>2. i \in Item /\ row[Owner[i.sub]] \in {"absent", "free", "paid"}
        BY <1>0, <2>1 DEF RunSet, Item, TypeOK
  <2>3. run' \in RunSet /\ run'.item \in Item
        BY <1>0, <2>1, <2>2 DEF RunSet
  <2>4. QED BY <1>6, <2>3 DEF Take, TypeOK, RunSet, ItemInv, outside, stripe,
                              Item, NoItem
<1>7. CASE AskDirectory
  <2>1. run.item \in Item
        BY <1>7 DEF AskDirectory, ItemInv, AtAnItem
  <2>2. run' \in RunSet /\ run'.item = run.item
        BY <1>0, <1>7, <2>1, AskDirectoryRun
  <2>3. QED BY <1>7, <2>1, <2>2 DEF AskDirectory, TypeOK, RunSet, ItemInv,
                              outside, stripe, Item, NoItem
<1>8. CASE MarkOrphan
  <2>1. run.item \in Item
        BY <1>8 DEF MarkOrphan, ItemInv, AtAnItem
  <2>2. run' \in RunSet /\ run'.item = run.item
        BY <1>0, <1>8, <2>1 DEF MarkOrphan, RunSet
  <2>3. QED BY <1>8, <2>1, <2>2 DEF MarkOrphan, TypeOK, RunSet, ItemInv, outside,
                              Item, NoItem
<1>9. CASE ClearMarks
  <2>1. run.item \in Item
        BY <1>9 DEF ClearMarks, ItemInv, AtAnItem
  <2>2. run' \in RunSet /\ run'.item = run.item
        BY <1>0, <1>9 DEF ClearMarks, Compared, RunSet
  <2>3. QED BY <1>9, <2>1, <2>2 DEF ClearMarks, TypeOK, RunSet, ItemInv, outside,
                              Item, NoItem
<1>10. CASE Lock
  <2>1. run.item \in Item
        BY <1>10 DEF Lock, ItemInv, AtAnItem
  <2>2. run' \in RunSet /\ run'.item = run.item
        BY <1>0, <1>10 DEF Lock, RunSet
  <2>3. QED BY <1>10, <2>1, <2>2 DEF Lock, TypeOK, RunSet, ItemInv, outside,
                              stripe, Item, NoItem
<1>11. CASE Write
  <2>1. run.item \in Item
        BY <1>11 DEF Write, ItemInv, AtAnItem
  <2>2. run' \in RunSet /\ run'.item = run.item
        BY <1>0, <1>11 DEF Write, RunSet
  <2>3. row' \in [Customers -> {"absent", "free", "paid"}]
        BY <1>11, <2>1 DEF Write, Shows, TypeOK, Item
  <2>4. QED BY <1>11, <2>1, <2>2, <2>3 DEF Write, TypeOK, RunSet, ItemInv,
                              outside, stripe, Item, NoItem
<1>12. CASE WalkEnds
  <2>1. run' \in RunSet /\ run'.pc \in {"over", "send"}
        BY <1>0, <1>12, UntoldType DEF WalkEnds, RunSet
  <2>2. QED BY <1>12, <2>1 DEF WalkEnds, TypeOK, RunSet, ItemInv, AtAnItem,
                              outside, stripe, Item, NoItem
<1>13. CASE Send
  <2>1. run' \in RunSet /\ run'.pc = "notified"
        BY <1>0, <1>13, UntoldType DEF Send, RunSet
  <2>2. mails' \in [Subs -> Nat]
        BY <1>13 DEF Send, Mailed, TypeOK
  <2>3. QED BY <1>13, <2>1, <2>2 DEF Send, TypeOK, RunSet, ItemInv, AtAnItem,
                              outside, stripe, Item, NoItem
<1>14. CASE MarkNotified
  <2>1. PICK s \in run.tell :
            /\ \/ notified' = notified \cup {s} /\ UNCHANGED failures
               \/ Fails /\ UNCHANGED notified
            /\ run' = [run EXCEPT !.tell = @ \ {s},
                                  !.pc = IF run.tell = {s} THEN "over" ELSE @,
                                  !.complete = (run.tell = {s})]
        BY <1>14 DEF MarkNotified
  <2>2. run' \in RunSet /\ run'.pc \in {"over", "notified"}
        BY <1>0, <1>14, <2>1 DEF RunSet, MarkNotified
  <2>3. notified' \subseteq Subs /\ failures' \in 0..MaxFailures
        BY <1>0, <2>1 DEF RunSet, TypeOK, Fails
  <2>4. QED BY <1>14, <2>2, <2>3 DEF MarkNotified, TypeOK, RunSet, ItemInv,
                              AtAnItem, outside, Item, NoItem
<1>15. CASE FailOne
  <2>1. run.item \in Item
        BY <1>15 DEF FailOne, ItemInv
  <2>2. Owner[run.item.sub] \in Customers
        BY <2>1 DEF Item
  <2>3. run' \in RunSet /\ run'.pc = "next"
        BY <1>0, <1>15, <2>2, FailOneRun
  <2>4. QED BY <1>15, <2>3 DEF FailOne, Fails, TypeOK, RunSet, ItemInv, AtAnItem,
                              outside, stripe, Item, NoItem
<1>16. CASE SendFails
  <2>1. run' \in RunSet /\ run'.pc = "over"
        BY <1>0, <1>16, UntoldType DEF SendFails, RunSet
  <2>2. mails' \in [Subs -> Nat]
        BY <1>16 DEF SendFails, Mailed, TypeOK
  <2>3. QED BY <1>16, <2>1, <2>2 DEF SendFails, Fails, TypeOK, RunSet, ItemInv,
                              AtAnItem, outside, stripe, Item, NoItem
<1>17. CASE Die
  <2>1. run' \in RunSet /\ run'.pc = "over"
        BY <1>17, NoRunType DEF Die, NoRun
  <2>2. QED BY <1>17, <2>1 DEF Die, Fails, TypeOK, RunSet, ItemInv, AtAnItem,
                              outside, stripe, Item, NoItem
<1>18. CASE UNCHANGED vars
  BY <1>18 DEF vars, outside, stripe, TypeOK, ItemInv, AtAnItem, Item, NoItem
<1>19. QED
  BY <1>1, <1>2, <1>3, <1>4, <1>5, <1>6, <1>7, <1>8, <1>9, <1>10, <1>11, <1>12,
     <1>13, <1>14, <1>15, <1>16, <1>17, <1>18 DEF Next, Proceed

\* Every variable keeps its type.
THEOREM TypeCorrect == Spec => []TypeOK
<1>1. Typed => TypeOK
    BY DEF Typed
<1>2. QED BY InitTyped, StepTyped, <1>1, PTL DEF Spec

---------------------------------------------------------------------------
(* The email and the marks *)

\* What a run has read of Stripe and may still act on.
InHand == run.page \cup run.orphans \cup (IF AtAnItem THEN {run.item} ELSE {})

\* Until the marks are set, a run knows of every mark there is on what it has
\* read: only a run marks, and there is one.
MarksKnown ==
    run.pc \notin {"over", "notified"} =>
        \A i \in InHand : i.sub \in notified => i.notified

\* Whoever is marked, or is about to be, has been written about.
MailedFirst ==
    /\ \A s \in notified : mails[s] > 0
    /\ run.pc = "notified" => \A s \in run.tell : mails[s] > 0

\* An email whose mark is neither there nor about to be cost a failure.
MarkOrFailure ==
    \A s \in Subs :
        \/ mails[s] <= failures
        \/ /\ mails[s] <= 1 + failures
           /\ s \in notified \/ (run.pc = "notified" /\ s \in run.tell)

Told == MarksKnown /\ MailedFirst /\ MarkOrFailure

LEMMA InitTold == Init => Told
BY DEF Init, Told, MarksKnown, MailedFirst, MarkOrFailure, NoRun

\* A step that touches neither the emails, the marks, the failures nor the
\* email's part of a run, and that has no more in hand, keeps all three.
LEMMA QuietTold ==
    ASSUME Typed, Typed', Told,
           UNCHANGED <<notified, mails, failures>>,
           run.pc # "notified", run'.pc # "notified",
           run'.pc # "over" => run.pc # "over" /\ InHand' \subseteq InHand
    PROVE  Told'
BY DEF Told, MarksKnown, MailedFirst, MarkOrFailure

LEMMA StepTold == Typed /\ Typed' /\ Told /\ [Next]_vars => Told'
<1> SUFFICES ASSUME Typed, Typed', Told, [Next]_vars PROVE Told'
    OBVIOUS
<1>0. run \in RunSet /\ run' \in RunSet
    BY RunType DEF Typed, TypeOK, RunSet, Item, NoItem
<1>1. ASSUME UNCHANGED <<notified, mails, failures, run>> PROVE Told'
  BY <1>1 DEF Told, MarksKnown, MailedFirst, MarkOrFailure, InHand, AtAnItem
<1>2. ASSUME NEW s \in Subs, Ends(s) PROVE Told'
  BY <1>1, <1>2 DEF Ends, Changes, stripe
<1>3. ASSUME NEW c \in Customers, Webhook(c) PROVE Told'
  BY <1>1, <1>3 DEF Webhook, Changes, stripe
<1>4. ASSUME NEW c \in Customers, AccountChanges(c) PROVE Told'
  BY <1>1, <1>4 DEF AccountChanges, Changes, stripe
<1>5. ASSUME NEW dry \in BOOLEAN, NEW notifier \in BOOLEAN, Start(dry, notifier)
      PROVE  Told'
  <2>1. run.pc = "over" /\ run'.pc = "next" /\ InHand' = {}
        BY <1>5 DEF Start, NoRun, InHand, AtAnItem
  <2>2. QED BY <1>5, <2>1 DEF Start, stripe, Told, MarksKnown, MailedFirst,
                              MarkOrFailure
<1>6. CASE ListPage
  <2>1. PICK P \in SUBSET run.unlisted :
            run' = [run EXCEPT !.page = {Listed(s) : s \in P}, !.unlisted = @ \ P]
        BY <1>6 DEF ListPage
  <2>2. run.pc = "next" /\ run'.pc = "next" /\ run'.orphans = run.orphans
        BY <1>0, <1>6, <2>1 DEF ListPage, RunSet
  <2>3. run'.page = {Listed(s) : s \in P}
        BY <1>0, <2>1 DEF RunSet
  <2>4. \A i \in run'.page : i.sub \in notified => i.notified
        BY <2>3, ListedFields
  <2>5. MarksKnown'
        BY <1>6, <2>2, <2>4 DEF ListPage, stripe, Told, MarksKnown, InHand,
                                AtAnItem
  <2>6. QED BY <1>6, <2>2, <2>5 DEF ListPage, stripe, Told, MailedFirst,
                                    MarkOrFailure
<1>7. CASE Take
  <2>1. PICK i \in run.page :
            run' = [run EXCEPT !.page = @ \ {i}, !.item = i,
                       !.local = row[Owner[i.sub]],
                       !.pc = IF Owner[i.sub] \in Foreign
                                 /\ row[Owner[i.sub]] = "absent"
                              THEN "next" ELSE "account"]
        BY <1>7 DEF Take
  <2>2. /\ run.pc = "next" /\ run'.pc \in {"next", "account"}
        /\ run'.page = run.page \ {i} /\ run'.item = i
        /\ run'.orphans = run.orphans
        BY <1>0, <1>7, <2>1 DEF Take, RunSet
  <2>3. InHand' \subseteq InHand
        BY <2>2 DEF InHand
  <2>4. QED BY <1>7, <2>2, <2>3, QuietTold DEF Take, stripe
<1>8. CASE AskDirectory
  <2>1. /\ run.pc = "account" /\ run'.pc \in {"next", "mark", "clear", "sync"}
        /\ run'.page = run.page /\ run'.item = run.item
        /\ run'.orphans \subseteq run.orphans \cup {run.item}
        BY <1>0, <1>8, AskDirectoryRun DEF AskDirectory, Typed, ItemInv, AtAnItem
  <2>2. InHand' \subseteq InHand
        BY <2>1 DEF InHand, AtAnItem
  <2>3. QED BY <1>8, <2>1, <2>2, QuietTold DEF AskDirectory, stripe
<1>9. CASE MarkOrphan
  <2>1. /\ run.pc = "mark" /\ run'.pc = "next"
        /\ run'.page = run.page /\ run'.item = run.item
        /\ run'.orphans = run.orphans \cup {run.item}
        BY <1>0, <1>9 DEF MarkOrphan, RunSet
  <2>2. InHand' \subseteq InHand
        BY <2>1 DEF InHand, AtAnItem
  <2>3. QED BY <1>9, <2>1, <2>2, QuietTold DEF MarkOrphan
<1>10. CASE ClearMarks
  <2>1. /\ run.pc = "clear" /\ run'.pc \in {"next", "sync"}
        /\ run'.page = run.page /\ run'.item = run.item
        /\ run'.orphans = run.orphans
        BY <1>0, <1>10 DEF ClearMarks, Compared, RunSet
  <2>2. InHand' \subseteq InHand
        BY <2>1 DEF InHand, AtAnItem
  <2>3. /\ run.item.sub \in Subs /\ mails \in [Subs -> Nat] /\ failures \in Nat
        /\ notified \subseteq Subs
        BY <2>1 DEF Typed, TypeOK, ItemInv, AtAnItem, Item
  <2>4. QED BY <1>10, <2>1, <2>2, <2>3 DEF ClearMarks, Told, MarksKnown,
                                           MailedFirst, MarkOrFailure
<1>11. CASE Lock
  <2>1. /\ run.pc = "sync" /\ run'.pc = "write"
        /\ run'.page = run.page /\ run'.item = run.item
        /\ run'.orphans = run.orphans
        BY <1>0, <1>11 DEF Lock, RunSet
  <2>2. QED BY <1>11, <2>1, QuietTold DEF Lock, stripe, InHand, AtAnItem
<1>12. CASE Write
  <2>1. /\ run.pc = "write" /\ run'.pc = "next"
        /\ run'.page = run.page /\ run'.item = run.item
        /\ run'.orphans = run.orphans
        BY <1>0, <1>12 DEF Write, RunSet
  <2>2. QED BY <1>12, <2>1, QuietTold DEF Write, stripe, InHand, AtAnItem
<1>13. CASE FailOne
  <2>1. /\ AtAnItem /\ run'.pc = "next"
        /\ run'.page = run.page /\ run'.item = run.item
        /\ run'.orphans = run.orphans
        BY <1>0, <1>13 DEF FailOne, RunSet
  <2>2. failures' = failures + 1 /\ failures \in Nat /\ mails \in [Subs -> Nat]
        BY <1>13 DEF FailOne, Fails, Typed, TypeOK
  <2>3. QED BY <1>13, <2>1, <2>2 DEF FailOne, stripe, InHand, AtAnItem, Told,
                                     MarksKnown, MailedFirst, MarkOrFailure
<1>14. CASE WalkEnds
  <2>1. /\ run.pc = "next" /\ run'.pc \in {"over", "send"}
        /\ run'.page = run.page /\ run'.item = run.item
        /\ run'.orphans = run.orphans
        BY <1>0, <1>14 DEF WalkEnds, RunSet
  <2>2. QED BY <1>14, <2>1, QuietTold DEF WalkEnds, stripe, InHand, AtAnItem
<1> DEFINE Fresh(s) == s \notin notified /\ mails[s] <= failures
\* At the email the subscriptions it tells of are not marked.
<1>15. ASSUME run.pc = "send" PROVE \A s \in Untold : s \in Subs /\ Fresh(s)
  <2>1. \A s \in Untold : s \in Subs
        BY UntoldType DEF Typed
  <2>2. \A i \in run.orphans : i.sub \in notified => i.notified
        BY <1>15 DEF Told, MarksKnown, InHand
  <2>3. \A s \in Untold : s \notin notified
        BY <2>2 DEF Untold
  <2>4. QED BY <1>15, <2>1, <2>3 DEF Told, MarkOrFailure
<1>16. CASE Send
  <2>1. /\ run.pc = "send" /\ run'.pc = "notified" /\ run'.tell = Untold
        BY <1>0, <1>16 DEF Send, RunSet
  <2>2. \A s \in Subs : mails'[s] = IF s \in Untold THEN mails[s] + 1 ELSE mails[s]
        BY <1>16 DEF Send, Mailed
  <2>3. notified \subseteq Subs /\ mails \in [Subs -> Nat] /\ failures \in Nat
        BY DEF Typed, TypeOK
  <2>4. MailedFirst'
        BY <1>15, <1>16, <2>1, <2>2, <2>3 DEF Send, stripe, Told, MailedFirst
  <2>5. MarkOrFailure'
        BY <1>15, <1>16, <2>1, <2>2, <2>3 DEF Send, stripe, Told, MarkOrFailure
  <2>6. QED BY <2>1, <2>4, <2>5 DEF Told, MarksKnown
<1>17. CASE SendFails
  <2>1. run.pc = "send" /\ run'.pc = "over"
        BY <1>0, <1>17 DEF SendFails, RunSet
  <2>2. \A s \in Subs : \/ mails'[s] = mails[s]
                        \/ s \in Untold /\ mails'[s] = mails[s] + 1
        BY <1>17 DEF SendFails, Mailed
  <2>3. /\ notified \subseteq Subs /\ mails \in [Subs -> Nat]
        /\ failures \in Nat /\ failures' = failures + 1
        BY <1>17 DEF Typed, TypeOK, SendFails, Fails
  <2>4. MailedFirst'
        BY <1>17, <2>1, <2>2, <2>3 DEF SendFails, stripe, Told, MailedFirst
  <2>5. MarkOrFailure'
        BY <1>15, <1>17, <2>1, <2>2, <2>3 DEF SendFails, stripe, Told,
                                              MarkOrFailure
  <2>6. QED BY <2>1, <2>4, <2>5 DEF Told, MarksKnown
<1>18. CASE MarkNotified
  <2>1. PICK s \in run.tell :
            /\ \/ notified' = notified \cup {s} /\ UNCHANGED failures
               \/ Fails /\ UNCHANGED notified
            /\ run' = [run EXCEPT !.tell = @ \ {s},
                                  !.pc = IF run.tell = {s} THEN "over" ELSE @,
                                  !.complete = (run.tell = {s})]
        BY <1>18 DEF MarkNotified
  <2>2. /\ run.pc = "notified" /\ run'.tell = run.tell \ {s}
        /\ run'.pc = IF run.tell = {s} THEN "over" ELSE "notified"
        BY <1>0, <1>18, <2>1 DEF MarkNotified, RunSet
  <2>3. mails' = mails
        BY <1>18 DEF MarkNotified
  <2>. mails \in [Subs -> Nat] /\ failures \in Nat
        BY DEF Typed, TypeOK
  <2>4. MailedFirst'
        BY <2>1, <2>2, <2>3 DEF Told, MailedFirst
  <2>5. MarkOrFailure'
        BY <2>1, <2>2, <2>3 DEF Told, MarkOrFailure, Fails
  <2>6. QED BY <2>2, <2>4, <2>5 DEF Told, MarksKnown
<1>19. CASE Die
  <2>1. run'.pc = "over"
        BY <1>19 DEF Die, NoRun
  <2>2. mails \in [Subs -> Nat] /\ failures \in Nat /\ failures' = failures + 1
        BY <1>19 DEF Typed, TypeOK, Die, Fails
  <2>3. QED BY <1>19, <2>1, <2>2 DEF Die, stripe, Told, MarksKnown, MailedFirst,
                                     MarkOrFailure
<1>20. CASE UNCHANGED vars
  BY <1>1, <1>20 DEF vars, stripe
<1>21. QED
  BY <1>2, <1>3, <1>4, <1>5, <1>6, <1>7, <1>8, <1>9, <1>10, <1>11, <1>12, <1>13,
     <1>14, <1>16, <1>17, <1>18, <1>19, <1>20 DEF Next, Proceed

\* Nothing is marked as told about that nobody was told about.
THEOREM MarkMeansTold == Spec => []NotifiedMeansTold
<1>1. Told => NotifiedMeansTold
    BY DEF Told, MailedFirst, NotifiedMeansTold
<1>2. QED BY InitTyped, StepTyped, InitTold, StepTold, <1>1, PTL DEF Spec

\* Every email after the first about one orphan goes back to a failure.
THEOREM ToldAgainOnlyAfterFailure == Spec => []ToldOnce
<1>1. Typed /\ Told => ToldOnce
    BY DEF Typed, TypeOK, Told, MarkOrFailure, ToldOnce
<1>2. QED BY InitTyped, StepTyped, InitTold, StepTold, <1>1, PTL DEF Spec

---------------------------------------------------------------------------
(* The rows *)

\* The run is through with a subscription.
Done(t) ==
    /\ t \notin run.unlisted
    /\ \A i \in run.page : i.sub # t
    /\ AtAnItem => run.item.sub # t

\* Customers whose rows the run answers for.
Answerable(c) ==
    /\ c \in accounts /\ c \notin touched /\ c \notin run.failed
    /\ SubsOf(c) # {}

Right(c) == row[c] = Shows(SubsOf(c) \cap running # {})

\* What the run knows of such a customer is still true ...
PageKnows(c) ==
    \A i \in run.page : Owner[i.sub] = c =>
        (i.running <=> i.sub \in running) /\ (i.sub \in orphaned => i.orphaned)

ItemKnows(c) ==
    LET i == run.item
    IN  AtAnItem /\ Owner[i.sub] = c =>
            /\ i.running <=> i.sub \in running
            /\ i.sub \in orphaned => i.orphaned
            /\ run.pc # "mark"
            /\ run.pc # "write" => run.local = row[c]
            /\ run.pc \in {"sync", "write"} => i.sub \notin orphaned

\* ... what it is through with has no mark, and his row is right unless one of
\* his current subscriptions is still to come.
Progress(c) ==
    /\ \A t \in SubsOf(c) : Done(t) => t \notin orphaned
    /\ Right(c) \/ \E t \in CurrentOf(c) : ~Done(t)

Walked == run.page = {} /\ run.unlisted = {}

RowsInv ==
    /\ run.complete => run.pc = "over"
    /\ run.complete \/ run.pc \in {"send", "notified"} => Walked
    /\ canTell /\ ~run.dry /\ (run.pc # "over" \/ run.complete) =>
          \A c \in Customers :
              Answerable(c) => PageKnows(c) /\ ItemKnows(c) /\ Progress(c)

LEMMA InitRows == Init => RowsInv
BY DEF Init, RowsInv, NoRun

\* A customer of whom a step changes nothing stays as he is.
LEMMA QuietCustomer ==
    ASSUME NEW c \in Customers, Typed, Typed',
           PageKnows(c), ItemKnows(c), Progress(c),
           row'[c] = row[c], SubsOf(c) \cap running' = SubsOf(c) \cap running,
           \A t \in SubsOf(c) : t \in orphaned' => t \in orphaned,
           run' = run
    PROVE  PageKnows(c)' /\ ItemKnows(c)' /\ Progress(c)'
<1>1. \A i \in run.page : i.sub \in Subs
      BY DEF Typed, TypeOK, Item
<1>2. AtAnItem => run.item.sub \in Subs
      BY DEF Typed, ItemInv, Item
<1>3. PageKnows(c)'
      BY <1>1 DEF PageKnows, SubsOf
<1>4. ItemKnows(c)'
      BY <1>2 DEF ItemKnows, SubsOf, AtAnItem
<1>5. CurrentOf(c)' = CurrentOf(c) /\ (Right(c)' <=> Right(c))
      BY DEF CurrentOf, Right, SubsOf
<1>6. \A t : Done(t)' <=> Done(t)
      BY DEF Done, AtAnItem
<1>7. QED BY <1>3, <1>4, <1>5, <1>6 DEF Progress, SubsOf

\* The world outside touches the customer it changes.
LEMMA OutsideRows ==
    ASSUME Typed, Typed', RowsInv, NEW c \in Customers, Changes(c),
           \A d \in Customers \ {c} :
              /\ row'[d] = row[d]
              /\ SubsOf(d) \cap running' = SubsOf(d) \cap running
              /\ d \in accounts' => d \in accounts
    PROVE  RowsInv'
<1>1. /\ touched' = touched \cup {c} /\ run' = run
      /\ orphaned' = orphaned /\ canTell' = canTell
      BY DEF Changes, stripe
<1>2. SUFFICES ASSUME canTell, ~run.dry, run.pc # "over" \/ run.complete,
                      NEW d \in Customers, Answerable(d)'
               PROVE  PageKnows(d)' /\ ItemKnows(d)' /\ Progress(d)'
      BY <1>1 DEF RowsInv, Walked
<1>3. d # c /\ Answerable(d)
      BY <1>1, <1>2 DEF Answerable, SubsOf
<1>4. PageKnows(d) /\ ItemKnows(d) /\ Progress(d)
      BY <1>2, <1>3 DEF RowsInv
<1>5. QED BY <1>1, <1>3, <1>4, QuietCustomer

\* A current subscription that the run is through with shows the row right.
LEMMA ComparedRight ==
    ASSUME Typed, NEW c \in Customers, NEW t \in CurrentOf(c),
           row[c] = Shows(t \in running), SubsOf(c) # {}
    PROVE  Right(c)
BY DEF Right, CurrentOf, Shows

\* A step of the run that only takes it from one end of its walk to the other
\* keeps what is known of the rows.
LEMMA WalkedRows ==
    ASSUME Typed, Typed', RowsInv,
           UNCHANGED <<outside, row, orphaned, touched>>,
           run.pc \in {"next", "send", "notified"}, Walked,
           run'.pc \in {"over", "send", "notified"},
           run'.complete => run'.pc = "over",
           run'.page = run.page, run'.unlisted = run.unlisted,
           run'.failed = run.failed, run'.dry = run.dry
    PROVE  RowsInv'
<1>1. Walked' /\ ~AtAnItem /\ ~AtAnItem'
      BY DEF Walked, AtAnItem
<1>2. SUFFICES ASSUME canTell, ~run.dry, NEW c \in Customers, Answerable(c)
               PROVE  PageKnows(c)' /\ ItemKnows(c)' /\ Progress(c)'
      BY <1>1 DEF RowsInv, Walked, Answerable, outside, SubsOf
<1>3. PageKnows(c) /\ ItemKnows(c) /\ Progress(c)
      BY <1>2 DEF RowsInv
<1>4. PageKnows(c)' /\ ItemKnows(c)'
      BY <1>1 DEF PageKnows, ItemKnows, Walked
<1>5. \A t : Done(t)' <=> Done(t)
      BY <1>1 DEF Done, Walked
<1>6. Progress(c)'
      BY <1>3, <1>5 DEF Progress, Right, CurrentOf, SubsOf, outside
<1>7. QED BY <1>4, <1>6

\* What remains to be shown of a step at an item: the customers themselves.
LEMMA WalkingRows ==
    ASSUME Typed, Typed', RowsInv, UNCHANGED <<outside, touched>>,
           run.pc \notin {"over", "send", "notified"},
           run'.pc \notin {"over", "send", "notified"},
           run'.complete = run.complete, run'.dry = run.dry,
           run.failed \subseteq run'.failed,
           \A c \in Customers :
              /\ canTell /\ ~run.dry
              /\ Answerable(c) /\ c \notin run'.failed
              /\ PageKnows(c) /\ ItemKnows(c) /\ Progress(c)
              => PageKnows(c)' /\ ItemKnows(c)' /\ Progress(c)'
    PROVE  RowsInv'
BY DEF RowsInv, Answerable, outside, SubsOf

LEMMA TakeRows ==
    ASSUME Typed, Typed', RowsInv, Take PROVE RowsInv'
<1>0. run \in RunSet
      BY RunType DEF Typed
<1>1. PICK i \in run.page :
          run' = [run EXCEPT !.page = @ \ {i}, !.item = i,
                     !.local = row[Owner[i.sub]],
                     !.pc = IF Owner[i.sub] \in Foreign
                               /\ row[Owner[i.sub]] = "absent"
                            THEN "next" ELSE "account"]
      BY DEF Take
<1>2. /\ run.pc = "next" /\ run'.page = run.page \ {i} /\ run'.item = i
      /\ run'.local = row[Owner[i.sub]] /\ run'.unlisted = run.unlisted
      /\ run'.pc = IF Owner[i.sub] \in Foreign /\ row[Owner[i.sub]] = "absent"
                   THEN "next" ELSE "account"
      /\ run'.complete = run.complete /\ run'.dry = run.dry
      /\ run'.failed = run.failed
      BY <1>0, <1>1 DEF Take, RunSet
<1>3. i \in Item /\ Owner[i.sub] \in Customers
      BY <1>0, <1>1 DEF RunSet, Item
<1>4. UNCHANGED <<running, accounts, canTell, row, orphaned, touched>>
      BY DEF Take, outside, stripe
<1>5. ASSUME NEW c \in Customers, Answerable(c), PageKnows(c), Progress(c)
      PROVE  PageKnows(c)' /\ ItemKnows(c)' /\ Progress(c)'
  <2>1. c \notin Foreign
        BY <1>5 DEF Answerable, Typed, TypeOK, Users
  <2>2. PageKnows(c)'
        BY <1>2, <1>4, <1>5 DEF PageKnows
  <2>3. ItemKnows(c)'
        BY <1>1, <1>2, <1>4, <1>5 DEF ItemKnows, PageKnows
  <2>4. \A t \in SubsOf(c) : Done(t)' => Done(t)
        BY <1>2, <2>1 DEF Done, AtAnItem, SubsOf
  <2>5. CurrentOf(c) \subseteq SubsOf(c)
        BY DEF CurrentOf
  <2>6. Progress(c)'
        BY <1>4, <1>5, <2>4, <2>5 DEF Progress, Right, CurrentOf, SubsOf
  <2>7. QED BY <2>2, <2>3, <2>6
<1>6. QED BY <1>2, <1>4, <1>5, WalkingRows DEF outside, Take

LEMMA ListPageRows ==
    ASSUME Typed, Typed', RowsInv, ListPage PROVE RowsInv'
<1>0. run \in RunSet
      BY RunType DEF Typed
<1>1. PICK P \in SUBSET run.unlisted :
          run' = [run EXCEPT !.page = {Listed(s) : s \in P}, !.unlisted = @ \ P]
      BY DEF ListPage
<1>2. /\ run.pc = "next" /\ run'.pc = "next" /\ run.page = {}
      /\ run'.page = {Listed(s) : s \in P} /\ run'.unlisted = run.unlisted \ P
      /\ run'.complete = run.complete /\ run'.dry = run.dry
      /\ run'.failed = run.failed
      BY <1>0, <1>1 DEF ListPage, RunSet
<1>3. UNCHANGED <<running, accounts, canTell, row, orphaned, touched>>
      BY DEF ListPage, outside, stripe
<1>4. ASSUME NEW c \in Customers, Answerable(c), Progress(c)
      PROVE  PageKnows(c)' /\ ItemKnows(c)' /\ Progress(c)'
  <2>1. PageKnows(c)'
        BY <1>2, <1>3, ListedFields DEF PageKnows
  <2>2. ItemKnows(c)'
        BY <1>2 DEF ItemKnows, AtAnItem
  <2>3. \A t : Done(t)' => Done(t)
        BY <1>1, <1>2, ListedFields DEF Done, AtAnItem
  <2>4. Progress(c)'
        BY <1>3, <1>4, <2>3 DEF Progress, Right, CurrentOf, SubsOf
  <2>5. QED BY <2>1, <2>2, <2>4
<1>5. QED BY <1>2, <1>3, <1>4, WalkingRows DEF outside, ListPage

\* A step at an item of another customer, or one that only moves on to the
\* next call for this one, leaves what is known of a customer.
LEMMA OtherItem ==
    ASSUME Typed, Typed', AtAnItem, run.item \in Item, NEW c \in Customers,
           Owner[run.item.sub] # c,
           PageKnows(c), Progress(c),
           run'.page = run.page, run'.unlisted = run.unlisted,
           run'.item = run.item, running' = running, row'[c] = row[c],
           \A t \in Subs \ {run.item.sub} : t \in orphaned' => t \in orphaned
    PROVE  PageKnows(c)' /\ ItemKnows(c)' /\ Progress(c)'
<1>1. \A i \in run.page : i.sub \in Subs
      BY DEF Typed, TypeOK, Item
<1>2. PageKnows(c)' /\ ItemKnows(c)'
      BY <1>1 DEF PageKnows, ItemKnows
<1>3. \A t \in SubsOf(c) : t # run.item.sub /\ (Done(t)' <=> Done(t))
      BY DEF Done, AtAnItem, SubsOf
<1>4. CurrentOf(c) \subseteq SubsOf(c) /\ CurrentOf(c)' = CurrentOf(c)
      BY DEF CurrentOf, SubsOf
<1>5. Progress(c)'
      BY <1>3, <1>4 DEF Progress, Right, SubsOf
<1>6. QED BY <1>2, <1>5

\* The run is through with the item: its row was right, or has been made so.
LEMMA ItemDone ==
    ASSUME Typed, Typed', AtAnItem, ~AtAnItem', run.item \in Item,
           NEW c \in Customers, Owner[run.item.sub] = c,
           PageKnows(c), Progress(c),
           run'.page = run.page, run'.unlisted = run.unlisted,
           running' = running,
           \A t \in Subs : t \in orphaned' => t \in orphaned,
           run.item.sub \notin orphaned',
           \/ Right(c)'
           \/ \E s \in CurrentOf(c) : s # run.item.sub /\ ~Done(s)
           \/ row' = row /\ run.item.sub \notin CurrentOf(c)
    PROVE  PageKnows(c)' /\ ItemKnows(c)' /\ Progress(c)'
<1>1. \A i \in run.page : i.sub \in Subs
      BY DEF Typed, TypeOK, Item
<1>2. PageKnows(c)' /\ ItemKnows(c)'
      BY <1>1 DEF PageKnows, ItemKnows
<1>3. \A t : t # run.item.sub => (Done(t)' <=> Done(t))
      BY DEF Done
<1>4. CurrentOf(c)' = CurrentOf(c)
      BY DEF CurrentOf, SubsOf
<1>5. \A t \in SubsOf(c)' : Done(t)' => t \notin orphaned'
      BY <1>3 DEF Progress, SubsOf
<1>6. Right(c)' \/ \E t \in CurrentOf(c)' : ~Done(t)'
  <2>1. CASE Right(c)'
        BY <2>1
  <2>2. CASE \E s \in CurrentOf(c) : s # run.item.sub /\ ~Done(s)
        BY <1>3, <1>4, <2>2
  <2>3. CASE row' = row /\ run.item.sub \notin CurrentOf(c)
        BY <1>3, <1>4, <2>3 DEF Progress, Right, SubsOf
  <2>4. QED BY <2>1, <2>2, <2>3
<1>7. QED BY <1>2, <1>5, <1>6 DEF Progress

\* The comparison, of an item known to be as it was listed and not marked (any
\* more): either the row is right, or the sync follows.
LEMMA ComparedRows ==
    ASSUME Typed, Typed', RowsInv, UNCHANGED <<outside, row, touched>>,
           AtAnItem, run.item \in Item,
           \A t \in Subs : t \in orphaned' => t \in orphaned,
           run'.page = run.page, run'.unlisted = run.unlisted,
           run'.item = run.item, run'.failed = run.failed, run'.dry = run.dry,
           run'.complete = run.complete, run'.local = run.local,
           NEW c \in Customers, ~run.dry, Owner[run.item.sub] = c,
           PageKnows(c), ItemKnows(c), Progress(c), SubsOf(c) # {},
           run.pc # "write", run.item.sub \notin orphaned',
           run'.pc = Compared
    PROVE  PageKnows(c)' /\ ItemKnows(c)' /\ Progress(c)'
<1>1. run.local = row[c] /\ (run.item.running <=> run.item.sub \in running)
      BY DEF ItemKnows
<1>2. running' = running /\ row' = row
      BY DEF outside
<1>3. CASE run'.pc = "sync"
  <2>1. AtAnItem'
        BY <1>3 DEF AtAnItem
  <2>2. \A i \in run.page : i.sub \in Subs
        BY DEF Typed, TypeOK, Item
  <2>3. PageKnows(c)'
        BY <1>2, <2>2 DEF PageKnows
  <2>4. run.item.sub \in orphaned' => run.item.orphaned
        OBVIOUS
  <2>5. ItemKnows(c)'
        BY <1>1, <1>2, <1>3, <2>4 DEF ItemKnows
  <2>6. \A t : Done(t)' <=> Done(t)
        BY <2>1 DEF Done
  <2>7. CurrentOf(c)' = CurrentOf(c) /\ (Right(c)' <=> Right(c))
        BY <1>2 DEF CurrentOf, Right, SubsOf
  <2>8. Progress(c)'
        BY <2>6, <2>7 DEF Progress, SubsOf
  <2>9. QED BY <2>3, <2>5, <2>8
<1>4. CASE run'.pc = "next"
  <2>1. ~AtAnItem' /\ run.local = Shows(run.item.running)
        BY <1>4 DEF AtAnItem, Compared
  <2>2. row[c] = Shows(run.item.sub \in running)
        BY <1>1, <2>1 DEF Shows
  <2>3. run.item.sub \in CurrentOf(c) => Right(c)'
        BY <1>2, <2>2, ComparedRight DEF Right, SubsOf
  <2>4. QED BY <1>2, <2>1, <2>3, ItemDone
<1>5. QED BY <1>3, <1>4 DEF Compared

LEMMA AskDirectoryRows ==
    ASSUME Typed, Typed', RowsInv, AskDirectory PROVE RowsInv'
<1>0. run \in RunSet
      BY RunType DEF Typed
<1>1. /\ run.pc = "account" /\ run'.page = run.page
      /\ run'.unlisted = run.unlisted /\ run'.item = run.item
      /\ run'.failed = run.failed /\ run'.dry = run.dry
      /\ run'.complete = run.complete /\ run'.local = run.local
      /\ run'.pc \in {"next", "mark", "clear", "sync"}
      BY <1>0 DEF AskDirectory, RunSet, Compared
<1>2. /\ UNCHANGED <<outside, row, touched>> /\ orphaned' = orphaned
      /\ UNCHANGED <<running, accounts, canTell>>
      BY DEF AskDirectory, stripe, outside
<1>3. AtAnItem /\ run.item \in Item
      BY <1>1 DEF AtAnItem, Typed, ItemInv
<1>4. ASSUME NEW c \in Customers, canTell, ~run.dry, Answerable(c),
             PageKnows(c), ItemKnows(c), Progress(c)
      PROVE  PageKnows(c)' /\ ItemKnows(c)' /\ Progress(c)'
  <2>1. CASE Owner[run.item.sub] # c
        BY <1>1, <1>2, <1>3, <1>4, <2>1, OtherItem
  <2>2. CASE Owner[run.item.sub] = c /\ Marked(run.item)
    <3>1. run'.pc = "clear"
          BY <1>0, <1>4, <2>2 DEF AskDirectory, Answerable, RunSet, Typed,
             TypeOK, Users
    <3>2. AtAnItem'
          BY <3>1 DEF AtAnItem
    <3>3. PageKnows(c)'
          BY <1>1, <1>2, <1>4 DEF PageKnows
    <3>4. ItemKnows(c)'
          BY <1>1, <1>2, <1>3, <1>4, <3>1 DEF ItemKnows
    <3>5. \A t : Done(t)' <=> Done(t)
          BY <1>1, <1>3, <3>2 DEF Done
    <3>6. Progress(c)'
          BY <1>2, <1>4, <3>5 DEF Progress, Right, CurrentOf, SubsOf
    <3>7. QED BY <3>3, <3>4, <3>6
  <2>3. CASE Owner[run.item.sub] = c /\ ~Marked(run.item)
    <3>1. run'.pc = Compared
          BY <1>0, <1>4, <2>3 DEF AskDirectory, Answerable, RunSet
    <3>2. run.item.sub \notin orphaned'
          BY <1>2, <1>3, <1>4, <2>3 DEF ItemKnows, Marked
    <3>3. SubsOf(c) # {} /\ run.pc # "write"
          BY <1>1, <1>4 DEF Answerable
    <3>4. QED BY <1>1, <1>2, <1>3, <1>4, <2>3, <3>1, <3>2, <3>3, ComparedRows
  <2>4. QED BY <2>1, <2>2, <2>3
<1>5. QED BY <1>1, <1>2, <1>4, WalkingRows

LEMMA MarkOrphanRows ==
    ASSUME Typed, Typed', RowsInv, MarkOrphan PROVE RowsInv'
<1>0. run \in RunSet
      BY RunType DEF Typed
<1>1. /\ run.pc = "mark" /\ run'.page = run.page
      /\ run'.unlisted = run.unlisted /\ run'.item = run.item
      /\ run'.failed = run.failed /\ run'.dry = run.dry
      /\ run'.complete = run.complete /\ run'.pc = "next"
      BY <1>0 DEF MarkOrphan, RunSet
<1>2. /\ UNCHANGED <<outside, row, touched>> /\ running' = running
      /\ orphaned' = orphaned \cup {run.item.sub}
      BY DEF MarkOrphan, outside
<1>3. AtAnItem /\ run.item \in Item
      BY <1>1 DEF AtAnItem, Typed, ItemInv
<1>4. ASSUME NEW c \in Customers, PageKnows(c), ItemKnows(c), Progress(c)
      PROVE  PageKnows(c)' /\ ItemKnows(c)' /\ Progress(c)'
  <2>1. Owner[run.item.sub] # c
        BY <1>1, <1>3, <1>4 DEF ItemKnows
  <2>2. QED BY <1>1, <1>2, <1>3, <1>4, <2>1, OtherItem
<1>5. QED BY <1>1, <1>2, <1>4, WalkingRows

LEMMA ClearMarksRows ==
    ASSUME Typed, Typed', RowsInv, ClearMarks PROVE RowsInv'
<1>0. run \in RunSet
      BY RunType DEF Typed
<1>1. /\ run.pc = "clear" /\ run'.page = run.page
      /\ run'.unlisted = run.unlisted /\ run'.item = run.item
      /\ run'.failed = run.failed /\ run'.dry = run.dry
      /\ run'.complete = run.complete /\ run'.local = run.local
      /\ run'.pc = Compared /\ run'.pc \in {"next", "sync"}
      BY <1>0 DEF ClearMarks, RunSet, Compared
<1>2. /\ UNCHANGED <<outside, row, touched>> /\ running' = running
      /\ orphaned' = orphaned \ {run.item.sub}
      BY DEF ClearMarks, outside
<1>3. AtAnItem /\ run.item \in Item
      BY <1>1 DEF AtAnItem, Typed, ItemInv
<1>4. ASSUME NEW c \in Customers, ~run.dry, Answerable(c),
             PageKnows(c), ItemKnows(c), Progress(c)
      PROVE  PageKnows(c)' /\ ItemKnows(c)' /\ Progress(c)'
  <2>1. CASE Owner[run.item.sub] # c
        BY <1>1, <1>2, <1>3, <1>4, <2>1, OtherItem
  <2>2. CASE Owner[run.item.sub] = c
    <3>1. SubsOf(c) # {} /\ run.pc # "write" /\ run.item.sub \notin orphaned'
          BY <1>1, <1>2, <1>4 DEF Answerable
    <3>2. QED BY <1>1, <1>2, <1>3, <1>4, <2>2, <3>1, ComparedRows
  <2>3. QED BY <2>1, <2>2
<1>5. QED BY <1>1, <1>2, <1>4, WalkingRows

LEMMA LockRows ==
    ASSUME Typed, Typed', RowsInv, Lock PROVE RowsInv'
<1>0. run \in RunSet
      BY RunType DEF Typed
<1>1. /\ run.pc = "sync" /\ run'.page = run.page
      /\ run'.unlisted = run.unlisted /\ run'.item = run.item
      /\ run'.failed = run.failed /\ run'.dry = run.dry
      /\ run'.complete = run.complete /\ run'.pc = "write"
      BY <1>0 DEF Lock, RunSet
<1>2. /\ UNCHANGED <<outside, row, touched>>
      /\ running' = running /\ orphaned' = orphaned
      BY DEF Lock, outside, stripe
<1>3. AtAnItem /\ AtAnItem'
      BY <1>1 DEF AtAnItem
<1>4. ASSUME NEW c \in Customers, PageKnows(c), ItemKnows(c), Progress(c)
      PROVE  PageKnows(c)' /\ ItemKnows(c)' /\ Progress(c)'
  <2>1. PageKnows(c)'
        BY <1>1, <1>2, <1>4 DEF PageKnows
  <2>2. ItemKnows(c)'
        BY <1>1, <1>2, <1>3, <1>4 DEF ItemKnows
  <2>3. \A t : Done(t)' <=> Done(t)
        BY <1>1, <1>3 DEF Done
  <2>4. Progress(c)'
        BY <1>2, <1>4, <2>3 DEF Progress, Right, CurrentOf, SubsOf
  <2>5. QED BY <2>1, <2>2, <2>4
<1>5. QED BY <1>1, <1>2, <1>4, WalkingRows

LEMMA WriteRows ==
    ASSUME Typed, Typed', RowsInv, Write PROVE RowsInv'
<1>0. run \in RunSet
      BY RunType DEF Typed
<1>1. /\ run.pc = "write" /\ run'.page = run.page
      /\ run'.unlisted = run.unlisted /\ run'.item = run.item
      /\ run'.failed = run.failed /\ run'.dry = run.dry
      /\ run'.complete = run.complete /\ run'.pc = "next"
      BY <1>0 DEF Write, RunSet
<1>2. /\ UNCHANGED <<outside, touched>>
      /\ running' = running /\ orphaned' = orphaned
      BY DEF Write, outside, stripe
<1>3. AtAnItem /\ ~AtAnItem' /\ run.item \in Item
      BY <1>1 DEF AtAnItem, Typed, ItemInv
<1>. DEFINE d == Owner[run.item.sub]
<1>4. PICK s \in CurrentOf(d) :
          row' = IF row[d] = "absent" /\ (s \in orphaned \/ d \in Nameless)
                 THEN row
                 ELSE [row EXCEPT ![d] = Shows(s \in running)]
      BY DEF Write
<1>5. ASSUME NEW c \in Customers, Answerable(c),
             PageKnows(c), ItemKnows(c), Progress(c)
      PROVE  PageKnows(c)' /\ ItemKnows(c)' /\ Progress(c)'
  <2>1. CASE c # d
    <3>1. row'[c] = row[c]
          BY <1>4, <2>1
    <3>2. QED BY <1>1, <1>2, <1>3, <1>5, <2>1, <3>1, OtherItem
  <2>2. CASE c = d
    <3>1. run.item.sub \notin orphaned
          BY <1>1, <1>3, <1>5, <2>2 DEF ItemKnows
    <3>2. s \in SubsOf(c) /\ d \notin Nameless
          BY <1>4, <1>5, <2>2 DEF CurrentOf, Answerable, Typed, TypeOK, Users
    <3>3. CASE row[d] = "absent" /\ s \in orphaned
      <4>1. s # run.item.sub /\ ~Done(s) /\ s \in CurrentOf(c)
            BY <1>4, <1>5, <2>2, <3>1, <3>2, <3>3 DEF Progress
      <4>2. QED BY <1>1, <1>2, <1>3, <1>5, <2>2, <3>1, <4>1, ItemDone
    <3>4. CASE ~(row[d] = "absent" /\ s \in orphaned)
      <4>1. row'[c] = Shows(s \in running)
            BY <1>4, <2>2, <3>2, <3>4 DEF Typed, TypeOK
      <4>2. Right(c)'
            BY <1>2, <1>4, <2>2, <3>2, <4>1 DEF Right, CurrentOf, SubsOf, Shows
      <4>3. QED BY <1>1, <1>2, <1>3, <1>5, <2>2, <3>1, <4>2, ItemDone
    <3>5. QED BY <3>3, <3>4
  <2>3. QED BY <2>1, <2>2
<1>6. QED BY <1>1, <1>2, <1>5, WalkingRows

LEMMA FailOneRows ==
    ASSUME Typed, Typed', RowsInv, FailOne PROVE RowsInv'
<1>0. run \in RunSet
      BY RunType DEF Typed
<1>1. AtAnItem /\ run.item \in Item
      BY DEF FailOne, Typed, ItemInv
<1>2. /\ run'.page = run.page /\ run'.unlisted = run.unlisted
      /\ run'.item = run.item /\ run'.dry = run.dry
      /\ run'.failed = run.failed \cup {Owner[run.item.sub]}
      /\ run'.complete = run.complete /\ run'.pc = "next"
      BY <1>0 DEF FailOne, RunSet
<1>3. /\ UNCHANGED <<outside, row, touched>>
      /\ running' = running /\ orphaned' = orphaned
      BY DEF FailOne, outside, stripe
<1>4. ASSUME NEW c \in Customers, c \notin run'.failed,
             PageKnows(c), ItemKnows(c), Progress(c)
      PROVE  PageKnows(c)' /\ ItemKnows(c)' /\ Progress(c)'
  <2>1. Owner[run.item.sub] # c
        BY <1>2, <1>4
  <2>2. QED BY <1>1, <1>2, <1>3, <1>4, <2>1, OtherItem
<1>5. run.pc \notin {"over", "send", "notified"}
      BY <1>1 DEF AtAnItem
<1>6. QED BY <1>2, <1>3, <1>4, <1>5, WalkingRows

LEMMA StartRows ==
    ASSUME Typed, Typed', NEW dry \in BOOLEAN, NEW notifier \in BOOLEAN,
           Start(dry, notifier)
    PROVE  RowsInv'
<1>1. /\ run'.pc = "next" /\ run'.page = {} /\ run'.unlisted = Subs
      /\ run'.complete = FALSE
      BY DEF Start, NoRun
<1>2. ASSUME NEW c \in Customers, SubsOf(c) # {}
      PROVE  PageKnows(c)' /\ ItemKnows(c)' /\ Progress(c)'
  <2>1. \A t \in Subs : ~Done(t)'
        BY <1>1 DEF Done
  <2>2. CurrentOf(c)' # {} /\ CurrentOf(c)' \subseteq Subs
        BY <1>2 DEF CurrentOf, SubsOf
  <2>3. PageKnows(c)' /\ ItemKnows(c)'
        BY <1>1 DEF PageKnows, ItemKnows, AtAnItem
  <2>4. Progress(c)'
        BY <2>1, <2>2 DEF Progress, SubsOf
  <2>5. QED BY <2>3, <2>4
<1>3. QED BY <1>1, <1>2 DEF RowsInv, Answerable, SubsOf

LEMMA StepRows == Typed /\ Typed' /\ RowsInv /\ [Next]_vars => RowsInv'
<1> SUFFICES ASSUME Typed, Typed', RowsInv, [Next]_vars PROVE RowsInv'
    OBVIOUS
<1>0. run \in RunSet
      BY RunType DEF Typed
<1>1. ASSUME NEW s \in Subs, Ends(s) PROVE RowsInv'
  <2>1. \A d \in Customers \ {Owner[s]} :
           SubsOf(d) \cap running' = SubsOf(d) \cap running
        BY <1>1 DEF Ends, SubsOf
  <2>2. QED BY <1>1, <2>1, OutsideRows DEF Ends
<1>2. ASSUME NEW c \in Customers, Webhook(c) PROVE RowsInv'
  BY <1>2, OutsideRows DEF Webhook
<1>3. ASSUME NEW c \in Customers, AccountChanges(c) PROVE RowsInv'
  BY <1>3, OutsideRows DEF AccountChanges
<1>4. CASE WalkEnds
  <2>1. /\ run.pc = "next" /\ run'.pc \in {"over", "send"} /\ Walked
        /\ run'.page = run.page /\ run'.unlisted = run.unlisted
        /\ run'.failed = run.failed /\ run'.dry = run.dry
        /\ run'.complete => run'.pc = "over" \/ run.complete
        BY <1>0, <1>4 DEF WalkEnds, RunSet, Walked
  <2>2. ~run.complete
        BY <2>1 DEF RowsInv
  <2>3. QED BY <1>4, <2>1, <2>2, WalkedRows DEF WalkEnds, stripe
<1>5. CASE Send
  <2>1. /\ run.pc = "send" /\ run'.pc = "notified" /\ Walked
        /\ run'.page = run.page /\ run'.unlisted = run.unlisted
        /\ run'.failed = run.failed /\ run'.dry = run.dry
        /\ run'.complete = run.complete
        BY <1>0, <1>5 DEF Send, RunSet, RowsInv
  <2>2. ~run.complete
        BY <2>1 DEF RowsInv
  <2>3. QED BY <1>5, <2>1, <2>2, WalkedRows DEF Send, stripe
<1>6. CASE SendFails
  <2>1. /\ run.pc = "send" /\ run'.pc = "over" /\ Walked
        /\ run'.page = run.page /\ run'.unlisted = run.unlisted
        /\ run'.failed = run.failed /\ run'.dry = run.dry
        BY <1>0, <1>6 DEF SendFails, RunSet, RowsInv
  <2>2. QED BY <1>6, <2>1, WalkedRows DEF SendFails, stripe
<1>7. CASE MarkNotified
  <2>1. PICK s \in run.tell :
            run' = [run EXCEPT !.tell = @ \ {s},
                               !.pc = IF run.tell = {s} THEN "over" ELSE @,
                               !.complete = (run.tell = {s})]
        BY <1>7 DEF MarkNotified
  <2>2. /\ run.pc = "notified" /\ run'.pc \in {"over", "notified"} /\ Walked
        /\ run'.page = run.page /\ run'.unlisted = run.unlisted
        /\ run'.failed = run.failed /\ run'.dry = run.dry
        BY <1>0, <1>7, <2>1 DEF MarkNotified, RunSet, RowsInv
  <2>3. run'.complete => run'.pc = "over"
        BY <1>0, <2>1 DEF RunSet
  <2>4. QED BY <1>7, <2>2, <2>3, WalkedRows DEF MarkNotified
<1>8. CASE Die
  BY <1>8 DEF Die, NoRun, RowsInv
<1>9. CASE UNCHANGED vars
  BY <1>9 DEF vars, outside, stripe, RowsInv, Walked, Answerable, PageKnows,
              ItemKnows, Progress, Done, Right, CurrentOf, SubsOf, AtAnItem
<1>10. QED
  BY <1>1, <1>2, <1>3, <1>4, <1>5, <1>6, <1>7, <1>8, <1>9, StartRows,
     ListPageRows, TakeRows, AskDirectoryRows, MarkOrphanRows, ClearMarksRows,
     LockRows, WriteRows, FailOneRows DEF Next, Proceed

\* A run that reached its end leaves every row it answers for as Stripe has it,
\* one customer's failure costing that customer alone.
THEOREM RowsRepaired == Spec => []DriftRepaired
<1>1. Typed /\ RowsInv => DriftRepaired
  <2> SUFFICES ASSUME Typed, RowsInv, run.complete, ~run.dry, canTell,
                      NEW c \in accounts \ (touched \cup run.failed),
                      SubsOf(c) # {}
               PROVE  row[c] = Shows(SubsOf(c) \cap running # {})
      BY DEF DriftRepaired
  <2>1. c \in Customers /\ Answerable(c)
        BY DEF Typed, TypeOK, Answerable, Users
  <2>2. Walked /\ ~AtAnItem /\ Progress(c)
        BY <2>1 DEF RowsInv, AtAnItem
  <2>3. \A t : Done(t)
        BY <2>2 DEF Walked, Done
  <2>4. QED BY <2>2, <2>3 DEF Progress, Right
<1>2. QED BY InitTyped, StepTyped, InitRows, StepRows, <1>1, PTL DEF Spec

---------------------------------------------------------------------------
(* The orphans *)

\* A subscription of a user whose account has not been there since the run began,
\* and of whose customer no check has failed.
Lost(s) ==
    s \in running
      /\ Owner[s] \in Users \ (accounts \cup touched \cup run.failed)

\* A run that reached its end, and could ask the directory, has marked every
\* such subscription in Stripe, and has an email out about it or lists it as
\* not told of (jobs/reconcile.py: "Each is marked in Stripe and emailed to the
\* operator once"; _record_orphan, _notify): none is passed over, whatever
\* pages it came in, whoever else failed and whichever marks it bore.
EveryOrphanReported ==
    run.complete /\ ~run.dry /\ canTell =>
        \A s \in Subs : Lost(s) =>
            s \in orphaned /\ (mails[s] > 0 \/ s \in run.unnotified)

\* What a page, or the item in hand, says of one is true enough to act on.
SeenRight(i) ==
    /\ i.running
    /\ i.orphaned => i.sub \in orphaned
    /\ i.notified => mails[i.sub] > 0

PageSees(s) == \A i \in run.page : i.sub = s => SeenRight(i)

ItemSees(s) ==
    AtAnItem /\ run.item.sub = s
        => SeenRight(run.item) /\ run.pc \in {"account", "mark"}

\* Once through with it, the run has it marked and among its orphans ...
Noticed(s) ==
    s \in orphaned /\ \E i \in run.orphans : i.sub = s /\ SeenRight(i)

Found(s) == run.pc \notin {"over", "notified"} /\ Done(s) => Noticed(s)

\* ... and after the email it has been told of, or is listed.
Reported(s) ==
    /\ run.pc = "notified" => s \in orphaned /\ mails[s] > 0
    /\ run.complete => s \in orphaned /\ (mails[s] > 0 \/ s \in run.unnotified)

Tracked(s) == PageSees(s) /\ ItemSees(s) /\ Found(s) /\ Reported(s)

OrphansInv ==
    canTell /\ ~run.dry => \A s \in Subs : Lost(s) => Tracked(s)

\* A step that changes neither the run nor what it learnt of s.
LEMMA QuietTracked ==
    ASSUME NEW s \in Subs, Tracked(s), run' = run, orphaned' = orphaned,
           mails' = mails
    PROVE  Tracked(s)'
BY DEF Tracked, PageSees, ItemSees, Found, Reported, Noticed, SeenRight, Done,
       AtAnItem

LEMMA OutsideTracked ==
    ASSUME OrphansInv, NEW c \in Customers, Changes(c),
           \A s \in Subs : Owner[s] # c =>
              (s \in running' <=> s \in running)
              /\ (Owner[s] \in accounts' <=> Owner[s] \in accounts)
    PROVE  OrphansInv'
<1>1. /\ touched' = touched \cup {c} /\ run' = run /\ mails' = mails
      /\ orphaned' = orphaned /\ canTell' = canTell
      BY DEF Changes, stripe
<1>2. SUFFICES ASSUME canTell, ~run.dry, NEW s \in Subs, Lost(s)'
               PROVE  Tracked(s)'
      BY <1>1 DEF OrphansInv
<1>3. Lost(s)
      BY <1>1, <1>2 DEF Lost
<1>4. Tracked(s)
      BY <1>2, <1>3 DEF OrphansInv
<1>5. QED BY <1>1, <1>4, QuietTracked

\* A step of the run in the middle of its walk: what it has to keep.
LEMMA WalkTracked ==
    ASSUME OrphansInv, UNCHANGED <<outside, touched>>,
           run'.dry = run.dry, run.failed \subseteq run'.failed,
           \A s \in Subs : canTell /\ ~run.dry /\ Lost(s) /\ Tracked(s)
                              /\ Owner[s] \notin run'.failed
                              => Tracked(s)'
    PROVE  OrphansInv'
<1>1. SUFFICES ASSUME canTell, ~run.dry, NEW s \in Subs, Lost(s)'
               PROVE  Tracked(s)'
      BY DEF OrphansInv, outside
<1>2. Lost(s) /\ Owner[s] \notin run'.failed
      BY <1>1 DEF Lost, outside
<1>3. QED BY <1>1, <1>2 DEF OrphansInv

\* A step at another subscription's item.
LEMMA ElsewhereTracked ==
    ASSUME NEW s \in Subs, Tracked(s), AtAnItem, run.item.sub # s,
           run'.pc \in {"next", "mark", "clear", "sync", "write"},
           run'.page = run.page, run'.unlisted = run.unlisted,
           run'.item = run.item, run.orphans \subseteq run'.orphans,
           ~run'.complete, s \in orphaned => s \in orphaned',
           mails'[s] = mails[s]
    PROVE  Tracked(s)'
<1>1. PageSees(s)'
      BY DEF Tracked, PageSees, SeenRight
<1>2. ItemSees(s)'
      BY DEF ItemSees
<1>3. Done(s)' => Done(s)
      BY DEF Done
<1>4. Noticed(s) => Noticed(s)'
      BY DEF Noticed, SeenRight
<1>5. Found(s)'
      BY <1>3, <1>4 DEF Tracked, Found, AtAnItem
<1>6. QED BY <1>1, <1>2, <1>5 DEF Tracked, Reported

LEMMA ListPageTracked ==
    ASSUME Typed, Told, RowsInv, OrphansInv, ListPage PROVE OrphansInv'
<1>0. run \in RunSet
      BY RunType DEF Typed
<1>1. PICK P \in SUBSET run.unlisted :
          run' = [run EXCEPT !.page = {Listed(s) : s \in P}, !.unlisted = @ \ P]
      BY DEF ListPage
<1>2. /\ run.pc = "next" /\ run'.pc = "next" /\ run.page = {}
      /\ run'.page = {Listed(s) : s \in P} /\ run'.unlisted = run.unlisted \ P
      /\ run'.complete = run.complete /\ run'.dry = run.dry
      /\ run'.failed = run.failed /\ run'.orphans = run.orphans
      BY <1>0, <1>1 DEF ListPage, RunSet
<1>3. UNCHANGED <<outside, running, touched, orphaned, mails>> /\ ~run.complete
      BY <1>2 DEF ListPage, outside, stripe, RowsInv
<1>4. \A s \in notified : mails[s] > 0
      BY DEF Told, MailedFirst
<1>5. ASSUME NEW s \in Subs, Lost(s), Tracked(s) PROVE Tracked(s)'
  <2>1. PageSees(s)'
    <3>1. \A t \in P : Listed(t).sub = s => t = s
          BY ListedFields
    <3>2. s \in running
          BY <1>5 DEF Lost
    <3>3. /\ Listed(s).sub = s /\ Listed(s).running
          /\ Listed(s).orphaned => s \in orphaned
          /\ Listed(s).notified => mails[s] > 0
          BY <1>4, <3>2, ListedFields
    <3>4. QED BY <1>2, <1>3, <3>1, <3>3 DEF PageSees, SeenRight
  <2>2. Done(s)' => Done(s)
        BY <1>1, <1>2, ListedFields DEF Done, AtAnItem
  <2>3. Found(s)'
        BY <1>2, <1>3, <1>5, <2>2 DEF Tracked, Found, Noticed, SeenRight
  <2>4. ItemSees(s)' /\ Reported(s)'
        BY <1>2, <1>3 DEF ItemSees, Reported, AtAnItem
  <2>5. QED BY <2>1, <2>3, <2>4 DEF Tracked
<1>6. QED BY <1>2, <1>3, <1>5, WalkTracked

LEMMA TakeTracked ==
    ASSUME Typed, RowsInv, OrphansInv, Take PROVE OrphansInv'
<1>0. run \in RunSet
      BY RunType DEF Typed
<1>1. PICK i \in run.page :
          run' = [run EXCEPT !.page = @ \ {i}, !.item = i,
                     !.local = row[Owner[i.sub]],
                     !.pc = IF Owner[i.sub] \in Foreign
                               /\ row[Owner[i.sub]] = "absent"
                            THEN "next" ELSE "account"]
      BY DEF Take
<1>2. /\ run.pc = "next" /\ run'.page = run.page \ {i} /\ run'.item = i
      /\ run'.unlisted = run.unlisted /\ run'.orphans = run.orphans
      /\ run'.complete = run.complete /\ run'.dry = run.dry
      /\ run'.failed = run.failed
      /\ run'.pc \in {"next", "account"}
      /\ run'.pc = "next" => Owner[i.sub] \in Foreign
      BY <1>0, <1>1 DEF Take, RunSet
<1>3. UNCHANGED <<outside, touched, orphaned, mails>> /\ ~run.complete
      BY <1>2 DEF Take, stripe, RowsInv
<1>4. ASSUME NEW s \in Subs, Lost(s), Tracked(s) PROVE Tracked(s)'
  <2>1. PageSees(s)'
        BY <1>2, <1>3, <1>4 DEF Tracked, PageSees, SeenRight
  <2>2. ItemSees(s)'
        BY <1>1, <1>2, <1>3, <1>4
           DEF Tracked, PageSees, ItemSees, SeenRight, AtAnItem
  <2>3. Done(s)' => Done(s)
    <3>1. i.sub = s => run'.pc = "account"
          BY <1>2, <1>4 DEF Lost, Users
    <3>2. QED BY <1>2, <3>1 DEF Done, AtAnItem
  <2>4. Found(s)'
        BY <1>2, <1>3, <1>4, <2>3 DEF Tracked, Found, Noticed, SeenRight
  <2>5. Reported(s)'
        BY <1>2, <1>3 DEF Reported
  <2>6. QED BY <2>1, <2>2, <2>4, <2>5 DEF Tracked
<1>5. QED BY <1>2, <1>3, <1>4, WalkTracked

\* Of a customer whose account is gone the directory says so.
LEMMA AskDirectoryTracked ==
    ASSUME Typed, RowsInv, OrphansInv, AskDirectory PROVE OrphansInv'
<1>0. run \in RunSet /\ run.item \in Item /\ AtAnItem /\ run.pc = "account"
      BY RunType DEF Typed, ItemInv, AtAnItem, AskDirectory
<1>1. /\ run'.pc \in {"next", "mark", "clear", "sync"}
      /\ run'.page = run.page /\ run'.item = run.item
      /\ run'.failed = run.failed /\ run'.unlisted = run.unlisted
      /\ run'.complete = run.complete /\ run'.dry = run.dry
      /\ run'.orphans \in {run.orphans, run.orphans \cup {run.item}}
      BY <1>0, AskDirectoryRun
<1>2. UNCHANGED <<outside, touched, orphaned, mails>> /\ ~run.complete
      BY <1>0 DEF AskDirectory, stripe, RowsInv
<1>3. ASSUME canTell, ~run.dry, NEW s \in Subs, Lost(s), Tracked(s),
             run.item.sub = s
      PROVE  Tracked(s)'
  <2>1. SeenRight(run.item)
        BY <1>0, <1>3 DEF Tracked, ItemSees
  <2>2. PageSees(s)'
        BY <1>1, <1>2, <1>3 DEF Tracked, PageSees, SeenRight
  <2>3. Owner[s] \notin accounts /\ Owner[s] \notin Nameless
        BY <1>3 DEF Lost, Users
  <2> DEFINE next == IF ~run.item.orphaned THEN "mark" ELSE "next"
  <2>4. run' = [run EXCEPT !.pc = next,
                           !.orphans = IF next = "next" THEN @ \cup {run.item}
                                       ELSE @]
        BY <1>3, <2>1, <2>3 DEF AskDirectory, SeenRight
  <2>5. /\ run'.pc = next
        /\ next = "next" => run.item \in run'.orphans
        BY <1>0, <2>4 DEF RunSet
  <2>6. CASE run.item.orphaned
    <3>1. Noticed(s)'
          BY <1>2, <1>3, <2>1, <2>5, <2>6 DEF Noticed, SeenRight
    <3>2. QED BY <1>1, <1>2, <2>2, <2>5, <2>6, <3>1
              DEF Tracked, ItemSees, Found, Reported, AtAnItem
  <2>7. CASE ~run.item.orphaned
    <3>1. run'.pc = "mark" /\ ~Done(s)'
          BY <1>1, <1>3, <2>5, <2>7 DEF Done, AtAnItem
    <3>2. ItemSees(s)'
          BY <1>1, <1>2, <2>1, <3>1 DEF ItemSees, SeenRight
    <3>3. QED BY <1>1, <1>2, <2>2, <3>1, <3>2 DEF Tracked, Found, Reported
  <2>8. QED BY <2>6, <2>7
<1>4. ASSUME NEW s \in Subs, Tracked(s), run.item.sub # s PROVE Tracked(s)'
      BY <1>0, <1>1, <1>2, <1>4, ElsewhereTracked
<1>5. QED BY <1>1, <1>2, <1>3, <1>4, WalkTracked

LEMMA MarkOrphanTracked ==
    ASSUME Typed, RowsInv, OrphansInv, MarkOrphan PROVE OrphansInv'
<1>0. run \in RunSet /\ run.item \in Item /\ AtAnItem /\ run.pc = "mark"
      BY RunType DEF Typed, ItemInv, AtAnItem, MarkOrphan
<1>1. /\ run'.pc = "next" /\ run'.orphans = run.orphans \cup {run.item}
      /\ run'.page = run.page /\ run'.item = run.item
      /\ run'.failed = run.failed /\ run'.unlisted = run.unlisted
      /\ run'.complete = run.complete /\ run'.dry = run.dry
      BY <1>0 DEF MarkOrphan, RunSet
<1>2. /\ UNCHANGED <<outside, touched, mails>> /\ ~run.complete
      /\ orphaned' = orphaned \cup {run.item.sub}
      BY <1>0 DEF MarkOrphan, RowsInv
<1>3. ASSUME NEW s \in Subs, Tracked(s), run.item.sub = s PROVE Tracked(s)'
  <2>1. SeenRight(run.item)
        BY <1>0, <1>3 DEF Tracked, ItemSees
  <2>2. Noticed(s)'
        BY <1>1, <1>2, <1>3, <2>1 DEF Noticed, SeenRight
  <2>3. PageSees(s)'
        BY <1>1, <1>2, <1>3 DEF Tracked, PageSees, SeenRight
  <2>4. QED BY <1>1, <1>2, <2>2, <2>3
            DEF Tracked, ItemSees, Found, Reported, AtAnItem
<1>4. ASSUME NEW s \in Subs, Tracked(s), run.item.sub # s PROVE Tracked(s)'
      BY <1>0, <1>1, <1>2, <1>4, ElsewhereTracked
<1>5. QED BY <1>1, <1>2, <1>3, <1>4, WalkTracked

\* The calls made for somebody whose account is there.
LEMMA RepairTracked ==
    ASSUME Typed, RowsInv, OrphansInv, ClearMarks \/ Lock \/ Write
    PROVE  OrphansInv'
<1>0. /\ run \in RunSet /\ run.item \in Item /\ AtAnItem
      /\ run.pc \in {"clear", "sync", "write"}
      BY RunType DEF Typed, ItemInv, AtAnItem, ClearMarks, Lock, Write
<1>1. PICK p \in {"next", "sync", "write"} : run' = [run EXCEPT !.pc = p]
      BY DEF ClearMarks, Lock, Write, Compared
<1>2. /\ run'.pc = p /\ run'.orphans = run.orphans
      /\ run'.page = run.page /\ run'.item = run.item
      /\ run'.failed = run.failed /\ run'.unlisted = run.unlisted
      /\ run'.complete = run.complete /\ run'.dry = run.dry
      BY <1>0, <1>1 DEF RunSet
<1>3. UNCHANGED <<outside, touched>> /\ ~run.complete
      BY <1>0 DEF ClearMarks, Lock, Write, RowsInv
<1>4. \A t \in Subs \ {run.item.sub} :
         (t \in orphaned => t \in orphaned') /\ mails'[t] = mails[t]
      BY DEF ClearMarks, Lock, Write, stripe, Typed, TypeOK
<1>5. ASSUME NEW s \in Subs, Tracked(s) PROVE Tracked(s)'
  <2>1. run.item.sub # s
        BY <1>0, <1>5 DEF Tracked, ItemSees
  <2>2. QED BY <1>0, <1>2, <1>3, <1>4, <1>5, <2>1, ElsewhereTracked
<1>6. QED BY <1>2, <1>3, <1>5, WalkTracked

LEMMA FailOneTracked ==
    ASSUME Typed, RowsInv, OrphansInv, FailOne PROVE OrphansInv'
<1>0. run \in RunSet /\ run.item \in Item /\ AtAnItem
      BY RunType DEF Typed, ItemInv, FailOne
<1>1. run'.failed = run.failed \cup {Owner[run.item.sub]} /\ run'.pc = "next"
  <2>1. Owner[run.item.sub] \in Customers
        BY <1>0 DEF Item
  <2>2. QED BY <1>0, <2>1, FailOneRun
<1>2. /\ run'.page = run.page /\ run'.item = run.item
      /\ run'.orphans = run.orphans /\ run'.unlisted = run.unlisted
      /\ run'.complete = run.complete /\ run'.dry = run.dry
      BY <1>0 DEF FailOne, RunSet
<1>3. UNCHANGED <<outside, touched, mails, orphaned>> /\ ~run.complete
      BY DEF FailOne, stripe, RowsInv, AtAnItem
<1>4. ASSUME NEW s \in Subs, Tracked(s), Owner[s] \notin run'.failed
      PROVE  Tracked(s)'
  <2>1. run.item.sub # s
        BY <1>1, <1>4
  <2>2. QED BY <1>0, <1>1, <1>2, <1>3, <1>4, <2>1, ElsewhereTracked
<1>5. QED BY <1>1, <1>2, <1>3, <1>4, WalkTracked

\* After the walk: what was noticed is told about, or listed as not.
LEMMA NoticedUntold ==
    ASSUME NEW s \in Subs, Noticed(s) PROVE mails[s] > 0 \/ s \in Untold
BY DEF Noticed, SeenRight, Untold

LEMMA NotifyTracked ==
    ASSUME Typed, RowsInv, OrphansInv, WalkEnds \/ Send \/ SendFails
    PROVE  OrphansInv'
<1>0. run \in RunSet /\ \A s \in Subs : mails[s] \in Nat
      BY RunType DEF Typed, TypeOK
<1>1. /\ run.pc \in {"next", "send"} /\ Walked
      /\ run'.page = run.page /\ run'.unlisted = run.unlisted
      /\ run'.failed = run.failed /\ run'.dry = run.dry
      /\ run'.orphans = run.orphans
      /\ run'.pc \in {"over", "send", "notified"}
  <2>1. CASE WalkEnds
        BY <1>0, <2>1 DEF WalkEnds, RunSet, Walked
  <2>2. CASE Send
        BY <1>0, <2>2 DEF Send, RunSet, RowsInv
  <2>3. CASE SendFails
        BY <1>0, <2>3 DEF SendFails, RunSet, RowsInv
  <2>4. QED BY <2>1, <2>2, <2>3
<1>2. UNCHANGED <<outside, touched, orphaned>> /\ ~run.complete
      BY <1>1 DEF WalkEnds, Send, SendFails, stripe, RowsInv
<1>3. \A s \in Subs : mails'[s] \in {mails[s], mails[s] + 1}
      BY DEF WalkEnds, Send, SendFails, Mailed
<1>4. ~run.dry /\ run'.pc = "notified" => \A s \in Untold : mails'[s] = mails[s] + 1
      BY <1>0, <1>1, UntoldType
         DEF WalkEnds, Send, SendFails, Mailed, RunSet, Typed
<1>5. ~run.dry /\ run'.complete => Untold = {} \/ run'.unnotified = Untold
      BY <1>0, <1>1, <1>2 DEF WalkEnds, Send, SendFails, RunSet
<1>6. ASSUME ~run.dry, NEW s \in Subs, Tracked(s) PROVE Tracked(s)'
  <2>1. Done(s) /\ Noticed(s)
        BY <1>1, <1>6 DEF Tracked, Found, Done, Walked, AtAnItem
  <2>2. mails[s] > 0 \/ s \in Untold
        BY <2>1, NoticedUntold
  <2>3. s \in orphaned'
        BY <1>2, <2>1 DEF Noticed
  <2>4. run'.pc = "notified" => mails'[s] > 0
        BY <1>0, <1>3, <1>4, <1>6, <2>2
  <2>5. run'.complete => mails'[s] > 0 \/ s \in run'.unnotified
        BY <1>0, <1>3, <1>5, <1>6, <2>2
  <2>6. Noticed(s)'
    <3>1. PICK i \in run.orphans : i.sub = s /\ SeenRight(i)
          BY <2>1 DEF Noticed
    <3>2. i.notified => mails'[s] > 0
          BY <1>0, <1>3, <3>1 DEF SeenRight
    <3>3. QED BY <1>1, <1>2, <2>3, <3>1, <3>2 DEF Noticed, SeenRight
  <2>7. PageSees(s)' /\ ItemSees(s)'
        BY <1>1 DEF PageSees, ItemSees, Walked, AtAnItem
  <2>8. QED BY <2>3, <2>4, <2>5, <2>6, <2>7 DEF Tracked, Found, Reported
<1>7. QED BY <1>1, <1>2, <1>6, WalkTracked

LEMMA MarkNotifiedTracked ==
    ASSUME Typed, RowsInv, OrphansInv, MarkNotified PROVE OrphansInv'
<1>0. run \in RunSet /\ run.pc = "notified" /\ Walked
      BY RunType DEF Typed, MarkNotified, RowsInv
<1>1. PICK t \in run.tell :
          run' = [run EXCEPT !.tell = @ \ {t},
                             !.pc = IF run.tell = {t} THEN "over" ELSE @,
                             !.complete = (run.tell = {t})]
      BY DEF MarkNotified
<1>2. /\ run'.pc \in {"over", "notified"} /\ run'.page = {}
      /\ run'.failed = run.failed /\ run'.dry = run.dry
      BY <1>0, <1>1 DEF RunSet, Walked
<1>3. UNCHANGED <<outside, touched, orphaned, mails>>
      BY DEF MarkNotified
<1>4. ASSUME NEW s \in Subs, Tracked(s) PROVE Tracked(s)'
  <2>1. s \in orphaned' /\ mails'[s] > 0
        BY <1>0, <1>3, <1>4 DEF Tracked, Reported
  <2>2. PageSees(s)' /\ ItemSees(s)' /\ Found(s)'
        BY <1>2 DEF PageSees, ItemSees, Found, AtAnItem
  <2>3. QED BY <2>1, <2>2 DEF Tracked, Reported
<1>5. QED BY <1>2, <1>3, <1>4, WalkTracked

LEMMA StepOrphans ==
    Typed /\ Told /\ RowsInv /\ OrphansInv /\ [Next]_vars => OrphansInv'
<1> SUFFICES ASSUME Typed, Told, RowsInv, OrphansInv, [Next]_vars
             PROVE  OrphansInv'
    OBVIOUS
<1>1. ASSUME NEW s \in Subs, Ends(s) PROVE OrphansInv'
      BY <1>1, OutsideTracked DEF Ends
<1>2. ASSUME NEW c \in Customers, Webhook(c) PROVE OrphansInv'
      BY <1>2, OutsideTracked DEF Webhook
<1>3. ASSUME NEW c \in Customers, AccountChanges(c) PROVE OrphansInv'
      BY <1>3, OutsideTracked DEF AccountChanges
<1>4. ASSUME NEW dry, NEW notifier, Start(dry, notifier) PROVE OrphansInv'
  <2>1. /\ run'.pc = "next" /\ run'.page = {} /\ run'.unlisted = Subs
        /\ run'.complete = FALSE
        BY <1>4 DEF Start, NoRun
  <2>2. QED BY <2>1 DEF OrphansInv, Tracked, PageSees, ItemSees, Found,
                        Reported, Done, AtAnItem
<1>5. CASE Die
  <2>1. run'.pc = "over" /\ run'.page = {} /\ run'.complete = FALSE
        BY <1>5 DEF Die, NoRun
  <2>2. QED BY <2>1 DEF OrphansInv, Tracked, PageSees, ItemSees, Found,
                        Reported, AtAnItem
<1>6. CASE UNCHANGED vars
  <2>1. \A s \in Subs : Tracked(s) => Tracked(s)'
        BY <1>6, QuietTracked DEF vars, stripe
  <2>2. QED BY <1>6, <2>1 DEF vars, outside, OrphansInv, Lost
<1>7. QED
  BY <1>1, <1>2, <1>3, <1>4, <1>5, <1>6, ListPageTracked, TakeTracked,
     AskDirectoryTracked, MarkOrphanTracked, RepairTracked, FailOneTracked,
     NotifyTracked, MarkNotifiedTracked DEF Next, Proceed

\* Whatever fails, whatever the pages: the safety that ToldInTheEnd rests on.
THEOREM NoOrphanPassedOver == Spec => []EveryOrphanReported
<1>1. Init => OrphansInv
      BY DEF Init, NoRun, OrphansInv, Tracked, PageSees, ItemSees, Found,
             Reported, AtAnItem
<1>2. OrphansInv => EveryOrphanReported
      BY DEF OrphansInv, EveryOrphanReported, Tracked, Reported
<1>3. QED BY InitTyped, StepTyped, InitTold, StepTold, InitRows, StepRows,
             StepOrphans, <1>1, <1>2, PTL DEF Spec

---------------------------------------------------------------------------
(* The lock *)

\* The run's transaction locks one customer's row at a time, and none outside
\* the repair of that customer: neither the other customers' webhooks nor the
\* calls to Stripe's directory and metadata ever wait on it, and whatever
\* fails lets go of it (jobs/reconcile.py, _reconcile_one's rollback).
OneRowLocked ==
    locked # {} => run.pc = "write" /\ locked = {Owner[run.item.sub]}

\* Whatever fails, and wherever the run dies.
THEOREM OneLockAtATime == Spec => []OneRowLocked
<1>1. Init => OneRowLocked
      BY DEF Init, OneRowLocked
<1>2. Typed /\ OneRowLocked /\ [Next]_vars => OneRowLocked'
  <2> SUFFICES ASSUME Typed, OneRowLocked, [Next]_vars PROVE OneRowLocked'
      OBVIOUS
  <2>1. CASE UNCHANGED <<run, locked>>
        BY <2>1 DEF OneRowLocked
  <2>2. CASE run.pc # "write" /\ locked' = locked
        BY <2>2 DEF OneRowLocked
  <2>3. CASE locked' = {}
        BY <2>3 DEF OneRowLocked
  <2>4. CASE Lock
    <3>1. run'.pc = "write" /\ run'.item = run.item /\ locked = {}
          BY <2>4, RunType DEF Lock, Typed, RunSet, OneRowLocked
    <3>2. locked' \subseteq {Owner[run'.item.sub]}
          BY <2>4, <3>1 DEF Lock
    <3>3. QED BY <3>1, <3>2 DEF OneRowLocked
  <2>5. QED BY <2>1, <2>2, <2>3, <2>4 DEF Next, Proceed, vars, Ends, Webhook,
       AccountChanges, Changes, Start, ListPage, Take, AskDirectory,
       MarkOrphan, ClearMarks, Write, WalkEnds, Send, MarkNotified, FailOne,
       SendFails, Die
<1>3. QED BY InitTyped, StepTyped, <1>1, <1>2, PTL DEF Spec
=============================================================================
