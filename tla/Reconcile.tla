------------------------------ MODULE Reconcile ------------------------------
(***************************************************************************)
(* jobs/reconcile.py: the nightly walk over every subscription in Stripe.  *)
(* Rows that disagree are re-synced, one transaction per customer;         *)
(* subscriptions that can still charge a deleted account are marked in     *)
(* Stripe's metadata and told about in one email.                          *)
(*                                                                         *)
(* One run at a time, of which any call may fail and any may be the last.  *)
(* Stripe, the webhooks and the accounts move while it runs.  A page of    *)
(* subscriptions is a snapshot from the time it was listed.  A             *)
(* subscription runs and grants access, or has ended; a row is absent,     *)
(* free or paid.  How a sync and other writers of the row get along is     *)
(* module SubscriptionSync's subject.                                      *)
(***************************************************************************)
EXTENDS Naturals, FiniteSets

CONSTANTS
    Subs,           \* Stripe's subscriptions
    Customers,      \* Stripe's customers
    Owner,          \* the customer of each subscription
    Foreign,        \* customers of another application on the account
    Nameless,       \* customers of ours that no user id is found on
    PageSize,       \* how many subscriptions Stripe lists at a time
    MaxChanges,     \* bound on what the outside world does
    MaxFailures     \* bound on failing calls and dying runs

ASSUME OwnerAssumption   == Owner \in [Subs -> Customers]
ASSUME ForeignAssumption ==
    Foreign \subseteq Customers /\ Nameless \subseteq Customers
ASSUME PageAssumption    == PageSize \in Nat \ {0}
ASSUME BoundsAssumption  == MaxChanges \in Nat /\ MaxFailures \in Nat

VARIABLES
    running,    \* the subscriptions that have not ended
    accounts,   \* customers whose Supabase account exists
    canTell,    \* whether the account directory can be asked at all
    row,        \* the mirrored row of each customer
    orphaned,   \* subscriptions marked orphaned_at in Stripe
    notified,   \* ... and orphan_notified_at
    mails,      \* emails about a subscription since its marks were cleared
    touched,    \* customers something happened to since the run began
    changes, failures,
    locked,     \* rows the run's open transaction has locked
    run         \* the run's progress and its report

outside == <<running, accounts, canTell, changes>>
stripe  == <<orphaned, notified>>
vars    == <<outside, row, stripe, mails, touched, failures, locked, run>>

\* The customers that are users of this service, with a row or without.
Users == Customers \ (Foreign \cup Nameless)

SubsOf(c) == {s \in Subs : Owner[s] = c}

\* What the service reads of a subscription when its page is listed.
Listed(s) == [sub |-> s, running |-> s \in running,
              orphaned |-> s \in orphaned, notified |-> s \in notified]

NoItem == [sub |-> CHOOSE s \in Subs : TRUE, running |-> FALSE,
           orphaned |-> FALSE, notified |-> FALSE]

NoRun == [pc |-> "over", complete |-> FALSE, dry |-> FALSE,
          notifier |-> FALSE, unlisted |-> {}, page |-> {}, item |-> NoItem,
          local |-> "absent", orphans |-> {}, tell |-> {}, failed |-> {},
          unnotified |-> {}]

\* Mistaken: Stripe's own word for it is written down.
ShowsRaw(isRunning) == IF isRunning THEN "paid" ELSE "canceled"

Shows(isRunning) == IF isRunning THEN "paid" ELSE "free"

\* The subscriptions a sync of the customer may take for his current one.
CurrentOf(c) ==
    IF SubsOf(c) \cap running # {} THEN SubsOf(c) \cap running ELSE SubsOf(c)

Init ==
    /\ running \in SUBSET Subs
    /\ accounts \in SUBSET Users
    /\ canTell \in BOOLEAN
    /\ row \in [Customers -> {"absent", "free", "paid"}]
    /\ \A c \in Customers \ Users : row[c] = "absent"
    /\ orphaned = {} /\ notified = {}
    /\ mails = [s \in Subs |-> 0]
    /\ touched = {} /\ locked = {}
    /\ changes = 0 /\ failures = 0
    /\ run = NoRun

---------------------------------------------------------------------------
(* The world outside *)

Changes(c) ==
    /\ changes < MaxChanges
    /\ changes' = changes + 1
    /\ touched' = touched \cup {c}
    /\ UNCHANGED <<canTell, stripe, mails, failures, locked, run>>

\* A subscription ends, and the webhook about it may be lost.
Ends(s) ==
    /\ s \in running
    /\ running' = running \ {s}
    /\ Changes(Owner[s])
    /\ UNCHANGED <<accounts, row>>

\* A webhook's sync, which waits for the row's lock.
Webhook(c) ==
    /\ c \in Users /\ c \notin locked
    /\ row[c] # "absent" \/ CurrentOf(c) \cap orphaned = {}
    /\ SubsOf(c) # {}
    /\ row' = [row EXCEPT ![c] = Shows(SubsOf(c) \cap running # {})]
    /\ Changes(c)
    /\ UNCHANGED <<running, accounts>>

AccountChanges(c) ==
    /\ c \in Users
    /\ accounts' = IF c \in accounts THEN accounts \ {c} ELSE accounts \cup {c}
    /\ Changes(c)
    /\ UNCHANGED <<running, row>>

---------------------------------------------------------------------------
(* The run *)

Fails == failures < MaxFailures /\ failures' = failures + 1

Start(dry, notifier) ==
    /\ run.pc = "over"
    /\ run' = [NoRun EXCEPT !.pc = "next", !.dry = dry,
                            !.notifier = notifier, !.unlisted = Subs]
    /\ touched' = {}
    /\ UNCHANGED <<outside, row, stripe, mails, failures, locked>>

ListPage ==
    /\ run.pc = "next" /\ run.page = {}
    /\ \E P \in SUBSET run.unlisted \ {{}} :
          /\ Cardinality(P) <= PageSize
          /\ Cardinality(P) = PageSize \/ P = run.unlisted
          /\ run' = [run EXCEPT !.page = {Listed(s) : s \in P},
                                !.unlisted = @ \ P]
    /\ UNCHANGED <<outside, row, stripe, mails, touched, failures, locked>>

\* _reconcile_one reads the row.  Another application's is ignored.
Take ==
    /\ run.pc = "next"
    /\ \E i \in run.page :
          LET c == Owner[i.sub]
          IN  run' = [run EXCEPT
                 !.page = @ \ {i},
                 !.item = i, !.local = row[c],
                 !.pc = IF c \in Foreign /\ row[c] = "absent"
                        THEN "next" ELSE "account"]
    /\ UNCHANGED <<outside, row, stripe, mails, touched, failures, locked>>

\* The comparison, after the account was found to be there or unknown.
Compared ==
    IF \/ run.dry
       \/ run.local = Shows(run.item.running)
    THEN "next" ELSE "sync"

Marked(i) == i.orphaned \/ i.notified

\* The account directory's answer, and the cases that need no further call.
\* Who has no user id, in the row or in Stripe, cannot be asked about.
AskDirectory ==
    LET i     == run.item
        known == canTell /\ Owner[i.sub] \notin Nameless
        gone  == known /\ Owner[i.sub] \notin accounts
        next  == IF gone
                 THEN IF i.running /\ ~i.orphaned /\ ~run.dry
                      THEN "mark" ELSE "next"
                 ELSE IF known /\ Marked(i) /\ ~run.dry
                      THEN "clear" ELSE Compared
    IN  /\ run.pc = "account"
        /\ run' = [run EXCEPT !.pc = next,
                              !.orphans = IF gone /\ i.running /\ next = "next"
                                          THEN @ \cup {i} ELSE @]
        /\ UNCHANGED <<outside, row, stripe, mails, touched, failures, locked>>

\* _record_orphan: orphaned_at goes into Stripe's metadata.
MarkOrphan ==
    /\ run.pc = "mark"
    /\ orphaned' = orphaned \cup {run.item.sub}
    /\ run' = [run EXCEPT !.pc = "next", !.orphans = @ \cup {run.item}]
    /\ UNCHANGED <<outside, row, notified, mails, touched, failures, locked>>

\* Mistaken: only the mark that says orphaned is cleared.
ClearHalf ==
    /\ run.pc = "clear"
    /\ orphaned' = orphaned \ {run.item.sub}
    /\ mails' = [mails EXCEPT ![run.item.sub] = 0]
    /\ run' = [run EXCEPT !.pc = Compared]
    /\ UNCHANGED <<outside, row, notified, touched, failures, locked>>

\* The account is there after all: both marks go.
ClearMarks ==
    /\ run.pc = "clear"
    /\ orphaned' = orphaned \ {run.item.sub}
    /\ notified' = notified \ {run.item.sub}
    /\ mails' = [mails EXCEPT ![run.item.sub] = 0]
    /\ run' = [run EXCEPT !.pc = Compared]
    /\ UNCHANGED <<outside, row, touched, failures, locked>>

\* The sync locks the row, if there is one.
Lock ==
    /\ run.pc = "sync"
    /\ locked' = IF row[Owner[run.item.sub]] = "absent" THEN locked
                 ELSE locked \cup {Owner[run.item.sub]}
    /\ run' = [run EXCEPT !.pc = "write"]
    /\ UNCHANGED <<outside, row, stripe, mails, touched, failures>>

\* Mistaken: an ended subscription is taken at its word.
WriteTheItem ==
    LET c == Owner[run.item.sub]
    IN  /\ run.pc = "write"
        /\ row' = [row EXCEPT ![c] = Shows(run.item.running)]
        /\ locked' = {}
        /\ run' = [run EXCEPT !.pc = "next"]
        /\ UNCHANGED <<outside, stripe, mails, touched, failures>>

\* It asks Stripe for the customer's current subscription, writes that down
\* and commits.  No row is made for a subscription marked orphaned, nor for a
\* customer without a user id.
Write ==
    LET c == Owner[run.item.sub]
    IN  /\ run.pc = "write"
        /\ \E s \in CurrentOf(c) :
              row' = IF row[c] = "absent" /\ (s \in orphaned \/ c \in Nameless)
                     THEN row
                     ELSE [row EXCEPT ![c] = Shows(s \in running)]
        /\ locked' = {}
        /\ run' = [run EXCEPT !.pc = "next"]
        /\ UNCHANGED <<outside, stripe, mails, touched, failures>>

AtAnItem == run.pc \in {"account", "mark", "clear", "sync", "write"}

\* A customer's check or repair raises: rolled back, listed, and on.
FailOne ==
    /\ AtAnItem /\ Fails
    /\ run' = [run EXCEPT !.pc = "next",
                          !.failed = @ \cup {Owner[run.item.sub]}]
    /\ locked' = {}
    /\ UNCHANGED <<outside, row, stripe, mails, touched>>

---------------------------------------------------------------------------
(* _notify *)

Untold == {i.sub : i \in {o \in run.orphans : ~o.notified}}

\* Every page has been walked.  Without a notifier the orphans are left.
WalkEnds ==
    /\ run.pc = "next" /\ run.page = {} /\ run.unlisted = {}
    /\ run' = IF run.dry \/ Untold = {}
              THEN [run EXCEPT !.pc = "over", !.complete = TRUE]
              ELSE IF ~run.notifier
              THEN [run EXCEPT !.pc = "over", !.complete = TRUE,
                               !.unnotified = Untold]
              ELSE [run EXCEPT !.pc = "send"]
    /\ UNCHANGED <<outside, row, stripe, mails, touched, failures, locked>>

Mailed == [s \in Subs |-> IF s \in Untold THEN mails[s] + 1 ELSE mails[s]]

Send ==
    /\ run.pc = "send"
    /\ mails' = Mailed
    /\ run' = [run EXCEPT !.pc = "notified", !.tell = Untold]
    /\ UNCHANGED <<outside, row, stripe, touched, failures, locked>>

\* Mistaken: a send that failed is taken for one that went out.
SendFailsUnnoticed ==
    /\ run.pc = "send" /\ Fails
    /\ run' = [run EXCEPT !.pc = "notified", !.tell = Untold]
    /\ UNCHANGED <<outside, row, stripe, mails, touched, locked>>

\* The send raises.  The message may have gone out all the same.
SendFails ==
    /\ run.pc = "send" /\ Fails
    /\ mails' \in {mails, Mailed}
    /\ run' = [run EXCEPT !.pc = "over", !.complete = TRUE,
                          !.unnotified = Untold]
    /\ UNCHANGED <<outside, row, stripe, touched, locked>>

\* Mistaken: nothing is marked once the message is out.
MarkNobody ==
    /\ run.pc = "notified"
    /\ run' = [run EXCEPT !.pc = "over", !.complete = TRUE, !.tell = {}]
    /\ UNCHANGED <<outside, row, stripe, mails, touched, failures, locked>>

\* The message was accepted; each of its orphans is marked in turn, and a
\* mark that fails is logged.
MarkNotified ==
    /\ run.pc = "notified"
    /\ \E s \in run.tell :
          /\ \/ notified' = notified \cup {s} /\ UNCHANGED failures
             \/ Fails /\ UNCHANGED notified
          /\ run' = [run EXCEPT !.tell = @ \ {s},
                                !.pc = IF run.tell = {s} THEN "over" ELSE @,
                                !.complete = (run.tell = {s})]
    /\ UNCHANGED <<outside, row, orphaned, mails, touched, locked>>

\* The process dies, or a page cannot be listed.
Die ==
    /\ run.pc # "over" /\ Fails
    /\ run' = NoRun
    /\ locked' = {}
    /\ UNCHANGED <<outside, row, stripe, mails, touched>>

Proceed ==
    \/ ListPage \/ Take \/ AskDirectory \/ MarkOrphan \/ ClearMarks
    \/ Lock \/ Write \/ WalkEnds \/ Send \/ MarkNotified

Next ==
    \/ \E s \in Subs : Ends(s)
    \/ \E c \in Customers : Webhook(c) \/ AccountChanges(c)
    \/ Start(TRUE, FALSE)
    \/ \E notifier \in BOOLEAN : Start(FALSE, notifier)
    \/ Proceed
    \/ FailOne \/ SendFails \/ Die

Spec == Init /\ [][Next]_vars

\* A run goes on unless it dies, and there is always another night's, with
\* email configured, between the runs made by hand.
Fairness == WF_vars(Proceed) /\ SF_vars(Start(FALSE, TRUE))

FairSpec == Spec /\ Fairness

---------------------------------------------------------------------------
(* Properties *)

Item == [sub : Subs, running : BOOLEAN, orphaned : BOOLEAN,
         notified : BOOLEAN]

\* Every variable keeps its type.
TypeOK ==
    /\ running \subseteq Subs /\ accounts \subseteq Users
    /\ canTell \in BOOLEAN
    /\ row \in [Customers -> {"absent", "free", "paid"}]
    /\ orphaned \subseteq Subs /\ notified \subseteq Subs
    /\ mails \in [Subs -> Nat]
    /\ touched \subseteq Customers /\ locked \subseteq Customers
    /\ changes \in 0..MaxChanges /\ failures \in 0..MaxFailures
    /\ run \in [pc : {"over", "next", "account", "mark", "clear", "sync",
                      "write", "send", "notified"},
                complete : BOOLEAN, dry : BOOLEAN, notifier : BOOLEAN,
                unlisted : SUBSET Subs, page : SUBSET Item, item : Item \cup {NoItem},
                local : {"absent", "free", "paid"}, orphans : SUBSET Item,
                tell : SUBSET Subs, failed : SUBSET Customers,
                unnotified : SUBSET Subs]

\* "nothing is marked notified that nobody was told" (_notify), whatever
\* fails or dies between the email and the mark, and across restored accounts.
NotifiedMeansTold == \A s \in notified : mails[s] > 0

\* Each orphan is emailed about once; only a failure makes it once more.
ToldOnce == \A s \in Subs : mails[s] <= 1 + failures

\* A run that reached its end leaves every customer's row as Stripe has it,
\* but for those it lists as failed and those that changed under it: one
\* customer's failure costs that customer alone.
DriftRepaired ==
    run.complete /\ ~run.dry /\ canTell
        => \A c \in accounts \ (touched \cup run.failed) :
              SubsOf(c) # {} => row[c] = Shows(SubsOf(c) \cap running # {})

\* An orphan that stays one is told about and marked for good, in the end.
ToldInTheEnd ==
    \A s \in Subs :
        <>[](canTell /\ s \in running /\ Owner[s] \in Users \ accounts)
            => <>[](mails[s] > 0 /\ s \in orphaned /\ s \in notified)
=============================================================================
