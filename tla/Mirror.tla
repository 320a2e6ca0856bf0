------------------------------- MODULE Mirror -------------------------------
(***************************************************************************)
(* What app/services/subscriptions.py promises about a subscription row:   *)
(* it applies no deltas, it writes down what Stripe said.  `hist` is every *)
(* state Stripe has been in, oldest first; the row always shows the        *)
(* projection of one of them, and never goes back to an older one.         *)
(***************************************************************************)
EXTENDS Plans, Sequences

VARIABLES
    hist,      \* Stripe's states so far; the last one is true now
    shown,     \* index in hist of the state the row shows
    mirror     \* the mirrored columns of the row

mirrorVars == <<hist, shown, mirror>>

MirrorInit ==
    /\ hist \in {<<r>> : r \in RemoteOrNone}
    /\ shown = 1
    /\ mirror = Project(hist[1])

\* Stripe's state changes; the row lags.
Change ==
    /\ \E r \in RemoteOrNone : hist' = Append(hist, r)
    /\ UNCHANGED <<shown, mirror>>

\* The row moves to a state no older than the one it shows.
CatchUp ==
    /\ \E v \in shown..Len(hist) :
          /\ shown' = v
          /\ mirror' = Project(hist[v])
    /\ UNCHANGED hist

MirrorNext == Change \/ CatchUp

MirrorSpec == MirrorInit /\ [][MirrorNext]_mirrorVars
=============================================================================
