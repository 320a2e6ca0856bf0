------------------------------- MODULE MCDunning -------------------------------
(* An instance of Dunning for TLC. *)
EXTENDS Dunning

\* Back by a grace window, not at all, and on by less than one, one and more.
Moves == {-3, 0, 1, 3, 4}
=============================================================================
