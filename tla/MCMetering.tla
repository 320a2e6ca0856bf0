------------------------------ MODULE MCMetering ------------------------------
(* An instance of Metering for TLC. *)
EXTENDS Metering, TLC

WorkerSymmetry == Permutations(Workers)

\* messages_per_day, scaled down.
MCCap == [free |-> 1, plus |-> 2, pro |-> 3, enterprise |-> Unlimited]
=============================================================================
