---------------------------- MODULE MCErasure ----------------------------
(* Instances of Erasure for TLC. *)
EXTENDS Erasure, TLC

CONSTANTS p1, p2

Pair    == {p1, p2}
Every   == Stores
NoAnalytics == {"minio", "redis", "postgres"}

At(holds) == [slow |-> FALSE, late |-> FALSE, inFlight |-> FALSE, crashes |-> 0, holds |-> holds]

Unheld   == {[At({}) EXCEPT !.slow = b, !.crashes = 1] : b \in BOOLEAN}
Anything == {[At({"canonical", "supplied"}) EXCEPT !.crashes = 1],
             [At({}) EXCEPT !.late = TRUE, !.inFlight = TRUE]}
OneTurn  == {[At({}) EXCEPT !.crashes = 1, !.inFlight = TRUE]}
ByHandle == {At({"handle"})}

Interchangeable == Permutations(Passes)
==========================================================================
