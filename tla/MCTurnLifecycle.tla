-------------------------- MODULE MCTurnLifecycle --------------------------
\* Small instances of TurnLifecycle for TLC.
EXTENDS TurnLifecycle, TLC

CONSTANTS r1, r2, r3, t1, k1

\* Three requests on one thread; the first two carry the same key.
OneThread == [r \in {r1, r2, r3} |-> t1]
SharedKey == r1 :> k1 @@ r2 :> k1 @@ r3 :> NoKey
SameKey == Permutations({r1, r2})
Leases == BOOLEAN \X {FALSE} \X {1}

\* Two requests with one key on one thread: a request and its retry.
PairThread == [r \in {r1, r2} |-> t1]
PairKey == [r \in {r1, r2} |-> k1]

\* Leases that lapse, with sub-agents at work; healthy ones, across midnight.
Adversities == {<<TRUE, TRUE, 1>>, <<FALSE, FALSE, 2>>}
=============================================================================
