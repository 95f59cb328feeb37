---------------------------- MODULE MCRankEngine ----------------------------
(* Instances of RankEngine small enough for TLC.                            *)
EXTENDS RankRefinement, RankEngineDocs, TLC

CONSTANTS n1, n2, k1, k2, k3

\* No action reads call or ret; only the type invariant and the action properties
\* mention them, and TLC checks the latter on every step, new state or not.
RankView == <<rankVars, limits, now>>

Exp(policy, extra) == [policy |-> policy, extra |-> extra]
Call(keys, nss) ==
    [keys |-> keys, array |-> 1, string |-> 1, nss |-> nss, mb |-> 0]
Lim(keys, nss) ==
    [maxKeys |-> keys, maxArray |-> 1, maxString |-> 1, maxNs |-> nss, maxMem |-> 0]

\* Cells of two bits.
LowestCell == -2

\* The keys are alike; no run of this module checks liveness.
RankSymmetry == Permutations(NS) \cup Permutations(Key)

\* Three keys, ties among two scores, a TTL that ends some of them.
OrderLimits == Lim(3, 1)
OrderCalls == {Call(3, 0)}
OrderExpirations == {Exp("MapCount", 2), Exp("TTL", 1)}

\* Two leaderboards, limits raised and lowered, every policy.
LifeLimits == Lim(1, 1)
LifeExpirations == {Exp("Persistent", 0), Exp("MapEnd", 0), Exp("MapCount", 2), Exp("TTL", 1)}
LifeCalls == {Call(1, 1), Call(2, 2)}
=============================================================================
