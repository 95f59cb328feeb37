----------------------------- MODULE MCKVStore -----------------------------
(* Instances of KVStore small enough for TLC.  The prefix of a definition   *)
(* names the runs that use it.                                              *)
EXTENDS KVStoreDocs, KVRefinement, TLC

CONSTANTS n1, n2, k1, k2

\* These instances are ones the theorems about the memory account speak of.
ASSUME QuotasFitHere == QuotasFit(8)

\* No action reads call or ret; only the type invariant and the action properties
\* mention them, and TLC checks the latter on every step, new state or not.
StoreView == <<kvVars, limits, now>>

Exp(policy, extra) == [policy |-> policy, extra |-> extra]
Call(keys, array, string, nss, mb) ==
    [keys |-> keys, array |-> array, string |-> string, nss |-> nss, mb |-> mb]
Lim(keys, array, string, nss, mem) ==
    [maxKeys |-> keys, maxArray |-> array, maxString |-> string,
     maxNs |-> nss, maxMem |-> mem]

\* The keys are alike, and so are the namespaces; no run of this module checks
\* liveness.
StoreSymmetry == Permutations(NS) \cup Permutations(Key)

\* Cells of two bits.
LowestCell == -2

\* Payloads against a quota of 4 bytes in a 4-bit size_t, lowered to 2, raised
\* again, and set to 8 megabytes, which are 0 bytes modulo the size_t.
DataLimits == Lim(2, 2, 3, 1, 4)
DataCells == {1}
DataExpirations == {Exp("Persistent", 0), Exp("TTL", 1)}
DataCalls == {Call(2, 1, 1, 0, 1), Call(2, 2, 3, 0, 2), Call(2, 2, 3, 0, 8)}

\* Two namespaces against limits of one namespace and one key, raised to two
\* and lowered again.
LimitLimits == Lim(1, 1, 1, 1, 4)
LimitExpirations == {Exp("Persistent", 0), Exp("TTL", 1)}
LimitCalls == {Call(1, 1, 1, 1, 0), Call(2, 1, 1, 2, 0)}

\* The disagreements with the documents: one namespace of two keys, and a quota
\* call of 8 megabytes that fills a 4-bit size_t.
DocCalls == {Call(2, 2, 3, 0, 8)}
=============================================================================
