------------------------------ MODULE MemStore ------------------------------
(***************************************************************************)
(* MemStoreManager whole: the key-value half and the rank half in one      *)
(* object.  They share the limits, the clock and the calls that concern    *)
(* both; every other method belongs to one half and leaves the other as it *)
(* is.                                                                     *)
(***************************************************************************)
EXTENDS KVStore, RankEngine

memVars == <<kvVars, rankVars, limits, now>>
memSpecVars == <<memVars, call, ret>>

MemInit == KVInit /\ RankInit

-----------------------------------------------------------------------------
(* The methods of one half.                                                *)

KVCall ==
    \/ \E ns \in NS, k \in Key : Write(ns, k) \/ Get(ns, k) \/ DeleteKey(ns, k)
    \/ \E ns \in NS : Enumerate(ns) \/ ClearNamespace(ns)

OnKeys(method) == method /\ UNCHANGED rankVars
OnRanks(method) == method /\ UNCHANGED kvVars

(* The methods that concern both. *)

SweepBoth == SweepMapEnd /\ RankSweep

ClearBoth == ClearAll /\ RankClearAll

\* What GetMemoryStats hands back: bytes used, quota, namespaces, leaderboards.
MemoryStats == <<used, limits.maxMem, Cardinality(namespaces), Cardinality(boards)>>

GetMemoryStats ==
    /\ Called("GetMemoryStats")
    /\ ret' = Succeeded
    /\ UNCHANGED memVars

Configure(a) == OnKeys(SetLimits(a))

\* The steady clock moves for both.
Wait == OnKeys(Tick)

\* The process ends on a broken heap: both halves start from nothing.
Abort == HeapAbort /\ RankClearAll

\* The library is loaded: g_MemStore is constructed, with nothing before it.
Construct ==
    /\ Called("MemStoreManager")
    /\ namespaces = {} /\ boards = {}
    /\ used' = 0 /\ sequence' = 0
    /\ heapBroken' = FALSE
    /\ limits' = InitLimits
    /\ ret' = Failed
    /\ UNCHANGED <<store, boards, ranks, now>>

MemNext ==
    \/ OnKeys(KVCall)
    \/ OnRanks(RankCall)
    \/ \E a \in LimitArgs : Configure(a)
    \/ SweepBoth
    \/ ClearBoth
    \/ GetMemoryStats
    \/ Wait
    \/ Abort
    \/ Construct

MemSpec == MemInit /\ [][MemNext]_memSpecVars
=============================================================================
