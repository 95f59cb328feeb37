--------------------------- MODULE MemStoreProofs ---------------------------
(***************************************************************************)
(* The composition keeps what each half keeps alone: no call of one half,  *)
(* and none of the calls that concern both, breaks an invariant of the     *)
(* other.                                                                  *)
(***************************************************************************)
EXTENDS MemStore, KVStepProofs, RankProofs

MemInv == KVInv /\ RankInv

\* What the leaderboards need of a step of the other half.
LEMMA RanksKept ==
    ASSUME RankInv, KVInv', UNCHANGED rankVars
    PROVE  RankInv'
BY BoardsKept DEF RankInv, KVInv, RestTypeOK

\* What the entries need of a step of the leaderboards.
LEMMA KeysKept ==
    ASSUME KVInv, RankInv', UNCHANGED <<kvVars, now>>
    PROVE  KVInv'
<1>1. /\ namespaces' = namespaces /\ entries' = entries /\ caches' = caches
      /\ used' = used /\ heapBroken' = heapBroken /\ now' = now
  BY DEF kvVars
<1>2. now \in Nat BY DEF KVInv, RestTypeOK, EngineTypeOK
<1>3. StoreInv' BY <1>1, <1>2, StoreKept DEF store, KVInv
<1>4. RestTypeOK' BY <1>1 DEF KVInv, RestTypeOK, RankInv
<1> QED BY <1>3, <1>4 DEF KVInv

\* A method of the leaderboards leaves the limits and the clock as they are.
LEMMA RankCallKeepsClock == RankCall => UNCHANGED <<limits, now>>
<1>1. ASSUME NEW ns \in NS, NEW k \in Key, RankWrite(ns, k)
      PROVE  UNCHANGED <<limits, now>>
  <2>1. ASSUME NEW score, NEW ex, NEW result, RankStore(ns, k, score, ex, result)
        PROVE  UNCHANGED <<limits, now>>
    BY <2>1 DEF RankStore
  <2>2. ASSUME NEW score, NEW ex, RankSet(ns, k, score, ex)
        PROVE  UNCHANGED <<limits, now>>
    BY <2>1, <2>2 DEF RankSet
  <2>3. ASSUME NEW delta, NEW ex, RankInc(ns, k, delta, ex)
        PROVE  UNCHANGED <<limits, now>>
    BY <2>1, <2>3 DEF RankInc
  <2> QED BY <1>1, <2>2, <2>3 DEF RankWrite
<1>2. \A ns \in NS, k \in Key : RankDelete(ns, k) => UNCHANGED <<limits, now>>
  BY DEF RankDelete
<1>3. \A ns \in NS : RankClear(ns) => UNCHANGED <<limits, now>>
  BY DEF RankClear
<1>4. \A ns \in NS : RankQuery(ns) => UNCHANGED <<limits, now>>
  BY DEF RankQuery, RankGetScore, RankExists, RankLookup, RankGetPosition, RankGetTop,
         RankGetRange, RankGetCount
<1> QED BY <1>1, <1>2, <1>3, <1>4 DEF RankCall

\* An object built where there was none has nothing and breaks nothing.
LEMMA ConstructKeeps ==
    ASSUME MemInv, Construct
    PROVE  MemInv'
<1>1. /\ namespaces' = namespaces /\ entries' = entries /\ caches' = caches
      /\ boards' = boards /\ ranks' = ranks /\ now' = now
      /\ boards = {} /\ used' = 0 /\ sequence' = 0 /\ heapBroken' = FALSE
      /\ limits' = InitLimits /\ ret' = Failed /\ call' \in Method
  BY DEF Construct, Called, Method, store
<1>2. now \in Nat BY DEF MemInv, RankInv, EngineTypeOK
<1>3. StoreInv' BY <1>1, <1>2, StoreKept DEF MemInv, KVInv, store
<1>4. EngineTypeOK'
  BY <1>1, <1>2, Answers, EngineAssumption DEF EngineTypeOK, Answer
<1>5. 0 \in 0..(SizeMod - 1) BY EngineAssumption
<1>6. RestTypeOK' BY <1>1, <1>4, <1>5 DEF RestTypeOK
<1>7. BoardInv'
  <2>1. \A ns \in NS : RankKeys(ns) = {} BY <1>1 DEF MemInv, RankInv, BoardInv, NoEmptyBoard
  <2>2. \A ns \in NS : RankKeys(ns)' = RankKeys(ns) BY <1>1 DEF RankKeys, Ranked
  <2>3. NoEmptyBoard' BY <1>1, <2>1, <2>2 DEF NoEmptyBoard
  <2>4. SequencesDistinct' BY <2>1, <2>2 DEF SequencesDistinct
  <2>5. BoardTypeOK' BY <1>1 DEF MemInv, RankInv, BoardInv, BoardTypeOK
  <2> QED BY <2>3, <2>4, <2>5 DEF BoardInv
<1> QED BY <1>3, <1>4, <1>6, <1>7 DEF MemInv, KVInv, RankInv

LEMMA MemNextKeeps ==
    ASSUME MemInv, [MemNext]_memSpecVars
    PROVE  MemInv'
<1> USE DEF MemInv
<1>1. CASE OnKeys(KVCall)
  <2>1. KVNext BY <1>1 DEF OnKeys, KVCall, KVNext
  <2>2. KVInv' BY <2>1, NextKeeps
  <2> QED BY <1>1, <2>2, RanksKept DEF OnKeys
<1>2. CASE OnRanks(RankCall)
  <2>1. RankNext BY <1>2 DEF OnRanks, RankNext
  <2>2. RankInv' BY <2>1, RankNextKeeps
  <2>3. UNCHANGED <<kvVars, now>> BY <1>2, RankCallKeepsClock DEF OnRanks
  <2> QED BY <2>2, <2>3, KeysKept
<1>3. ASSUME NEW a \in LimitArgs, Configure(a) PROVE MemInv'
  <2>1. KVInv' BY <1>3, SetLimitsKeeps DEF Configure, OnKeys
  <2> QED BY <1>3, <2>1, RanksKept DEF Configure, OnKeys
<1>4. CASE SweepBoth
  <2>1. KVInv' BY <1>4, SweepKeeps DEF SweepBoth
  <2>2. BoardInv' BY <1>4, RankSweepKeeps DEF SweepBoth, RankInv
  <2> QED BY <2>1, <2>2 DEF KVInv, RestTypeOK, RankInv
<1>5. CASE ClearBoth
  <2>1. KVInv' BY <1>5, ClearAllKeeps DEF ClearBoth
  <2>2. BoardInv' BY <1>5, EmptyBoards DEF ClearBoth, RankClearAll
  <2> QED BY <2>1, <2>2 DEF KVInv, RestTypeOK, RankInv
<1>6. CASE GetMemoryStats
  <2>1. /\ call' \in Method /\ ret' \in Answer
        /\ UNCHANGED <<store, used, limits, now, heapBroken>>
    BY <1>6, Answers DEF GetMemoryStats, Called, Method, memVars, kvVars, store
  <2>2. KVInv' BY <2>1, OnlyAnswerKeeps
  <2> QED BY <1>6, <2>2, RanksKept DEF GetMemoryStats, memVars
<1>7. CASE Wait
  <2>1. KVInv' BY <1>7, TickKeeps DEF Wait, OnKeys
  <2> QED BY <1>7, <2>1, RanksKept DEF Wait, OnKeys
<1>8. CASE Abort
  <2>1. KVInv' BY <1>8, HeapAbortKeeps DEF Abort
  <2>2. BoardInv' BY <1>8, EmptyBoards DEF Abort, RankClearAll
  <2> QED BY <2>1, <2>2 DEF KVInv, RestTypeOK, RankInv
<1>9. CASE Construct BY <1>9, ConstructKeeps
<1>10. CASE UNCHANGED memSpecVars
  <2>1. UNCHANGED kvSpecVars BY <1>10 DEF memSpecVars, memVars, kvSpecVars
  <2>2. KVInv' BY <2>1, NextKeeps
  <2> QED BY <1>10, <2>2, RanksKept DEF memSpecVars, memVars
<1> QED
  BY <1>1, <1>2, <1>3, <1>4, <1>5, <1>6, <1>7, <1>8, <1>9, <1>10 DEF MemNext

LEMMA MemInductive == MemSpec => []MemInv
<1>1. MemInit => MemInv
  <2>1. KVInit => KVInv BY InitHolds
  <2>2. RankInit => RankInv BY EmptyBoards, EngineStarts DEF RankInit, RankInv
  <2> QED BY <2>1, <2>2 DEF MemInit, MemInv
<1>2. MemInv /\ [MemNext]_memSpecVars => MemInv' BY MemNextKeeps
<1> QED BY <1>1, <1>2, PTL DEF MemSpec

-----------------------------------------------------------------------------
(* The theorems.                                                           *)

\* In the whole manager, with both halves at work on one clock and one set of
\* limits, no key cache hides a stored value, no empty namespace is left and
\* every entry stays within what its expiry policy allows.
THEOREM StoreSoundInWhole ==
    MemSpec => [](KVTypeOK /\ NoEmptyNamespace /\ CacheOwned /\ CacheComplete
                  /\ MapCountRemains /\ TtlWithinCap)
<1>1. MemInv => /\ KVTypeOK /\ NoEmptyNamespace /\ CacheOwned /\ CacheComplete
                /\ MapCountRemains /\ TtlWithinCap
  BY DEF MemInv, KVInv, StoreInv, StoreTypeOK, RestTypeOK, KVTypeOK, EntriesSound,
         Sound, MapCountRemains, TtlWithinCap
<1> QED BY <1>1, MemInductive, PTL

\* In the whole manager no leaderboard is empty and no two of its entries share
\* a sequence number: neither the calls of the key-value half nor a new object
\* after a detach disturbs the order of the ranks.
THEOREM RanksSoundInWhole ==
    MemSpec => [](RankTypeOK /\ NoEmptyBoard /\ SequencesDistinct)
<1>1. MemInv => RankTypeOK /\ NoEmptyBoard /\ SequencesDistinct
  BY DEF MemInv, RankInv, BoardInv, BoardTypeOK, RankTypeOK
<1> QED BY <1>1, MemInductive, PTL

-----------------------------------------------------------------------------

\* A step of the manager is to each half a step of its own, or nothing.
LEMMA HalfSteps ==
    ASSUME [MemNext]_memSpecVars
    PROVE  /\ KVNext \/ UNCHANGED store
           /\ \/ RankCall \/ UNCHANGED rankVars
              \/ Called("SweepMapEnd") /\ RankSweep
              \/ call' \in {"ClearAll", "HeapAbort"} /\ RankClearAll
              \/ Construct
<1>1. KVNext \/ UNCHANGED store
  BY DEF MemNext, OnKeys, OnRanks, KVCall, KVNext, Configure, SweepBoth, ClearBoth,
         GetMemoryStats, Wait, Abort, Construct, memSpecVars, memVars, kvVars, store
<1>2. SweepBoth => Called("SweepMapEnd") /\ RankSweep
  BY DEF SweepBoth, SweepMapEnd
<1>3. ClearBoth \/ Abort => call' \in {"ClearAll", "HeapAbort"} /\ RankClearAll
  BY DEF ClearBoth, Abort, ClearAll, HeapAbort, Called
<1> QED
  BY <1>1, <1>2, <1>3
  DEF MemNext, OnKeys, OnRanks, Configure, GetMemoryStats, Wait, memSpecVars, memVars

\* In the whole manager, too, a live entry only changes or goes when a call names
\* it, at a flush, or as a map change and its own policy have it: nothing the
\* leaderboards do and nothing that concerns both halves touches it.
THEOREM LiveEntriesKeptInWhole == MemSpec => LiveEntryKept
<1> DEFINE Kept ==
      \A ns \in NS, k \in Key :
          /\ Live(ns, k) => Same(ns, k) \/ AskedFor(ns, k) \/ SweepMapEnd
          /\ Present(ns, k) /\ SweepMapEnd =>
                 OneMapOlder(entries[ns][k], entries'[ns][k])
<1>1. ASSUME MemInv, [MemNext]_memSpecVars PROVE Kept
  BY <1>1, HalfSteps, KeptUnlessAsked, SweepAges DEF MemInv
<1>2. MemInv /\ [MemNext]_memSpecVars => [Kept]_kvSpecVars BY <1>1
<1> QED BY <1>2, MemInductive, PTL DEF MemSpec, LiveEntryKept

\* The same of the scores: no call of the key-value half, no query and no write
\* of another key touches a live score, and one map change does to it what it
\* does to a key of its policy.
THEOREM LiveScoresKeptInWhole == MemSpec => LiveScoreKept
<1> DEFINE sweep == Called("SweepMapEnd") /\ RankSweep
           Kept ==
      \A ns \in NS, k \in Key :
          /\ RankLive(ns, k) => RankSame(ns, k) \/ RankAskedFor(ns, k) \/ sweep
          /\ Ranked(ns, k) /\ sweep => OneMapOlder(ranks[ns][k], ranks'[ns][k])
<1>1. ASSUME MemInv, [MemNext]_memSpecVars, NEW ns \in NS, NEW k \in Key,
             RankLive(ns, k)
      PROVE  RankSame(ns, k) \/ RankAskedFor(ns, k) \/ sweep
  <2>1. BoardInv BY <1>1 DEF MemInv, RankInv
  <2>2. CASE RankCall BY <1>1, <2>1, <2>2, ScoreKeptUnlessAsked
  <2>3. CASE UNCHANGED ranks BY <2>3 DEF RankSame
  <2>4. CASE call' \in {"ClearAll", "HeapAbort"} /\ RankClearAll
    BY <2>4 DEF RankAskedFor
  <2> QED BY <1>1, <2>2, <2>3, <2>4, HalfSteps DEF rankVars, Construct
<1>2. ASSUME MemInv, NEW ns \in NS, NEW k \in Key, Ranked(ns, k), RankSweep
      PROVE  OneMapOlder(ranks[ns][k], ranks'[ns][k])
  BY <1>2, RankSweepAges DEF MemInv, RankInv
<1>3. MemInv /\ [MemNext]_memSpecVars => [Kept]_rankSpecVars BY <1>1, <1>2
<1> QED BY <1>3, MemInductive, PTL DEF MemSpec, LiveScoreKept

-----------------------------------------------------------------------------
(* What a call that fails, and a call that only asks, leave alone.         *)

LEMMA RanksUntouched == UNCHANGED rankVars => SparesScores
BY DEF rankVars, SparesScores, RankSame

\* A write of the leaderboards that fails.
LEMMA RankRefusalSpares ==
    ASSUME NEW ns \in NS,
           \/ \E k \in Key : RankWrite(ns, k) \/ RankDelete(ns, k)
           \/ RankClear(ns),
           ~ret'.ok
    PROVE  SparesScores
<1>1. ASSUME UNCHANGED ranks PROVE SparesScores
  BY <1>1 DEF SparesScores, RankSame
<1>2. /\ Succeeded.ok = TRUE
      /\ \A num : Ret(TRUE, num, <<>>).ok = TRUE
  BY DEF Succeeded, Ret
<1>3. ASSUME NEW k \in Key, NEW ex, NEW score, RankSet(ns, k, score, ex)
      PROVE  UNCHANGED ranks
  BY <1>2, <1>3 DEF RankSet, RankStore, RankFail
<1>4. ASSUME NEW k \in Key, NEW ex, NEW delta, RankInc(ns, k, delta, ex)
      PROVE  UNCHANGED ranks
  BY <1>2, <1>4 DEF RankInc, RankStore, RankFail
<1>5. ASSUME NEW k \in Key, RankWrite(ns, k) PROVE UNCHANGED ranks
  BY <1>3, <1>4, <1>5 DEF RankWrite
<1>6. ASSUME NEW k \in Key, RankDelete(ns, k) PROVE UNCHANGED ranks
  BY <1>2, <1>6 DEF RankDelete, RankFail
<1>7. CASE RankClear(ns) BY <1>1, <1>2, <1>7 DEF RankClear, RankFail
<1> QED BY <1>1, <1>5, <1>6, <1>7

\* What a refused write puts in the place of a live entry is that entry.
LEMMA PutCurrentSpares ==
    ASSUME StoreInv, NEW ns \in NS, NEW k \in Key, Put(ns, k, Current(ns, k))
    PROVE  SparesLive
<1>1. \A m \in NS, j \in Key :
          entries'[m][j] = IF m = ns /\ j = k THEN Current(ns, k) ELSE entries[m][j]
  BY DEF Put, StoreInv, StoreTypeOK
<1> QED BY <1>1 DEF SparesLive, Same, Live, Current

\* A write of the store that fails.
LEMMA RefusalSpares ==
    ASSUME KVInv, NEW ns \in NS,
           \/ \E k \in Key : Write(ns, k) \/ DeleteKey(ns, k)
           \/ ClearNamespace(ns),
           ~ret'.ok
    PROVE  SparesLive
<1>1. /\ Succeeded.ok = TRUE
      /\ \A num : Ret(TRUE, num, <<>>).ok = TRUE
  BY DEF Succeeded, Ret
<1>2. ASSUME Fail PROVE SparesLive BY <1>2, StoreSpared DEF Fail
<1>3. ASSUME NEW k \in Key, NEW type, NEW n, NEW ex, NEW result, result.ok = TRUE,
             SetScalar(ns, k, type, n, ex, result)
      PROVE  Fail
  BY <1>3 DEF SetScalar
<1>4. ASSUME NEW k \in Key, NEW type, NEW n, NEW ex, SetDynamic(ns, k, type, n, ex)
      PROVE  SparesLive
  BY <1>1, <1>2, <1>4, PutCurrentSpares DEF SetDynamic, KVInv
<1>5. ASSUME NEW k \in Key, NEW type, NEW delta, NEW sum, NEW ex,
             Increment(ns, k, type, delta, sum, ex)
      PROVE  Fail
  BY <1>1, <1>3, <1>5 DEF Increment
<1>6. ASSUME NEW k \in Key, Write(ns, k) PROVE SparesLive
  BY <1>1, <1>2, <1>3, <1>4, <1>5, <1>6
     DEF Write, SetInt, SetFloat, SetString, SetArray, IncInt, IncFloat, SetExpire
<1>7. ASSUME NEW k \in Key, DeleteKey(ns, k) PROVE SparesLive
  BY <1>1, <1>2, <1>7 DEF DeleteKey
<1>8. CASE ClearNamespace(ns) BY <1>1, <1>2, <1>8 DEF ClearNamespace
<1> QED BY <1>6, <1>7, <1>8
=============================================================================
