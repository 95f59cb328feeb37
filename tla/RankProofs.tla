----------------------------- MODULE RankProofs -----------------------------
(***************************************************************************)
(* Proofs about the rank engine, for every value of the constants: what    *)
(* always holds, from an inductive invariant, the limits every step        *)
(* respects, and the one order the three queries share.                    *)
(***************************************************************************)
EXTENDS RankEngine, EngineProofs, FiniteSetTheorems, SequenceTheorems

BoardTypeOK ==
    /\ boards \subseteq NS
    /\ ranks \in [NS -> [Key -> RankEntry \cup {Absent}]]
    /\ sequence \in Nat

\* What the primitives that change the leaderboards keep.
BoardInv == BoardTypeOK /\ NoEmptyBoard /\ SequencesDistinct

RankInv == BoardInv /\ EngineTypeOK

\* Whatever expiry an entry is given, it keeps its score and its number.
LEMMA RankExpirationSound ==
    ASSUME NEW e \in RankEntry, NEW ex \in Expiration, NEW t \in Nat
    PROVE  /\ WithExpiration(e, ex, t) \in RankEntry
           /\ WithExpiration(e, ex, t).sequence = e.sequence
           /\ WithExpiration(e, ex, t).score = e.score
<1>1. WithExpiration(e, ex, t) \in RankEntry
  BY UntilSound DEF WithExpiration, RankEntry, Expiration
<1>2. /\ WithExpiration(e, ex, t).sequence = e.sequence
      /\ WithExpiration(e, ex, t).score = e.score
  BY DEF WithExpiration, RankEntry
<1> QED BY <1>1, <1>2

LEMMA RankedEntry ==
    ASSUME BoardInv, NEW ns \in NS, NEW k \in Key, Ranked(ns, k)
    PROVE  ranks[ns][k] \in RankEntry
BY DEF BoardInv, BoardTypeOK, Ranked

\* An entry written under the next number: every other number is below it.
LEMMA RankPutKeeps ==
    ASSUME BoardInv, NEW ns \in NS, NEW k \in Key, NEW e \in RankEntry,
           e.sequence = sequence + 1,
           boards' = boards \cup {ns},
           ranks' = [ranks EXCEPT ![ns][k] = e],
           sequence' = sequence + 1
    PROVE  BoardInv'
<1> USE DEF BoardInv
<1>1. \A m \in NS, j \in Key :
          ranks'[m][j] = IF m = ns /\ j = k THEN e ELSE ranks[m][j]
  BY DEF BoardTypeOK
<1>2. e # Absent BY RankMarker
<1>3. \A m \in NS, j \in Key : Ranked(m, j)' <=> Ranked(m, j) \/ (m = ns /\ j = k)
  BY <1>1, <1>2 DEF Ranked
<1>4. BoardTypeOK' BY DEF BoardTypeOK
<1>5. NoEmptyBoard' BY <1>3 DEF NoEmptyBoard, RankKeys
<1>6. SequencesDistinct'
  <2> SUFFICES ASSUME NEW m \in NS, NEW i \in RankKeys(m)', NEW j \in RankKeys(m)'
               PROVE  /\ ranks'[m][j].sequence \in 1..sequence'
                      /\ i # j => ranks'[m][i].sequence # ranks'[m][j].sequence
    BY DEF SequencesDistinct
  <2>1. sequence \in Nat BY DEF BoardTypeOK
  <2>2. \A l \in RankKeys(m)' :
            \/ m = ns /\ l = k /\ ranks'[m][l].sequence = sequence + 1
            \/ /\ ~(m = ns /\ l = k) /\ l \in RankKeys(m)
               /\ ranks'[m][l] = ranks[m][l]
               /\ ranks[m][l].sequence \in 1..sequence
    BY <1>1, <1>3 DEF RankKeys, SequencesDistinct
  <2>3. ranks'[m][j].sequence \in 1..(sequence + 1) BY <2>1, <2>2
  <2>4. ASSUME i # j PROVE ranks'[m][i].sequence # ranks'[m][j].sequence
    <3>1. CASE i \in RankKeys(m) /\ j \in RankKeys(m) /\ ranks'[m][i] = ranks[m][i]
               /\ ranks'[m][j] = ranks[m][j]
      BY <2>4, <3>1 DEF SequencesDistinct
    <3>2. CASE ranks'[m][i].sequence = sequence + 1 /\ ranks'[m][j].sequence \in 1..sequence
      BY <2>1, <3>2
    <3>3. CASE ranks'[m][j].sequence = sequence + 1 /\ ranks'[m][i].sequence \in 1..sequence
      BY <2>1, <3>3
    <3> QED BY <2>2, <2>4, <3>1, <3>2, <3>3
  <2> QED BY <2>3, <2>4
<1> QED BY <1>4, <1>5, <1>6

\* Erasing keys takes the leaderboard with its last one.
LEMMA RankEraseKeeps ==
    ASSUME BoardInv, NEW ns \in NS, NEW gone \in SUBSET Key,
           RankErase(ns, gone), UNCHANGED sequence
    PROVE  BoardInv'
<1> USE DEF BoardInv
<1> DEFINE emptied == RankKeys(ns) \subseteq gone
<1>1. /\ ranks' = [ranks EXCEPT ![ns] =
                      [k \in Key |-> IF k \in gone THEN Absent ELSE @[k]]]
      /\ boards' = IF emptied THEN boards \ {ns} ELSE boards
  BY DEF RankErase
<1>2. \A m \in NS, j \in Key :
          ranks'[m][j] = IF m = ns /\ j \in gone THEN Absent ELSE ranks[m][j]
  BY <1>1 DEF BoardTypeOK
<1>3. \A m \in NS, j \in Key : Ranked(m, j)' <=> Ranked(m, j) /\ ~(m = ns /\ j \in gone)
  BY <1>2 DEF Ranked
<1>4. BoardTypeOK' BY <1>1 DEF BoardTypeOK
<1>5. NoEmptyBoard'
  <2>1. \A m \in NS : RankKeys(m)' = IF m = ns THEN RankKeys(ns) \ gone ELSE RankKeys(m)
    BY <1>3 DEF RankKeys
  <2>2. RankKeys(ns) \ gone = {} <=> emptied OBVIOUS
  <2> QED BY <1>1, <2>1, <2>2 DEF NoEmptyBoard
<1>6. SequencesDistinct'
  <2>1. \A m \in NS : \A j \in RankKeys(m)' : j \in RankKeys(m) /\ ranks'[m][j] = ranks[m][j]
    BY <1>2, <1>3 DEF RankKeys
  <2> QED BY <2>1 DEF SequencesDistinct
<1> QED BY <1>4, <1>5, <1>6

LEMMA RankPurgeKeeps ==
    ASSUME BoardInv, NEW ns \in NS, RankPurge(ns), UNCHANGED sequence
    PROVE  BoardInv'
<1>1. RankKeys(ns) \ RankLiveKeys(ns) \in SUBSET Key BY DEF RankKeys
<1> QED BY <1>1, RankEraseKeeps DEF RankPurge

LEMMA BoardsKept ==
    ASSUME BoardInv, UNCHANGED rankVars
    PROVE  BoardInv'
BY DEF BoardInv, BoardTypeOK, NoEmptyBoard, SequencesDistinct, RankKeys, Ranked, rankVars

\* No leaderboard, at the start and after a flush.
LEMMA EmptyBoards ==
    /\ boards = {} /\ ranks = NoRanks /\ sequence = 0 => BoardInv
    /\ boards' = {} /\ ranks' = NoRanks /\ sequence' = 0 => BoardInv'
BY DEF BoardInv, BoardTypeOK, NoEmptyBoard, SequencesDistinct, RankKeys, Ranked, NoRanks

\* The numbers queries count with.
LEMMA RankKeysFinite ==
    ASSUME NEW ns \in NS
    PROVE  /\ RankKeys(ns) \in SUBSET Key /\ IsFiniteSet(RankKeys(ns))
           /\ Cardinality(RankKeys(ns)) \in Nat
           /\ RankLiveKeys(ns) \in SUBSET RankKeys(ns) /\ IsFiniteSet(RankLiveKeys(ns))
           /\ Cardinality(RankLiveKeys(ns)) \in Nat
<1>1. RankKeys(ns) \in SUBSET Key /\ RankLiveKeys(ns) \in SUBSET RankKeys(ns)
  BY DEF RankKeys, RankLiveKeys, RankLive
<1> QED BY <1>1, EngineAssumption, FS_Subset, FS_CardinalityType

-----------------------------------------------------------------------------
(* Each method keeps the invariant.                                        *)

LEMMA EngineKept ==
    ASSUME EngineTypeOK, UNCHANGED <<limits, now>>, call' \in Method, ret' \in Answer
    PROVE  EngineTypeOK'
BY DEF EngineTypeOK, Answer

LEMMA RankFailKeeps ==
    ASSUME BoardInv, NEW result, RankFail(result), UNCHANGED sequence
    PROVE  BoardInv'
BY BoardsKept DEF RankFail, rankVars

\* RankSet and RankInc of a new key.  The leaderboard made before the key limit
\* is tested existed already when the test refuses: a new one has no keys, and
\* no key limit is 0.
LEMMA RankStoreKeeps ==
    ASSUME RankInv, NEW ns \in NS, NEW k \in Key, NEW score \in Cell,
           NEW ex \in Expiration, NEW result \in Answer,
           call' \in Method, RankStore(ns, k, score, ex, result)
    PROVE  RankInv'
<1> USE DEF RankInv
<1>1. UNCHANGED <<limits, now>> BY DEF RankStore
<1>2. CASE RankFail(Failed) /\ UNCHANGED sequence
  <2>1. BoardInv' BY <1>2, RankFailKeeps
  <2>2. ret' \in Answer BY <1>2, Answers DEF RankFail
  <2> QED BY <1>1, <2>1, <2>2, EngineKept
<1>3. CASE /\ Cardinality(RankKeys(ns)) >= limits.maxKeys
           /\ boards' = boards \cup {ns}
           /\ ret' = Failed
           /\ UNCHANGED <<ranks, sequence>>
  <2>1. limits.maxKeys \in Nat \ {0} BY DEF EngineTypeOK, Limits
  <2>2. RankKeys(ns) # {}
    <3>1. Cardinality({}) = 0 BY FS_EmptySet
    <3> QED BY <1>3, <2>1, <3>1
  <2>3. ns \in boards BY <2>2 DEF BoardInv, NoEmptyBoard
  <2>4. boards' = boards BY <1>3, <2>3
  <2>5. BoardInv' BY <1>3, <2>4, BoardsKept DEF rankVars
  <2> QED BY <1>1, <1>3, <2>5, Answers, EngineKept
<1>4. CASE RankPut(ns, k, score, ex) /\ ret' = result
  <2> DEFINE r == [score |-> score, sequence |-> sequence + 1,
                   policy |-> "Persistent", until |-> 0]
  <2>1. r \in RankEntry BY DEF RankEntry, ExpirePolicy, BoardInv, BoardTypeOK
  <2>2. r.sequence = sequence + 1 OBVIOUS
  <2>3. /\ boards' = boards \cup {ns}
        /\ ranks' = [ranks EXCEPT ![ns][k] = WithExpiration(r, ex, now)]
        /\ sequence' = sequence + 1
    BY <1>4 DEF RankPut
  <2> HIDE DEF r
  <2>4. now \in Nat BY DEF EngineTypeOK
  <2>5. /\ WithExpiration(r, ex, now) \in RankEntry
        /\ WithExpiration(r, ex, now).sequence = sequence + 1
    BY <2>1, <2>2, <2>4, RankExpirationSound
  <2>6. BoardInv' BY <2>3, <2>5, RankPutKeeps
  <2> QED BY <1>1, <1>4, <2>6, EngineKept
<1> QED BY <1>2, <1>3, <1>4 DEF RankStore

LEMMA RankArguments ==
    /\ Expirations \subseteq Expiration
    /\ Scores \subseteq Cell /\ Deltas \subseteq Cell /\ Cell \subseteq Int
    /\ Positions \subseteq Int /\ Counts \subseteq Nat
BY EngineAssumption, RankAssumption DEF Cell

LEMMA RescoredEntry ==
    ASSUME NEW old \in RankEntry, NEW sum \in Cell, NEW n \in Nat
    PROVE  /\ [old EXCEPT !.score = sum, !.sequence = n] \in RankEntry
           /\ [old EXCEPT !.score = sum, !.sequence = n].sequence = n
BY DEF RankEntry

LEMMA RankIncKeeps ==
    ASSUME RankInv, NEW ns \in NS, NEW k \in Key, NEW delta \in Cell,
           NEW ex \in Expiration, RankInc(ns, k, delta, ex)
    PROVE  RankInv'
<1>1. call' \in Method BY DEF RankInc, Called, Method
<1>2. delta \in Int /\ Ret(TRUE, delta, <<>>) \in Answer BY RankArguments, Answers
<1>3. CASE ~Ranked(ns, k)
  <2>1. RankStore(ns, k, delta, ex, Ret(TRUE, delta, <<>>))
    BY <1>3 DEF RankInc, RankLive
  <2> QED BY <1>1, <1>2, <2>1, RankStoreKeeps
<1>4. CASE Ranked(ns, k) /\ ~RankLive(ns, k)
  <2> DEFINE r == [score |-> delta, sequence |-> sequence + 1,
                   policy |-> "Persistent", until |-> 0]
  <2>1. /\ RankPut(ns, k, delta, ex) /\ ret' = Ret(TRUE, delta, <<>>)
        /\ UNCHANGED <<limits, now>>
    BY <1>4 DEF RankInc
  <2>2. r \in RankEntry /\ r.sequence = sequence + 1
    BY DEF RankEntry, ExpirePolicy, RankInv, BoardInv, BoardTypeOK
  <2>3. /\ boards' = boards \cup {ns}
        /\ ranks' = [ranks EXCEPT ![ns][k] = WithExpiration(r, ex, now)]
        /\ sequence' = sequence + 1
    BY <2>1 DEF RankPut
  <2> HIDE DEF r
  <2>4. now \in Nat BY DEF RankInv, EngineTypeOK
  <2>5. /\ WithExpiration(r, ex, now) \in RankEntry
        /\ WithExpiration(r, ex, now).sequence = sequence + 1
    BY <2>2, <2>4, RankExpirationSound
  <2>6. BoardInv' BY <2>3, <2>5, RankPutKeeps DEF RankInv
  <2> QED BY <1>1, <1>2, <2>1, <2>6, EngineKept DEF RankInv
<1>5. CASE RankLive(ns, k)
  <2> DEFINE sum == WrapCell(ranks[ns][k].score + delta)
             e == [ranks[ns][k] EXCEPT !.score = sum, !.sequence = sequence + 1]
             f == IF RenewsExpiry(ex) THEN WithExpiration(e, ex, now) ELSE e
  <2>1. /\ ranks' = [ranks EXCEPT ![ns][k] = f]
        /\ ret' = Ret(TRUE, sum, <<>>)
        /\ sequence' = sequence + 1
        /\ UNCHANGED <<boards, limits, now>>
    BY <1>5 DEF RankInc, RankLive
  <2>2. ranks[ns][k] \in RankEntry /\ sequence \in Nat /\ now \in Nat
    BY <1>5, RankedEntry DEF RankLive, RankInv, BoardInv, BoardTypeOK, EngineTypeOK
  <2>3. ranks[ns][k].score \in Int BY <2>2, RankArguments DEF RankEntry
  <2>4. sum \in Cell /\ sum \in Int BY <1>2, <2>3, WrapCellIsCell
  <2> HIDE DEF sum
  <2>5. sequence + 1 \in Nat BY <2>2
  <2>6. e \in RankEntry /\ e.sequence = sequence + 1 BY <2>2, <2>4, <2>5, RescoredEntry
  <2> HIDE DEF e
  <2>7. f \in RankEntry /\ f.sequence = sequence + 1
    BY <2>2, <2>5, <2>6, RankExpirationSound
  <2> HIDE DEF f
  <2>8. boards' = boards \cup {ns}
    BY <1>5, <2>1 DEF RankLive, RankInv, BoardInv, NoEmptyBoard, RankKeys
  <2>9. BoardInv' BY <2>1, <2>7, <2>8, RankPutKeeps DEF RankInv
  <2>10. ret' \in Answer BY <2>1, <2>4, Answers
  <2> QED BY <1>1, <2>1, <2>9, <2>10, EngineKept DEF RankInv
<1> QED BY <1>3, <1>4, <1>5

LEMMA RankWriteKeeps ==
    ASSUME RankInv, NEW ns \in NS, NEW k \in Key, RankWrite(ns, k)
    PROVE  RankInv'
<1>1. ASSUME NEW ex \in Expirations, NEW score \in Scores, RankSet(ns, k, score, ex)
      PROVE  RankInv'
  <2>1. call' \in Method /\ RankStore(ns, k, score, ex, Succeeded)
    BY <1>1 DEF RankSet, Called, Method
  <2> QED BY <2>1, RankArguments, RankStoreKeeps, Answers
<1>2. ASSUME NEW ex \in Expirations, NEW delta \in Deltas, RankInc(ns, k, delta, ex)
      PROVE  RankInv'
  BY <1>2, RankArguments, RankIncKeeps
<1> QED BY <1>1, <1>2 DEF RankWrite

\* A call that answers and either leaves the leaderboards as they are or erases.
LEMMA RankErasingKeeps ==
    ASSUME RankInv, call' \in Method, ret' \in Answer,
           UNCHANGED <<sequence, limits, now>>, NEW ns \in NS,
           \/ UNCHANGED <<boards, ranks>>
           \/ \E gone \in SUBSET Key : RankErase(ns, gone)
           \/ RankPurge(ns)
    PROVE  RankInv'
<1>1. BoardInv'
  <2>1. CASE UNCHANGED <<boards, ranks>> BY <2>1, BoardsKept DEF RankInv, rankVars
  <2>2. CASE \E gone \in SUBSET Key : RankErase(ns, gone)
    BY <2>2, RankEraseKeeps DEF RankInv
  <2>3. CASE RankPurge(ns) BY <2>3, RankPurgeKeeps DEF RankInv
  <2> QED BY <2>1, <2>2, <2>3
<1> QED BY <1>1, EngineKept DEF RankInv

LEMMA RankRemoveKeeps ==
    ASSUME RankInv, NEW ns \in NS,
           (\E k \in Key : RankDelete(ns, k)) \/ RankClear(ns)
    PROVE  RankInv'
<1>1. call' \in Method /\ UNCHANGED <<sequence, limits, now>>
  BY DEF RankDelete, RankClear, Called, Method
<1>2. ret' \in Answer BY Answers DEF RankDelete, RankClear, RankFail
<1>3. \/ UNCHANGED <<boards, ranks>>
      \/ \E gone \in SUBSET Key : RankErase(ns, gone)
  <2>1. \A k \in Key : {k} \in SUBSET Key OBVIOUS
  <2>2. Key \in SUBSET Key OBVIOUS
  <2>3. ASSUME NEW k \in Key, RankDelete(ns, k)
        PROVE  UNCHANGED <<boards, ranks>> \/ RankErase(ns, {k})
    BY <2>3 DEF RankDelete, RankFail
  <2>4. RankClear(ns) => UNCHANGED <<boards, ranks>> \/ RankErase(ns, Key)
    BY DEF RankClear, RankFail
  <2> QED BY <2>1, <2>2, <2>3, <2>4
<1> QED BY <1>1, <1>2, <1>3, RankErasingKeeps

LEMMA RankLookupKeeps ==
    ASSUME RankInv, call' \in Method, NEW ns \in NS, NEW k \in Key, NEW answer,
           RankLive(ns, k) => answer \in Answer, RankLookup(ns, k, answer)
    PROVE  RankInv'
<1>1. {k} \in SUBSET Key OBVIOUS
<1>2. ret' \in Answer BY Answers DEF RankLookup, RankFail
<1>3. UNCHANGED <<boards, ranks>> \/ RankErase(ns, {k}) BY DEF RankLookup, RankFail
<1>4. UNCHANGED <<sequence, limits, now>> BY DEF RankLookup
<1> QED BY <1>1, <1>2, <1>3, <1>4, RankErasingKeeps

\* A sorted leaderboard lists each live key once.
LEMMA SortedKeys ==
    ASSUME NEW ns \in NS, NEW order \in RankOrder, NEW q \in Sorted(ns, order)
    PROVE  /\ q \in Seq(Key) /\ Len(q) = Cardinality(RankLiveKeys(ns))
           /\ DOMAIN q = 1..Cardinality(RankLiveKeys(ns))
           /\ \A i \in DOMAIN q : q[i] \in RankLiveKeys(ns)
           /\ \A i, j \in DOMAIN q : q[i] = q[j] => i = j
           /\ \A k \in RankLiveKeys(ns) : \E i \in DOMAIN q : q[i] = k
           /\ \A i, j \in DOMAIN q :
                  i < j => ~Before(order, ranks[ns][q[j]], ranks[ns][q[i]])
<1> DEFINE L == RankLiveKeys(ns)
           n == Cardinality(L)
<1>1. n \in Nat /\ L \in SUBSET Key BY RankKeysFinite
<1>2. q \in Bijection(1..n, L) BY DEF Sorted
<1>3. \A i, j \in DOMAIN q :
          i < j => ~Before(order, ranks[ns][q[j]], ranks[ns][q[i]])
  BY DEF Sorted
<1> HIDE DEF L, n
<1>4. /\ q \in [1..n -> L]
      /\ \A a, b \in 1..n : a # b => q[a] # q[b]
      /\ \A k \in L : \E i \in 1..n : q[i] = k
  BY <1>2 DEF Bijection, Injection, Surjection, IsInjective
<1>5. q \in Seq(Key) /\ Len(q) = n /\ DOMAIN q = 1..n BY <1>1, <1>4
<1>6. /\ q \in Seq(Key) /\ Len(q) = n /\ DOMAIN q = 1..n
      /\ \A i \in DOMAIN q : q[i] \in L
      /\ \A i, j \in DOMAIN q : q[i] = q[j] => i = j
      /\ \A k \in L : \E i \in DOMAIN q : q[i] = k
  BY <1>4, <1>5
<1> QED BY <1>3, <1>6 DEF L, n

\* What get_range returns of it.
LEMMA SliceOfSorted ==
    ASSUME NEW q \in Seq(Key), NEW start \in Int, NEW count \in Nat, start >= 1
    PROVE  LET slice == SubSeq(q, start, Lesser(start - 1 + count, Len(q)))
           IN  /\ slice \in Seq(Key) /\ Len(slice) \in Nat
               /\ \A i \in 1..count :
                      /\ i <= Len(slice) <=> start - 1 + i <= Len(q)
                      /\ i <= Len(slice) => slice[i] = q[start - 1 + i]
<1> DEFINE hi == Lesser(start - 1 + count, Len(q))
           slice == SubSeq(q, start, hi)
<1>1. Len(q) \in Nat /\ hi \in Int /\ hi <= Len(q) /\ hi <= start - 1 + count
      /\ (hi = Len(q) \/ hi = start - 1 + count)
  BY DEF Lesser
<1> HIDE DEF hi
<1>2. \A i \in start..hi : q[i] \in Key BY <1>1
<1>3. /\ slice \in Seq(Key)
      /\ Len(slice) = IF start <= hi THEN hi - start + 1 ELSE 0
      /\ \A i \in 1..(hi - start + 1) : slice[i] = q[start + i - 1]
  BY <1>1, <1>2, SubSeqProperties
<1> HIDE DEF slice
<1>4. Len(slice) \in Nat BY <1>1, <1>3
<1>5. ASSUME NEW i \in 1..count
      PROVE  /\ i <= Len(slice) <=> start - 1 + i <= Len(q)
             /\ i <= Len(slice) => slice[i] = q[start - 1 + i]
  <2>1. i <= Len(slice) <=> start - 1 + i <= Len(q) BY <1>1, <1>3
  <2>2. ASSUME i <= Len(slice) PROVE slice[i] = q[start - 1 + i]
    <3>1. i \in 1..(hi - start + 1) /\ start + i - 1 = start - 1 + i
      BY <1>1, <1>3, <2>2
    <3> QED BY <1>3, <3>1
  <2> QED BY <2>1, <2>2
<1> QED BY <1>3, <1>4, <1>5 DEF slice, hi

LEMMA RankQueryKeeps ==
    ASSUME RankInv, NEW ns \in NS, RankQuery(ns)
    PROVE  RankInv'
<1> USE RankErasingKeeps
<1>1. ASSUME NEW k \in Key, RankGetScore(ns, k) PROVE RankInv'
  <2>1. RankLive(ns, k) => ranks[ns][k].score \in Int
    BY RankedEntry, RankArguments DEF RankLive, RankInv, RankEntry
  <2>2. RankLive(ns, k) => Ret(TRUE, ranks[ns][k].score, <<>>) \in Answer
    BY <2>1, Answers
  <2>3. call' \in Method /\ RankLookup(ns, k, Ret(TRUE, ranks[ns][k].score, <<>>))
    BY <1>1 DEF RankGetScore, Called, Method
  <2> QED BY <2>2, <2>3, RankLookupKeeps
<1>2. ASSUME NEW k \in Key, RankExists(ns, k) PROVE RankInv'
  <2>1. call' \in Method /\ RankLookup(ns, k, Succeeded)
    BY <1>2 DEF RankExists, Called, Method
  <2> QED BY <2>1, Answers, RankLookupKeeps
<1>3. ASSUME NEW k \in Key, NEW order \in RankOrder, RankGetPosition(ns, k, order)
      PROVE  RankInv'
  <2>1. call' \in Method /\ UNCHANGED <<sequence, limits, now>>
    BY <1>3 DEF RankGetPosition, Called, Method
  <2>2. {k} \in SUBSET Key OBVIOUS
  <2>3. Position(ns, k, order) \in Int
    <3> DEFINE B == {j \in RankLiveKeys(ns) \ {k} :
                         Before(order, ranks[ns][j], ranks[ns][k])}
    <3>1. B \in SUBSET RankLiveKeys(ns) OBVIOUS
    <3>2. Cardinality(B) \in Nat BY <3>1, RankKeysFinite, FS_Subset, FS_CardinalityType
    <3> HIDE DEF B
    <3>3. 1 + Cardinality(B) \in Int BY <3>2
    <3> QED BY <3>3 DEF Position, B
  <2>4. ret' \in Answer BY <1>3, <2>3, Answers DEF RankGetPosition, RankFail
  <2>5. UNCHANGED <<boards, ranks>> \/ RankErase(ns, {k}) \/ RankPurge(ns)
    BY <1>3 DEF RankGetPosition, RankFail
  <2> QED BY <2>1, <2>2, <2>4, <2>5
<1>4. ASSUME NEW pos \in Positions, NEW order \in RankOrder, RankGetTop(ns, pos, order)
      PROVE  RankInv'
  <2>1. call' \in Method /\ UNCHANGED <<sequence, limits, now>>
    BY <1>4 DEF RankGetTop, Called, Method
  <2>2. UNCHANGED <<boards, ranks>> \/ RankPurge(ns)
    BY <1>4 DEF RankGetTop, RankFail
  <2>3. ASSUME NEW q \in Sorted(ns, order), pos \in 1..Cardinality(RankLiveKeys(ns))
        PROVE  Ret(TRUE, ranks[ns][q[pos]].score, <<q[pos]>>) \in Answer
    <3>1. q[pos] \in RankLiveKeys(ns) BY <2>3, SortedKeys
    <3>2. q[pos] \in Key /\ ranks[ns][q[pos]].score \in Int
      BY <3>1, RankedEntry, RankArguments
         DEF RankLiveKeys, RankLive, RankInv, RankEntry
    <3>3. <<q[pos]>> \in Seq(Key) BY <3>2
    <3> QED BY <3>2, <3>3, Answers
  <2>4. ret' \in Answer BY <1>4, <2>3, Answers DEF RankGetTop, RankFail
  <2> QED BY <2>1, <2>2, <2>4
<1>5. ASSUME NEW pos \in Positions, NEW count \in Counts, NEW order \in RankOrder,
             RankGetRange(ns, pos, count, order)
      PROVE  RankInv'
  <2>1. call' \in Method /\ UNCHANGED <<sequence, limits, now>>
    BY <1>5 DEF RankGetRange, Called, Method
  <2>2. UNCHANGED <<boards, ranks>> \/ RankPurge(ns)
    BY <1>5 DEF RankGetRange, RankFail
  <2>3. pos \in Int /\ count \in Nat BY RankArguments
  <2>4. ASSUME NEW q \in Sorted(ns, order), pos >= 1
        PROVE  LET slice == SubSeq(q, pos, Lesser(pos - 1 + count, Len(q)))
               IN  Ret(slice # <<>>, Len(slice), slice) \in Answer
    <3> DEFINE slice == SubSeq(q, pos, Lesser(pos - 1 + count, Len(q)))
    <3>1. q \in Seq(Key) BY SortedKeys
    <3>2. slice \in Seq(Key) /\ Len(slice) \in Nat
      BY <2>3, <2>4, <3>1, SliceOfSorted
    <3> HIDE DEF slice
    <3>3. Len(slice) \in Int /\ (slice # <<>>) \in BOOLEAN BY <3>2
    <3>4. Ret(slice # <<>>, Len(slice), slice) \in Answer BY <3>2, <3>3, Answers
    <3> QED BY <3>4 DEF slice
  <2>5. ret' \in Answer BY <1>5, <2>4, Answers DEF RankGetRange, RankFail
  <2> QED BY <2>1, <2>2, <2>5
<1>6. CASE RankGetCount(ns)
  <2>1. call' \in Method /\ UNCHANGED <<sequence, limits, now>> /\ RankPurge(ns)
    BY <1>6 DEF RankGetCount, Called, Method
  <2>2. Cardinality(RankLiveKeys(ns)) \in Int BY RankKeysFinite
  <2>3. ret' = Ret(TRUE, Cardinality(RankLiveKeys(ns)), <<>>) BY <1>6 DEF RankGetCount
  <2>4. ret' \in Answer BY <2>2, <2>3, Answers
  <2> QED BY <2>1, <2>4
<1> QED BY <1>1, <1>2, <1>3, <1>4, <1>5, <1>6 DEF RankQuery

\* A map change keeps the numbers of the entries it keeps.
LEMMA RankSweepKeeps ==
    ASSUME BoardInv, RankSweep
    PROVE  BoardInv'
<1> DEFINE stays(ns, k) == Ranked(ns, k) /\ ~EndsAtSweep(ranks[ns][k], now)
<1>1. /\ ranks' = [ns \in NS |-> [k \in Key |->
                      IF stays(ns, k) THEN AfterSweep(ranks[ns][k]) ELSE Absent]]
      /\ boards' = {ns \in boards : \E k \in Key : stays(ns, k)}
      /\ UNCHANGED sequence
  BY DEF RankSweep
<1>2. \A ns \in NS, k \in Key : stays(ns, k) => Ranked(ns, k) OBVIOUS
<1> HIDE DEF stays
<1>3. ASSUME NEW ns \in NS, NEW k \in Key, stays(ns, k)
      PROVE  /\ AfterSweep(ranks[ns][k]) \in RankEntry
             /\ AfterSweep(ranks[ns][k]).sequence = ranks[ns][k].sequence
  <2> DEFINE e == ranks[ns][k]
  <2>1. e \in RankEntry BY <1>2, <1>3, RankedEntry
  <2> HIDE DEF e
  <2>2. CASE e.policy = "MapCount"
    <3>1. AfterSweep(e) = [e EXCEPT !.until = e.until - 1] BY <2>2 DEF AfterSweep
    <3>2. e.until - 1 \in Int BY <2>1 DEF RankEntry
    <3> QED BY <2>1, <3>1, <3>2 DEF RankEntry, e
  <2>3. CASE e.policy # "MapCount" BY <2>1, <2>3 DEF AfterSweep, e
  <2> QED BY <2>2, <2>3
<1>4. \A ns \in NS, k \in Key : Ranked(ns, k)' <=> stays(ns, k)
  BY <1>1, <1>3, RankMarker DEF Ranked
<1>5. BoardTypeOK'
  <2>1. boards' \subseteq NS /\ sequence' \in Nat
    BY <1>1 DEF BoardInv, BoardTypeOK
  <2>2. ranks' \in [NS -> [Key -> RankEntry \cup {Absent}]] BY <1>1, <1>3
  <2> QED BY <2>1, <2>2 DEF BoardTypeOK
<1>6. NoEmptyBoard'
  <2>1. \A ns \in NS, k \in Key : stays(ns, k) => ns \in boards
    BY <1>2 DEF BoardInv, NoEmptyBoard, RankKeys
  <2> QED BY <1>1, <1>4, <2>1 DEF NoEmptyBoard, RankKeys
<1>7. SequencesDistinct'
  <2>1. \A ns \in NS : \A k \in RankKeys(ns)' :
            k \in RankKeys(ns) /\ ranks'[ns][k].sequence = ranks[ns][k].sequence
    BY <1>1, <1>2, <1>3, <1>4 DEF RankKeys
  <2>2. sequence' = sequence BY <1>1
  <2> SUFFICES ASSUME NEW ns \in NS, NEW j \in RankKeys(ns)', NEW k \in RankKeys(ns)'
               PROVE  /\ ranks'[ns][k].sequence \in 1..sequence
                      /\ j # k => ranks'[ns][j].sequence # ranks'[ns][k].sequence
    BY <2>2 DEF SequencesDistinct
  <2> QED BY <2>1 DEF BoardInv, SequencesDistinct
<1> QED BY <1>5, <1>6, <1>7 DEF BoardInv

LEMMA RankNextKeeps ==
    ASSUME RankInv, [RankNext]_rankSpecVars
    PROVE  RankInv'
<1> USE DEF RankInv
<1>1. CASE RankCall
  BY <1>1, RankWriteKeeps, RankRemoveKeeps, RankQueryKeeps DEF RankCall
<1>2. CASE Called("SweepMapEnd") /\ RankSweep /\ ret' = Succeeded /\ UNCHANGED <<limits, now>>
  BY <1>2, RankSweepKeeps, EngineKept, Answers DEF Called, Method
<1>3. CASE Called("ClearAll") /\ RankClearAll /\ ret' = Succeeded /\ UNCHANGED <<limits, now>>
  BY <1>3, EmptyBoards, EngineKept, Answers DEF RankClearAll, Called, Method
<1>4. ASSUME NEW a \in LimitArgs, Called("SetLimits"), UpdateLimits(a),
             ret' = Succeeded, UNCHANGED <<rankVars, now>>
      PROVE  RankInv'
  <2>1. limits' \in Limits BY <1>4, LimitsUpdated DEF EngineTypeOK
  <2>2. EngineTypeOK' BY <1>4, <2>1, Answers DEF EngineTypeOK, Answer, Called, Method
  <2> QED BY <1>4, <2>2, BoardsKept
<1>5. CASE AdvanceClock /\ UNCHANGED <<rankVars, limits, call, ret>>
  <2>1. EngineTypeOK' BY <1>5 DEF AdvanceClock, EngineTypeOK
  <2> QED BY <1>5, <2>1, BoardsKept
<1>6. CASE UNCHANGED rankSpecVars
  <2>1. EngineTypeOK' BY <1>6 DEF EngineTypeOK, rankSpecVars
  <2> QED BY <1>6, <2>1, BoardsKept DEF rankSpecVars
<1> QED BY <1>1, <1>2, <1>3, <1>4, <1>5, <1>6 DEF RankNext

\* RankInv is inductive.
LEMMA RankInductive == RankSpec => []RankInv
<1>1. RankInit => RankInv BY EmptyBoards, EngineStarts DEF RankInit, RankInv
<1>2. RankInv /\ [RankNext]_rankSpecVars => RankInv' BY RankNextKeeps
<1> QED BY <1>1, <1>2, PTL DEF RankSpec

-----------------------------------------------------------------------------
(* The theorems about states.                                              *)

\* Whatever the plugins call, every field of the rank engine keeps its type: in
\* particular a score that overflows in an increment is wrapped into a cell.
THEOREM RankTypeCorrect == RankSpec => []RankTypeOK
<1>1. RankInv => RankTypeOK BY DEF RankInv, BoardInv, BoardTypeOK, RankTypeOK
<1> QED BY <1>1, RankInductive, PTL

\* No write that is refused and no way an entry can go leaves an empty
\* leaderboard behind.
THEOREM BoardsExact == RankSpec => []NoEmptyBoard
<1>1. RankInv => NoEmptyBoard BY DEF RankInv, BoardInv
<1> QED BY <1>1, RankInductive, PTL

\* No two entries of a leaderboard ever share a sequence number, so the order
\* of a leaderboard is total, through flushes that reset the counter too.
THEOREM SequencesAreDistinct == RankSpec => []SequencesDistinct
<1>1. RankInv => SequencesDistinct BY DEF RankInv, BoardInv
<1> QED BY <1>1, RankInductive, PTL

-----------------------------------------------------------------------------
(* Steps: a write of one key that the limits admit, or only a taking away. *)

\* A write of the key k: a new key needs room for itself and for its board.
RankGrows(ns, k) ==
    /\ boards' = boards \cup {ns}
    /\ \A m \in NS, j \in Key : Ranked(m, j)' <=> Ranked(m, j) \/ (m = ns /\ j = k)
    /\ Ranked(ns, k) \/ ns \in boards \/ ~BoardsFull
    /\ Ranked(ns, k) \/ Cardinality(RankKeys(ns)) < limits.maxKeys

RankShrinks ==
    /\ boards' \subseteq boards
    /\ \A m \in NS, j \in Key : Ranked(m, j)' => Ranked(m, j)

LEMMA RankPutGrows ==
    ASSUME RankInv, NEW ns \in NS, NEW k \in Key, NEW e,
           ranks' = [ranks EXCEPT ![ns][k] = e], e # Absent
    PROVE  \A m \in NS, j \in Key : Ranked(m, j)' <=> Ranked(m, j) \/ (m = ns /\ j = k)
BY DEF Ranked, RankInv, BoardInv, BoardTypeOK

LEMMA RankEraseShrinks ==
    ASSUME RankInv, NEW ns \in NS, NEW gone, RankErase(ns, gone)
    PROVE  RankShrinks
<1>1. \A m \in NS, j \in Key : ranks'[m][j] \in {ranks[m][j], Absent}
  BY DEF RankErase, RankInv, BoardInv, BoardTypeOK
<1>2. boards' \subseteq boards BY DEF RankErase
<1> QED BY <1>1, <1>2 DEF RankShrinks, Ranked

\* WithExpiration gives a record, which is not the marker.
LEMMA WrittenIsPresent ==
    ASSUME RankInv, NEW score \in Cell, NEW ex \in Expiration
    PROVE  WithExpiration([score |-> score, sequence |-> sequence + 1,
                           policy |-> "Persistent", until |-> 0], ex, now) # Absent
<1> DEFINE r == [score |-> score, sequence |-> sequence + 1,
                 policy |-> "Persistent", until |-> 0]
<1>1. r \in RankEntry
  BY DEF RankEntry, ExpirePolicy, RankInv, BoardInv, BoardTypeOK
<1>2. now \in Nat BY DEF RankInv, EngineTypeOK
<1> HIDE DEF r
<1>3. WithExpiration(r, ex, now) \in RankEntry BY <1>1, <1>2, RankExpirationSound
<1> QED BY <1>3, RankMarker DEF r

LEMMA RankStoreGrows ==
    ASSUME RankInv, NEW ns \in NS, NEW k \in Key, NEW score \in Cell,
           NEW ex \in Expiration, NEW result, RankStore(ns, k, score, ex, result)
    PROVE  RankGrows(ns, k) \/ RankShrinks
<1>1. CASE RankFail(Failed) BY <1>1 DEF RankFail, RankShrinks, Ranked
<1>2. CASE /\ Cardinality(RankKeys(ns)) >= limits.maxKeys
           /\ boards' = boards \cup {ns}
           /\ UNCHANGED ranks
  <2>1. limits.maxKeys \in Nat \ {0} BY DEF RankInv, EngineTypeOK, Limits
  <2>2. RankKeys(ns) # {}
    <3>1. Cardinality({}) = 0 BY FS_EmptySet
    <3> QED BY <1>2, <2>1, <3>1
  <2>3. ns \in boards BY <2>2 DEF RankInv, BoardInv, NoEmptyBoard
  <2> QED BY <1>2, <2>3 DEF RankShrinks, Ranked
<1>3. CASE /\ ns \in boards \/ ~BoardsFull
           /\ Ranked(ns, k) \/ Cardinality(RankKeys(ns)) < limits.maxKeys
           /\ RankPut(ns, k, score, ex)
  BY <1>3, RankPutGrows, WrittenIsPresent DEF RankPut, RankGrows
<1> QED BY <1>1, <1>2, <1>3 DEF RankStore

LEMMA RankIncGrows ==
    ASSUME RankInv, NEW ns \in NS, NEW k \in Key, NEW delta \in Cell,
           NEW ex \in Expiration, RankInc(ns, k, delta, ex)
    PROVE  RankGrows(ns, k) \/ RankShrinks
<1>1. CASE ~Ranked(ns, k)
  <2>1. RankStore(ns, k, delta, ex, Ret(TRUE, delta, <<>>))
    BY <1>1 DEF RankInc, RankLive
  <2> QED BY <2>1, RankStoreGrows
<1>2. CASE Ranked(ns, k) /\ ~RankLive(ns, k)
  <2>1. RankPut(ns, k, delta, ex) BY <1>2 DEF RankInc
  <2> QED BY <1>2, <2>1, RankPutGrows, WrittenIsPresent DEF RankPut, RankGrows
<1>3. CASE RankLive(ns, k)
  <2>1. boards' = boards /\ \E e : ranks' = [ranks EXCEPT ![ns][k] = e]
    BY <1>3 DEF RankInc, RankLive
  <2>2. PICK e : ranks' = [ranks EXCEPT ![ns][k] = e] BY <2>1
  <2>3. \A m \in NS, j \in Key : ~(m = ns /\ j = k) => ranks'[m][j] = ranks[m][j]
    BY <2>2 DEF RankInv, BoardInv, BoardTypeOK
  <2>4. Ranked(ns, k) BY <1>3 DEF RankLive
  <2> QED BY <2>1, <2>3, <2>4 DEF RankShrinks, Ranked
<1> QED BY <1>1, <1>2, <1>3

LEMMA RankWriteGrows ==
    ASSUME RankInv, NEW ns \in NS, NEW k \in Key, RankWrite(ns, k)
    PROVE  RankGrows(ns, k) \/ RankShrinks
<1>1. ASSUME NEW ex \in Expirations, NEW score \in Scores, RankSet(ns, k, score, ex)
      PROVE  RankGrows(ns, k) \/ RankShrinks
  BY <1>1, RankArguments, RankStoreGrows DEF RankSet
<1>2. ASSUME NEW ex \in Expirations, NEW delta \in Deltas, RankInc(ns, k, delta, ex)
      PROVE  RankGrows(ns, k) \/ RankShrinks
  BY <1>2, RankArguments, RankIncGrows
<1> QED BY <1>1, <1>2 DEF RankWrite

LEMMA RankQueryShrinks ==
    ASSUME RankInv, NEW ns \in NS,
           RankQuery(ns) \/ RankClear(ns) \/ (\E k \in Key : RankDelete(ns, k))
    PROVE  RankShrinks
<1>1. CASE UNCHANGED <<boards, ranks>> BY <1>1 DEF RankShrinks, Ranked
<1>2. ASSUME NEW gone, RankErase(ns, gone) PROVE RankShrinks
  BY <1>2, RankEraseShrinks
<1>3. CASE RankPurge(ns) BY <1>3, RankEraseShrinks DEF RankPurge
<1>4. ASSUME NEW k \in Key, NEW answer, RankLookup(ns, k, answer) PROVE RankShrinks
  BY <1>1, <1>2, <1>4 DEF RankLookup, RankFail
<1>5. CASE RankClear(ns) \/ (\E k \in Key : RankDelete(ns, k))
  BY <1>1, <1>2, <1>5 DEF RankClear, RankDelete, RankFail
<1>6. ASSUME NEW k \in Key, RankGetScore(ns, k) \/ RankExists(ns, k) PROVE RankShrinks
  BY <1>4, <1>6 DEF RankGetScore, RankExists
<1>7. ASSUME NEW k \in Key, NEW order \in RankOrder, RankGetPosition(ns, k, order)
      PROVE  RankShrinks
  BY <1>1, <1>2, <1>3, <1>7 DEF RankGetPosition, RankFail
<1>8. ASSUME NEW pos \in Positions, NEW order \in RankOrder, RankGetTop(ns, pos, order)
      PROVE  RankShrinks
  BY <1>1, <1>3, <1>8 DEF RankGetTop, RankFail
<1>9. ASSUME NEW pos \in Positions, NEW count \in Counts, NEW order \in RankOrder,
             RankGetRange(ns, pos, count, order)
      PROVE  RankShrinks
  BY <1>1, <1>3, <1>9 DEF RankGetRange, RankFail
<1>10. CASE RankGetCount(ns) BY <1>3, <1>10 DEF RankGetCount
<1> QED BY <1>5, <1>6, <1>7, <1>8, <1>9, <1>10 DEF RankQuery

\* Every step writes one key within the limits, or only takes away.
LEMMA RankStepKinds ==
    ASSUME RankInv, [RankNext]_rankSpecVars
    PROVE  (\E ns \in NS, k \in Key : RankGrows(ns, k)) \/ RankShrinks
<1>1. CASE UNCHANGED <<boards, ranks>> BY <1>1 DEF RankShrinks, Ranked
<1>2. CASE RankCall BY <1>2, RankWriteGrows, RankQueryShrinks DEF RankCall
<1>3. CASE RankSweep
  <2>1. /\ boards' \subseteq boards
        /\ \A m \in NS, j \in Key : ranks'[m][j] # Absent => Ranked(m, j)
    BY <1>3 DEF RankSweep
  <2> QED BY <2>1 DEF RankShrinks, Ranked
<1>4. CASE RankClearAll BY <1>4 DEF RankClearAll, RankShrinks, Ranked, NoRanks
<1> QED BY <1>1, <1>2, <1>3, <1>4 DEF RankNext, rankSpecVars, rankVars

LEMMA RankGrowsWithinLimits ==
    ASSUME RankInv, NEW ns \in NS, NEW k \in Key, RankGrows(ns, k)
    PROVE  /\ Cardinality(boards') > Cardinality(boards) =>
                  Cardinality(boards') <= limits.maxNs
           /\ \A m \in NS : Cardinality(RankKeys(m)') > Cardinality(RankKeys(m)) =>
                  Cardinality(RankKeys(m)') <= limits.maxKeys
<1>1. IsFiniteSet(boards) /\ Cardinality(boards) \in Nat
  BY EngineAssumption, FS_Subset, FS_CardinalityType DEF RankInv, BoardInv, BoardTypeOK
<1>2. limits.maxNs \in Nat \ {0} /\ limits.maxKeys \in Nat \ {0}
  BY DEF RankInv, EngineTypeOK, Limits
<1>3. Cardinality(boards') > Cardinality(boards) => Cardinality(boards') <= limits.maxNs
  <2>1. Cardinality(boards') =
            IF ns \in boards THEN Cardinality(boards) ELSE Cardinality(boards) + 1
    BY <1>1, FS_AddElement DEF RankGrows
  <2>2. ns \notin boards => ~Ranked(ns, k)
    BY DEF RankInv, BoardInv, NoEmptyBoard, RankKeys
  <2>3. ns \notin boards => ~(Cardinality(boards) >= limits.maxNs)
    BY <2>2 DEF RankGrows, BoardsFull
  <2> QED BY <1>1, <1>2, <2>1, <2>3
<1>4. ASSUME NEW m \in NS, Cardinality(RankKeys(m)') > Cardinality(RankKeys(m))
      PROVE  Cardinality(RankKeys(m)') <= limits.maxKeys
  <2>1. RankKeys(m)' = IF m = ns THEN RankKeys(ns) \cup {k} ELSE RankKeys(m)
    BY DEF RankGrows, RankKeys
  <2>2. IsFiniteSet(RankKeys(m)) /\ Cardinality(RankKeys(m)) \in Nat BY RankKeysFinite
  <2>3. m = ns /\ k \notin RankKeys(ns)
    <3>1. RankKeys(m)' = RankKeys(m) \/ (m = ns /\ k \notin RankKeys(ns))
      BY <2>1
    <3> QED BY <1>4, <2>2, <3>1
  <2>4. Cardinality(RankKeys(m)') = Cardinality(RankKeys(m)) + 1
    BY <2>1, <2>2, <2>3, FS_AddElement
  <2>5. Cardinality(RankKeys(m)) < limits.maxKeys
    BY <2>3 DEF RankGrows, RankKeys
  <2> QED BY <1>2, <2>2, <2>4, <2>5
<1> QED BY <1>3, <1>4

LEMMA RankShrinksWithinLimits ==
    ASSUME RankInv, RankShrinks
    PROVE  /\ ~(Cardinality(boards') > Cardinality(boards))
           /\ \A m \in NS : ~(Cardinality(RankKeys(m)') > Cardinality(RankKeys(m)))
<1>1. /\ IsFiniteSet(boards) /\ Cardinality(boards) \in Nat
      /\ boards' \in SUBSET boards
  BY EngineAssumption, FS_Subset, FS_CardinalityType
     DEF RankShrinks, RankInv, BoardInv, BoardTypeOK
<1>2. Cardinality(boards') \in Nat /\ Cardinality(boards') <= Cardinality(boards)
  BY <1>1, FS_Subset, FS_CardinalityType
<1>3. ASSUME NEW m \in NS PROVE ~(Cardinality(RankKeys(m)') > Cardinality(RankKeys(m)))
  <2>1. RankKeys(m)' \in SUBSET RankKeys(m) BY DEF RankKeys, RankShrinks
  <2>2. IsFiniteSet(RankKeys(m)) /\ Cardinality(RankKeys(m)) \in Nat BY RankKeysFinite
  <2>3. Cardinality(RankKeys(m)') \in Nat /\ Cardinality(RankKeys(m)') <= Cardinality(RankKeys(m))
    BY <2>1, <2>2, FS_Subset, FS_CardinalityType
  <2> QED BY <2>2, <2>3
<1> QED BY <1>1, <1>2, <1>3

-----------------------------------------------------------------------------
(* What a step leaves alone.                                               *)

\* The step leaves every live score as it is.
SparesScores == \A m \in NS, j \in Key : RankLive(m, j) => RankSame(m, j)

LEMMA RankEraseSpares ==
    ASSUME BoardInv, NEW ns \in NS, NEW gone \in SUBSET Key, RankErase(ns, gone),
           gone \cap RankLiveKeys(ns) = {}
    PROVE  SparesScores
<1>1. \A m \in NS, j \in Key :
          ranks'[m][j] = IF m = ns /\ j \in gone THEN Absent ELSE ranks[m][j]
  BY DEF RankErase, BoardInv, BoardTypeOK
<1> QED BY <1>1 DEF SparesScores, RankSame, RankLiveKeys

\* A query drops only what has expired.
LEMMA RankQuerySpares ==
    ASSUME BoardInv, NEW ns \in NS, RankQuery(ns)
    PROVE  SparesScores
<1>1. ASSUME UNCHANGED <<boards, ranks>> PROVE SparesScores
  BY <1>1 DEF SparesScores, RankSame
<1>2. ASSUME RankPurge(ns) PROVE SparesScores
  <2>1. RankKeys(ns) \ RankLiveKeys(ns) \in SUBSET Key BY DEF RankKeys
  <2> QED BY <1>2, <2>1, RankEraseSpares DEF RankPurge
<1>3. ASSUME NEW k \in Key, ~RankLive(ns, k), RankErase(ns, {k}) PROVE SparesScores
  <2>1. {k} \cap RankLiveKeys(ns) = {} BY <1>3 DEF RankLiveKeys
  <2> QED BY <1>3, <2>1, RankEraseSpares
<1>4. ASSUME NEW k \in Key, RankGetScore(ns, k) \/ RankExists(ns, k)
      PROVE  SparesScores
  BY <1>1, <1>3, <1>4 DEF RankGetScore, RankExists, RankLookup, RankFail
<1>5. ASSUME NEW k \in Key, NEW order \in RankOrder, RankGetPosition(ns, k, order)
      PROVE  SparesScores
  BY <1>1, <1>2, <1>3, <1>5 DEF RankGetPosition, RankFail
<1>6. ASSUME NEW pos, NEW order, RankGetTop(ns, pos, order) PROVE SparesScores
  BY <1>1, <1>2, <1>6 DEF RankGetTop, RankFail
<1>7. ASSUME NEW pos, NEW count, NEW order, RankGetRange(ns, pos, count, order)
      PROVE  SparesScores
  BY <1>1, <1>2, <1>7 DEF RankGetRange, RankFail
<1>8. CASE RankGetCount(ns) BY <1>2, <1>8 DEF RankGetCount
<1> QED BY <1>4, <1>5, <1>6, <1>7, <1>8 DEF RankQuery

\* A write changes no entry but the one it names.
LEMMA RankWriteTouchesOne ==
    ASSUME BoardInv, NEW m \in NS, NEW j \in Key, RankWrite(m, j),
           NEW ns \in NS, NEW k \in Key, ~(ns = m /\ k = j)
    PROVE  RankSame(ns, k)
<1>1. ASSUME NEW e, ranks' = [ranks EXCEPT ![m][j] = e] PROVE RankSame(ns, k)
  BY <1>1 DEF RankSame, BoardInv, BoardTypeOK
<1>2. ASSUME NEW score, NEW ex, RankPut(m, j, score, ex) PROVE RankSame(ns, k)
  BY <1>1, <1>2 DEF RankPut
<1>3. ASSUME NEW score, NEW ex, NEW result, RankStore(m, j, score, ex, result)
      PROVE  RankSame(ns, k)
  BY <1>2, <1>3 DEF RankStore, RankFail, RankSame
<1>4. ASSUME NEW delta, NEW ex, RankInc(m, j, delta, ex) PROVE RankSame(ns, k)
  BY <1>1, <1>2, <1>3, <1>4 DEF RankInc
<1> QED BY <1>3, <1>4 DEF RankWrite, RankSet

\* A removal takes nothing but what it names.
LEMMA RankRemovalTouchesNamed ==
    ASSUME BoardInv, NEW ns \in NS, NEW k \in Key, NEW m \in NS,
           \/ RankClear(m) /\ m # ns
           \/ \E j \in Key : RankDelete(m, j) /\ ~(m = ns /\ j = k)
    PROVE  RankSame(ns, k)
<1>1. ASSUME NEW gone, RankErase(m, gone), m # ns \/ k \notin gone
      PROVE  RankSame(ns, k)
  BY <1>1 DEF RankErase, RankSame, BoardInv, BoardTypeOK
<1>2. CASE RankClear(m) /\ m # ns
  BY <1>1, <1>2 DEF RankClear, RankFail, RankSame
<1>3. ASSUME NEW j \in Key, RankDelete(m, j), ~(m = ns /\ j = k)
      PROVE  RankSame(ns, k)
  <2>1. CASE RankFail(Failed) BY <2>1 DEF RankFail, RankSame
  <2>2. CASE RankErase(m, {j})
    <3>1. m # ns \/ k \notin {j} BY <1>3
    <3> QED BY <1>1, <2>2, <3>1
  <2> QED BY <1>3, <2>1, <2>2 DEF RankDelete
<1> QED BY <1>2, <1>3

LEMMA ScoreKeptUnlessAsked ==
    ASSUME BoardInv, RankCall, NEW ns \in NS, NEW k \in Key, RankLive(ns, k)
    PROVE  RankSame(ns, k) \/ RankAskedFor(ns, k)
<1>1. ASSUME NEW m \in NS, NEW j \in Key, RankWrite(m, j)
      PROVE  RankSame(ns, k) \/ RankAskedFor(ns, k)
  BY <1>1, RankWriteTouchesOne DEF RankAskedFor
<1>2. ASSUME NEW m \in NS, RankClear(m) \/ \E j \in Key : RankDelete(m, j)
      PROVE  RankSame(ns, k) \/ RankAskedFor(ns, k)
  BY <1>2, RankRemovalTouchesNamed DEF RankAskedFor
<1>3. ASSUME NEW m \in NS, RankQuery(m) PROVE RankSame(ns, k)
  BY <1>3, RankQuerySpares DEF SparesScores
<1> QED BY <1>1, <1>2, <1>3 DEF RankCall

\* A map change ends a score when its policy says so, and no map later.
LEMMA RankSweepAges ==
    ASSUME BoardInv, RankSweep, NEW ns \in NS, NEW k \in Key, Ranked(ns, k)
    PROVE  OneMapOlder(ranks[ns][k], ranks'[ns][k])
<1> DEFINE e == ranks[ns][k]
<1>1. ranks'[ns][k] = IF ~EndsAtSweep(e, now) THEN AfterSweep(e) ELSE Absent
  BY DEF RankSweep
<1>2. e \in RankEntry BY RankedEntry
<1>3. e.until \in Int BY <1>2 DEF RankEntry
<1>4. e.until - 1 <= 0 <=> e.until <= 1 BY <1>3
<1>5. e = [e EXCEPT !.until = e.until] BY <1>2 DEF RankEntry
<1> HIDE DEF e
<1> QED BY <1>1, <1>4, <1>5 DEF OneMapOlder, EndsAtSweep, AfterSweep, e

-----------------------------------------------------------------------------
(* One order.                                                              *)

\* Distinct sequence numbers make the comparator decide between any two
\* entries, whatever their scores.
LEMMA BeforeDecides ==
    ASSUME BoardInv, NEW ns \in NS, NEW order \in RankOrder,
           NEW j \in RankKeys(ns), NEW k \in RankKeys(ns), j # k
    PROVE  \/ Before(order, ranks[ns][j], ranks[ns][k])
           \/ Before(order, ranks[ns][k], ranks[ns][j])
<1>1. /\ ranks[ns][j].score \in Int /\ ranks[ns][k].score \in Int
      /\ ranks[ns][j].sequence \in Nat /\ ranks[ns][k].sequence \in Nat
  <2>1. j \in Key /\ k \in Key /\ Ranked(ns, j) /\ Ranked(ns, k) BY DEF RankKeys
  <2>2. ranks[ns][j] \in RankEntry /\ ranks[ns][k] \in RankEntry BY <2>1, RankedEntry
  <2> QED BY <2>2, RankArguments DEF RankEntry
<1>2. ranks[ns][j].sequence # ranks[ns][k].sequence
  BY DEF BoardInv, SequencesDistinct
<1>3. order = "Desc" \/ order = "Asc" BY DEF RankOrder
<1>4. \/ ranks[ns][j].score < ranks[ns][k].score
      \/ ranks[ns][j].score > ranks[ns][k].score
      \/ /\ ranks[ns][j].score = ranks[ns][k].score
         /\ \/ ranks[ns][j].sequence < ranks[ns][k].sequence
            \/ ranks[ns][j].sequence > ranks[ns][k].sequence
  BY <1>1, <1>2
<1> QED BY <1>1, <1>3, <1>4 DEF Before

\* The place a sort gives a key is the place get_pos counts for it.
LEMMA SortedPlace ==
    ASSUME BoardInv, NEW ns \in NS, NEW order \in RankOrder,
           NEW q \in Sorted(ns, order), NEW p \in DOMAIN q
    PROVE  Position(ns, q[p], order) = p
<1> DEFINE L == RankLiveKeys(ns)
           n == Cardinality(L)
           B == {j \in L \ {q[p]} : Before(order, ranks[ns][j], ranks[ns][q[p]])}
           f == [i \in 1..(p - 1) |-> q[i]]
<1>1. L \in SUBSET RankKeys(ns) /\ n \in Nat BY RankKeysFinite
<1>2. /\ DOMAIN q = 1..n
      /\ \A i \in DOMAIN q : q[i] \in L
      /\ \A i, j \in DOMAIN q : q[i] = q[j] => i = j
      /\ \A k \in L : \E i \in DOMAIN q : q[i] = k
      /\ \A i, j \in DOMAIN q :
             i < j => ~Before(order, ranks[ns][q[j]], ranks[ns][q[i]])
  BY SortedKeys
<1>3. \A j, k \in L : j # k => \/ Before(order, ranks[ns][j], ranks[ns][k])
                               \/ Before(order, ranks[ns][k], ranks[ns][j])
  BY <1>1, BeforeDecides
<1> HIDE DEF L, n
<1>4. p \in 1..n /\ p \in Nat /\ p - 1 \in Nat BY <1>1, <1>2
<1>5. \A i \in 1..(p - 1) : i \in DOMAIN q /\ i < p BY <1>1, <1>2, <1>4
<1>6. ASSUME NEW i \in 1..(p - 1) PROVE q[i] \in B
  <2>1. q[i] \in L /\ q[p] \in L /\ q[i] # q[p] BY <1>2, <1>4, <1>5
  <2>2. ~Before(order, ranks[ns][q[p]], ranks[ns][q[i]]) BY <1>2, <1>5
  <2> QED BY <1>3, <2>1, <2>2
<1>7. ASSUME NEW j \in B PROVE \E i \in 1..(p - 1) : q[i] = j
  <2>1. PICK i \in DOMAIN q : q[i] = j BY <1>2
  <2>2. i # p BY <2>1
  <2>3. ~(p < i) BY <1>2, <1>7, <2>1
  <2>4. i \in 1..(p - 1) BY <1>1, <1>2, <1>4, <2>1, <2>2, <2>3
  <2> QED BY <2>1, <2>4
<1>8. \A a, b \in 1..(p - 1) : q[a] = q[b] => a = b BY <1>2, <1>5
<1> HIDE DEF B
<1>9. f \in Bijection(1..(p - 1), B)
  BY <1>6, <1>7, <1>8 DEF Bijection, Injection, Surjection, IsInjective
<1>10. Cardinality(B) = p - 1
  BY <1>4, <1>9, FS_CountingElements DEF ExistsBijection
<1>11. 1 + Cardinality(B) = p BY <1>4, <1>10
<1> QED BY <1>11 DEF Position, B, L

LEMMA PositionRange ==
    ASSUME NEW ns \in NS, NEW order \in RankOrder, NEW k \in RankLiveKeys(ns)
    PROVE  Position(ns, k, order) \in 1..Cardinality(RankLiveKeys(ns))
<1> DEFINE L == RankLiveKeys(ns)
           B == {j \in L \ {k} : Before(order, ranks[ns][j], ranks[ns][k])}
<1>1. IsFiniteSet(L) /\ Cardinality(L) \in Nat BY RankKeysFinite
<1>2. IsFiniteSet(L \ {k}) /\ Cardinality(L \ {k}) = Cardinality(L) - 1
  BY <1>1, FS_RemoveElement
<1>3. B \in SUBSET (L \ {k}) OBVIOUS
<1> HIDE DEF B
<1>4. Cardinality(B) \in Nat /\ Cardinality(B) <= Cardinality(L) - 1
  BY <1>2, <1>3, FS_Subset, FS_CardinalityType
<1>5. 1 + Cardinality(B) \in 1..Cardinality(L) BY <1>1, <1>4
<1> QED BY <1>5 DEF Position, B

-----------------------------------------------------------------------------
(* The theorems about steps.                                               *)

\* No call adds a leaderboard or an entry at or over the limit in force,
\* although RankSet makes the leaderboard before it tests the key limit.
THEOREM RankLimitsAreRespected == RankSpec => RankLimitsRespected
<1> DEFINE Within ==
      /\ Cardinality(boards') > Cardinality(boards) =>
             Cardinality(boards') <= limits.maxNs
      /\ \A ns \in NS : Cardinality(RankKeys(ns)') > Cardinality(RankKeys(ns)) =>
             Cardinality(RankKeys(ns)') <= limits.maxKeys
<1>1. ASSUME RankInv, [RankNext]_rankSpecVars PROVE Within
  <2>1. CASE \E ns \in NS, k \in Key : RankGrows(ns, k)
    BY <1>1, <2>1, RankGrowsWithinLimits
  <2>2. CASE RankShrinks BY <1>1, <2>2, RankShrinksWithinLimits
  <2> QED BY <1>1, <2>1, <2>2, RankStepKinds
<1>2. RankInv /\ [RankNext]_rankSpecVars => [Within]_rankSpecVars BY <1>1
<1> QED BY <1>2, RankInductive, PTL DEF RankSpec, RankLimitsRespected

\* A live score is only ever changed or lost by a call that names it, a flush or
\* a map change, and a map change does to it what its policy says: no query,
\* refused write or write of another key touches it, nor its place among equals.
THEOREM LiveScoresKept == RankSpec => LiveScoreKept
<1> DEFINE sweep == Called("SweepMapEnd") /\ RankSweep
           Kept ==
      \A ns \in NS, k \in Key :
          /\ RankLive(ns, k) => RankSame(ns, k) \/ RankAskedFor(ns, k) \/ sweep
          /\ Ranked(ns, k) /\ sweep => OneMapOlder(ranks[ns][k], ranks'[ns][k])
<1>1. ASSUME RankInv, RankNext, NEW ns \in NS, NEW k \in Key, RankLive(ns, k)
      PROVE  RankSame(ns, k) \/ RankAskedFor(ns, k) \/ sweep
  <2>1. CASE RankCall BY <1>1, <2>1, ScoreKeptUnlessAsked DEF RankInv
  <2>2. CASE UNCHANGED rankVars BY <2>2 DEF rankVars, RankSame
  <2>3. CASE Called("ClearAll") /\ RankClearAll
    BY <2>3 DEF Called, RankAskedFor
  <2> QED BY <1>1, <2>1, <2>2, <2>3 DEF RankNext
<1>2. ASSUME RankInv, NEW ns \in NS, NEW k \in Key, Ranked(ns, k), RankSweep
      PROVE  OneMapOlder(ranks[ns][k], ranks'[ns][k])
  BY <1>2, RankSweepAges DEF RankInv
<1>3. RankInv /\ [RankNext]_rankSpecVars => [Kept]_rankSpecVars BY <1>1, <1>2
<1> QED BY <1>3, RankInductive, PTL DEF RankSpec, LiveScoreKept

\* The counting of get_pos, the nth_element of get_top and the sort of
\* get_range put every live key at the same place, in both orders, for any
\* number of keys, ties and expired entries.
THEOREM PlacesAlwaysAgree == RankSpec => PlacesAgree
<1> DEFINE TopAgrees(ns, order, pos) ==
      RankGetTop(ns, pos, order) =>
          \/ ret'.ok /\ Position(ns, ret'.keys[1], order) = pos
          \/ ~ret'.ok /\ ~\E k \in RankLiveKeys(ns) : Position(ns, k, order) = pos
    RangeAgrees(ns, order, pos, count) ==
      RankGetRange(ns, pos, count, order) =>
          \A k \in RankLiveKeys(ns), i \in 1..count :
              pos >= 1 =>
              (Position(ns, k, order) = pos - 1 + i <=>
                  i <= ret'.num /\ ret'.keys[i] = k)
    Agree ==
      \A ns \in NS, order \in RankOrder :
          /\ \A pos \in Positions : TopAgrees(ns, order, pos)
          /\ \A pos \in Positions, count \in Counts : RangeAgrees(ns, order, pos, count)
<1>1. ASSUME RankInv, NEW ns \in NS, NEW order \in RankOrder, NEW pos \in Positions
      PROVE  TopAgrees(ns, order, pos)
  <2> SUFFICES ASSUME RankGetTop(ns, pos, order)
               PROVE  \/ ret'.ok /\ Position(ns, ret'.keys[1], order) = pos
                      \/ /\ ~ret'.ok
                         /\ ~\E k \in RankLiveKeys(ns) : Position(ns, k, order) = pos
    OBVIOUS
  <2>1. pos \in Int /\ Cardinality(RankLiveKeys(ns)) \in Nat
    BY RankArguments, RankKeysFinite
  <2>2. CASE ret' = Failed /\ (pos < 1 \/ pos > Cardinality(RankLiveKeys(ns)))
    <3>1. ~ret'.ok BY <2>2 DEF Failed, Ret
    <3>2. ASSUME NEW k \in RankLiveKeys(ns) PROVE Position(ns, k, order) # pos
      BY <2>1, <2>2, PositionRange
    <3> QED BY <3>1, <3>2
  <2>3. ASSUME NEW q \in Sorted(ns, order), pos \in 1..Cardinality(RankLiveKeys(ns)),
               ret' = Ret(TRUE, ranks[ns][q[pos]].score, <<q[pos]>>)
        PROVE  ret'.ok /\ Position(ns, ret'.keys[1], order) = pos
    <3>1. ret'.ok /\ ret'.keys[1] = q[pos] BY <2>3 DEF Ret
    <3>2. pos \in DOMAIN q BY <2>3, SortedKeys
    <3>3. Position(ns, q[pos], order) = pos BY <1>1, <3>2, SortedPlace DEF RankInv
    <3> QED BY <3>1, <3>3
  <2> QED BY <2>2, <2>3 DEF RankGetTop, RankFail
<1>2. ASSUME RankInv, NEW ns \in NS, NEW order \in RankOrder, NEW pos \in Positions,
             NEW count \in Counts
      PROVE  RangeAgrees(ns, order, pos, count)
  <2> SUFFICES ASSUME RankGetRange(ns, pos, count, order),
                      NEW k \in RankLiveKeys(ns), NEW i \in 1..count, pos >= 1
               PROVE  Position(ns, k, order) = pos - 1 + i <=>
                          i <= ret'.num /\ ret'.keys[i] = k
    OBVIOUS
  <2> DEFINE slice(q) == SubSeq(q, pos, Lesser(pos - 1 + count, Len(q)))
  <2>1. pos \in Int /\ count \in Nat /\ i \in Nat /\ i >= 1 /\ count # 0
      /\ ~(pos < 1 \/ count = 0)
    BY RankArguments
  <2>2. PICK q \in Sorted(ns, order) :
            ret' = Ret(slice(q) # <<>>, Len(slice(q)), slice(q))
    BY <2>1, Zenon DEF RankGetRange
  <2>3. ret'.num = Len(slice(q)) /\ ret'.keys = slice(q) BY <2>2 DEF Ret
  <2>4. /\ q \in Seq(Key) /\ Len(q) \in Nat /\ DOMAIN q = 1..Len(q)
        /\ \E p \in DOMAIN q : q[p] = k
    BY SortedKeys
  <2>5. /\ i <= Len(slice(q)) <=> pos - 1 + i <= Len(q)
        /\ i <= Len(slice(q)) => slice(q)[i] = q[pos - 1 + i]
    BY <2>1, <2>4, SliceOfSorted
  <2> HIDE DEF slice
  <2>6. \A p \in DOMAIN q : Position(ns, q[p], order) = p
    BY <1>2, SortedPlace DEF RankInv
  <2>7. pos - 1 + i \in Int /\ pos - 1 + i >= 1 BY <2>1
  <2>8. ASSUME Position(ns, k, order) = pos - 1 + i
        PROVE  i <= ret'.num /\ ret'.keys[i] = k
    <3>1. PICK p \in DOMAIN q : q[p] = k BY <2>4
    <3>2. p = pos - 1 + i BY <2>6, <2>8, <3>1
    <3>3. pos - 1 + i <= Len(q) /\ q[pos - 1 + i] = k BY <2>4, <3>1, <3>2
    <3> QED BY <2>3, <2>5, <3>3
  <2>9. ASSUME i <= ret'.num, ret'.keys[i] = k
        PROVE  Position(ns, k, order) = pos - 1 + i
    <3>1. pos - 1 + i <= Len(q) /\ k = q[pos - 1 + i] BY <2>3, <2>5, <2>9
    <3>2. pos - 1 + i \in DOMAIN q BY <2>4, <2>7, <3>1
    <3> QED BY <2>6, <3>1, <3>2
  <2> QED BY <2>8, <2>9
<1>3. RankInv /\ [RankNext]_rankSpecVars => [Agree]_rankSpecVars
  <2> HIDE DEF TopAgrees, RangeAgrees
  <2> QED BY <1>1, <1>2
<1> QED BY <1>3, RankInductive, PTL DEF RankSpec, PlacesAgree
=============================================================================
