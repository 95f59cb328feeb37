----------------------------- MODULE RankEngine -----------------------------
(***************************************************************************)
(* The rank half of MemStoreManager: per namespace a map from key to score *)
(* with expiry, ordered on demand by score and, among equal scores, by the *)
(* sequence number the last write to the entry took from one counter.      *)
(* Every query first drops the expired entries it meets.                   *)
(***************************************************************************)
EXTENDS Engine, FiniteSetsExt

CONSTANTS
    Scores,           \* arguments: scores of rank_set
    Positions,        \* arguments: one-based positions
    Counts,           \* arguments: lengths of a range
    MaxSequence       \* bound of the sequence counter

RankOrder == {"Desc", "Asc"}

RankEntry == [score : Cell, sequence : Nat, policy : ExpirePolicy, until : Int]

ASSUME RankAssumption ==
    /\ Scores \subseteq Cell
    /\ Positions \subseteq Int /\ Counts \subseteq Nat
    /\ MaxSequence \in Nat

ASSUME RankMarker == Absent \notin RankEntry

VARIABLES
    boards,           \* the keys of m_Ranks
    ranks,            \* what m_Ranks holds, Absent where it holds nothing
    sequence          \* m_RankSequenceCounter

rankVars == <<boards, ranks, sequence>>
rankSpecVars == <<rankVars, limits, now, call, ret>>

NoRanks == [ns \in NS |-> [k \in Key |-> Absent]]

RankInit ==
    /\ EngineInit
    /\ boards = {}
    /\ ranks = NoRanks
    /\ sequence = 0

-----------------------------------------------------------------------------
(* A leaderboard as its methods see it.                                    *)

Ranked(ns, k) == ranks[ns][k] # Absent
RankKeys(ns) == {k \in Key : Ranked(ns, k)}
RankLive(ns, k) == Ranked(ns, k) /\ ~IsExpired(ranks[ns][k], now)
RankLiveKeys(ns) == {k \in Key : RankLive(ns, k)}

\* Mutant: the later of two equal scores goes first.
BeforeOrLater(order, a, b) ==
    \/ order = "Desc" /\ a.score > b.score
    \/ order = "Asc" /\ a.score < b.score
    \/ a.score = b.score /\ a.sequence > b.sequence

\* compDesc and compAsc
Before(order, a, b) ==
    \/ order = "Desc" /\ a.score > b.score
    \/ order = "Asc" /\ a.score < b.score
    \/ a.score = b.score /\ a.sequence < b.sequence

\* One more than the live entries before k.
Position(ns, k, order) ==
    1 + Cardinality({j \in RankLiveKeys(ns) \ {k} :
                        Before(order, ranks[ns][j], ranks[ns][k])})

\* The ways std::sort may leave the live entries: none after one it is before.
Sorted(ns, order) ==
    {q \in Bijection(1..Cardinality(RankLiveKeys(ns)), RankLiveKeys(ns)) :
        \A i, j \in DOMAIN q : i < j => ~Before(order, ranks[ns][q[j]], ranks[ns][q[i]])}

\* Mutant: an empty leaderboard stays.
RankEraseKeysOnly(ns, gone) ==
    /\ ranks' = [ranks EXCEPT ![ns] =
                    [k \in Key |-> IF k \in gone THEN Absent ELSE @[k]]]
    /\ UNCHANGED boards

\* Erase the keys in gone, and the leaderboard with its last key.
RankErase(ns, gone) ==
    /\ ranks' = [ranks EXCEPT ![ns] =
                    [k \in Key |-> IF k \in gone THEN Absent ELSE @[k]]]
    /\ boards' = IF RankKeys(ns) \subseteq gone THEN boards \ {ns} ELSE boards

\* What every query over a leaderboard does to it first.
RankPurge(ns) == RankErase(ns, RankKeys(ns) \ RankLiveKeys(ns))

RankFail(result) == ret' = result /\ UNCHANGED <<boards, ranks>>

-----------------------------------------------------------------------------
(* Writers.  Each takes the next sequence number, also for a score that    *)
(* does not change.                                                        *)

\* Mutant: the entry takes the number before the counter moves.
RankPutLate(ns, k, score, ex) ==
    /\ boards' = boards \cup {ns}
    /\ ranks' = [ranks EXCEPT ![ns][k] =
                    WithExpiration([score |-> score, sequence |-> sequence,
                                    policy |-> "Persistent", until |-> 0], ex, now)]
    /\ sequence' = IF Ranked(ns, k) THEN sequence ELSE sequence + 1

RankPut(ns, k, score, ex) ==
    /\ boards' = boards \cup {ns}
    /\ ranks' = [ranks EXCEPT ![ns][k] =
                    WithExpiration([score |-> score, sequence |-> sequence + 1,
                                    policy |-> "Persistent", until |-> 0], ex, now)]
    /\ sequence' = sequence + 1

\* Mutant: lets one more in.
BoardsFullLate == Cardinality(boards) > limits.maxNs

BoardsFull == Cardinality(boards) >= limits.maxNs

\* A new leaderboard is made before its key is tested against the key limit.
RankStore(ns, k, score, ex, result) ==
    /\ \/ /\ ns \notin boards /\ BoardsFull
          /\ RankFail(Failed)
          /\ UNCHANGED sequence
       \/ /\ ns \in boards \/ ~BoardsFull
          /\ ~Ranked(ns, k) /\ Cardinality(RankKeys(ns)) >= limits.maxKeys
          /\ boards' = boards \cup {ns}
          /\ ret' = Failed
          /\ UNCHANGED <<ranks, sequence>>
       \/ /\ ns \in boards \/ ~BoardsFull
          /\ Ranked(ns, k) \/ Cardinality(RankKeys(ns)) < limits.maxKeys
          /\ RankPut(ns, k, score, ex)
          /\ ret' = result
    /\ UNCHANGED <<limits, now>>

RankSet(ns, k, score, ex) ==
    Called("RankSet") /\ RankStore(ns, k, score, ex, Succeeded)

RankInc(ns, k, delta, ex) ==
    /\ Called("RankInc")
    /\ \/ /\ ~Ranked(ns, k)
          /\ RankStore(ns, k, delta, ex, Ret(TRUE, delta, <<>>))
       \/ /\ Ranked(ns, k) /\ ~RankLive(ns, k)
          /\ RankPut(ns, k, delta, ex)
          /\ ret' = Ret(TRUE, delta, <<>>)
          /\ UNCHANGED <<limits, now>>
       \/ /\ RankLive(ns, k)
          /\ LET sum == WrapCell(ranks[ns][k].score + delta)
                 e == [ranks[ns][k] EXCEPT !.score = sum, !.sequence = sequence + 1]
             IN  /\ ranks' = [ranks EXCEPT ![ns][k] =
                                 IF RenewsExpiry(ex) THEN WithExpiration(e, ex, now) ELSE e]
                 /\ ret' = Ret(TRUE, sum, <<>>)
          /\ sequence' = sequence + 1
          /\ UNCHANGED <<boards, limits, now>>

RankDelete(ns, k) ==
    /\ Called("RankDelete")
    /\ \/ ~Ranked(ns, k) /\ RankFail(Failed)
       \/ /\ Ranked(ns, k)
          /\ RankErase(ns, {k})
          /\ ret' = Succeeded
    /\ UNCHANGED <<sequence, limits, now>>

RankClear(ns) ==
    /\ Called("RankClear")
    /\ \/ ns \notin boards /\ RankFail(Failed)
       \/ /\ ns \in boards
          /\ RankErase(ns, Key)
          /\ ret' = Succeeded
    /\ UNCHANGED <<sequence, limits, now>>

-----------------------------------------------------------------------------
(* Queries.                                                                *)

\* Drops the key alone when it finds it expired.
RankLookup(ns, k, answer) ==
    /\ \/ ~Ranked(ns, k) /\ RankFail(Failed)
       \/ /\ Ranked(ns, k) /\ ~RankLive(ns, k)
          /\ RankErase(ns, {k})
          /\ ret' = Failed
       \/ /\ RankLive(ns, k)
          /\ ret' = answer
          /\ UNCHANGED <<boards, ranks>>
    /\ UNCHANGED <<sequence, limits, now>>

RankGetScore(ns, k) ==
    Called("RankGetScore") /\ RankLookup(ns, k, Ret(TRUE, ranks[ns][k].score, <<>>))

RankExists(ns, k) ==
    Called("RankExists") /\ RankLookup(ns, k, Succeeded)

\* Counts the live entries before a live key, and drops the expired ones.
RankGetPosition(ns, k, order) ==
    /\ Called("RankGetPosition")
    /\ \/ ~Ranked(ns, k) /\ RankFail(Failed)
       \/ /\ Ranked(ns, k) /\ ~RankLive(ns, k)
          /\ RankErase(ns, {k})
          /\ ret' = Failed
       \/ /\ RankLive(ns, k)
          /\ RankPurge(ns)
          /\ ret' = Ret(TRUE, Position(ns, k, order), <<>>)
    /\ UNCHANGED <<sequence, limits, now>>

\* std::nth_element puts at pos a key that a full sort may put there.
RankGetTop(ns, pos, order) ==
    /\ Called("RankGetTop")
    /\ \/ pos < 1 /\ RankFail(Failed)
       \/ /\ pos >= 1 /\ pos > Cardinality(RankLiveKeys(ns))
          /\ RankPurge(ns)
          /\ ret' = Failed
       \/ /\ pos \in 1..Cardinality(RankLiveKeys(ns))
          /\ RankPurge(ns)
          /\ \E q \in Sorted(ns, order) :
                ret' = Ret(TRUE, ranks[ns][q[pos]].score, <<q[pos]>>)
    /\ UNCHANGED <<sequence, limits, now>>

\* std::partial_sort, or std::sort when the range reaches the end.
RankGetRange(ns, start, count, order) ==
    /\ Called("RankGetRange")
    /\ \/ (start < 1 \/ count = 0) /\ RankFail(Failed)
       \/ /\ start >= 1 /\ count > 0
          /\ RankPurge(ns)
          /\ \E q \in Sorted(ns, order) :
                LET slice == SubSeq(q, start, Lesser(start - 1 + count, Len(q)))
                IN  ret' = Ret(slice # <<>>, Len(slice), slice)
    /\ UNCHANGED <<sequence, limits, now>>

RankGetCount(ns) ==
    /\ Called("RankGetCount")
    /\ RankPurge(ns)
    /\ ret' = Ret(TRUE, Cardinality(RankLiveKeys(ns)), <<>>)
    /\ UNCHANGED <<sequence, limits, now>>

-----------------------------------------------------------------------------
(* Lifecycle: what the rank half does of each lifecycle call.              *)

\* Mutant: takes no map change off the entries that stay.
RankSweepKeepsCount ==
    LET stays(ns, k) == Ranked(ns, k) /\ ~EndsAtSweep(ranks[ns][k], now)
    IN  /\ ranks' = [ns \in NS |-> [k \in Key |->
                        IF stays(ns, k) THEN ranks[ns][k] ELSE Absent]]
        /\ boards' = {ns \in boards : \E k \in Key : stays(ns, k)}
        /\ UNCHANGED sequence

RankSweep ==
    LET stays(ns, k) == Ranked(ns, k) /\ ~EndsAtSweep(ranks[ns][k], now)
    IN  /\ ranks' = [ns \in NS |-> [k \in Key |->
                        IF stays(ns, k) THEN AfterSweep(ranks[ns][k]) ELSE Absent]]
        /\ boards' = {ns \in boards : \E k \in Key : stays(ns, k)}
        /\ UNCHANGED sequence

\* Mutant: forgets the leaderboards.
RankClearCounterOnly == sequence' = 0 /\ UNCHANGED <<boards, ranks>>

RankClearAll ==
    /\ boards' = {}
    /\ ranks' = NoRanks
    /\ sequence' = 0

\* The methods that take a sequence number.
RankWrite(ns, k) ==
    \E ex \in Expirations :
        \/ \E score \in Scores : RankSet(ns, k, score, ex)
        \/ \E delta \in Deltas : RankInc(ns, k, delta, ex)

RankQuery(ns) ==
    \/ \E k \in Key : RankGetScore(ns, k)
    \/ \E k \in Key : RankExists(ns, k)
    \/ \E k \in Key, order \in RankOrder : RankGetPosition(ns, k, order)
    \/ \E pos \in Positions, order \in RankOrder : RankGetTop(ns, pos, order)
    \/ \E pos \in Positions, count \in Counts, order \in RankOrder :
           RankGetRange(ns, pos, count, order)
    \/ RankGetCount(ns)

RankCall ==
    \/ \E ns \in NS, k \in Key : sequence < MaxSequence /\ RankWrite(ns, k)
    \/ \E ns \in NS, k \in Key : RankDelete(ns, k)
    \/ \E ns \in NS : RankClear(ns)
    \/ \E ns \in NS : RankQuery(ns)

\* The lifecycle calls when there is nothing but leaderboards.
RankNext ==
    \/ RankCall
    \/ /\ Called("SweepMapEnd") /\ RankSweep
       /\ ret' = Succeeded /\ UNCHANGED <<limits, now>>
    \/ /\ Called("ClearAll") /\ RankClearAll
       /\ ret' = Succeeded /\ UNCHANGED <<limits, now>>
    \/ \E a \in LimitArgs :
          /\ Called("SetLimits") /\ UpdateLimits(a)
          /\ ret' = Succeeded /\ UNCHANGED <<rankVars, now>>
    \/ AdvanceClock /\ UNCHANGED <<rankVars, limits, call, ret>>

RankSpec == RankInit /\ [][RankNext]_rankSpecVars

-----------------------------------------------------------------------------
(* What always holds.                                                      *)

\* Every field keeps its type whatever the plugins call.
RankTypeOK ==
    /\ EngineTypeOK
    /\ boards \subseteq NS
    /\ ranks \in [NS -> [Key -> RankEntry \cup {Absent}]]
    /\ sequence \in Nat

\* m_Ranks holds exactly the leaderboards with an entry, although a write makes
\* the leaderboard before it asks whether the key may enter.
NoEmptyBoard == \A ns \in NS : ns \in boards <=> RankKeys(ns) # {}

\* No two entries of a leaderboard share a sequence number and none is ahead of
\* the counter, through resets of the counter included: ties always break.
SequencesDistinct ==
    \A ns \in NS : \A j, k \in RankKeys(ns) :
        /\ ranks[ns][k].sequence \in 1..sequence
        /\ j # k => ranks[ns][j].sequence # ranks[ns][k].sequence

-----------------------------------------------------------------------------
(* What no step does.                                                      *)

RankSame(ns, k) == ranks'[ns][k] = ranks[ns][k]

\* The three ways to ask for an order agree: the key get_top and get_range put
\* at a place is the one get_pos counts to that place, in both orders, and a
\* range is as long as the live entries allow.
PlacesAgree ==
    [][\A ns \in NS, order \in RankOrder :
          /\ \A pos \in Positions : RankGetTop(ns, pos, order) =>
                \/ ret'.ok /\ Position(ns, ret'.keys[1], order) = pos
                \/ ~ret'.ok /\ ~\E k \in RankLiveKeys(ns) : Position(ns, k, order) = pos
          /\ \A pos \in Positions, count \in Counts :
                RankGetRange(ns, pos, count, order) =>
                    \A k \in RankLiveKeys(ns), i \in 1..count :
                        pos >= 1 =>
                        (Position(ns, k, order) = pos - 1 + i <=>
                            i <= ret'.num /\ ret'.keys[i] = k)]_rankSpecVars

\* No call adds a leaderboard or an entry at or over the limit in force.
RankLimitsRespected ==
    [][/\ Cardinality(boards') > Cardinality(boards) =>
              Cardinality(boards') <= limits.maxNs
       /\ \A ns \in NS : Cardinality(RankKeys(ns)') > Cardinality(RankKeys(ns)) =>
              Cardinality(RankKeys(ns)') <= limits.maxKeys]_rankSpecVars

\* The calls that may end or change the entry under k at any moment.
RankAskedFor(ns, k) ==
    \/ RankWrite(ns, k) \/ RankDelete(ns, k) \/ RankClear(ns)
    \/ call' \in {"ClearAll", "HeapAbort"} /\ RankClearAll

\* A live score keeps its value, its place among equals, its policy and the
\* time it has left through every call that does not name it, though queries
\* drop what they find expired.  The second loop of the sweep, a copy of the
\* first, makes of a score what a map change makes of a key.
LiveScoreKept ==
    [][\A ns \in NS, k \in Key :
          LET sweep == Called("SweepMapEnd") /\ RankSweep
          IN  /\ RankLive(ns, k) => RankSame(ns, k) \/ RankAskedFor(ns, k) \/ sweep
              /\ Ranked(ns, k) /\ sweep =>
                     OneMapOlder(ranks[ns][k], ranks'[ns][k])]_rankSpecVars
=============================================================================
