---------------------------- MODULE Leaderboard ----------------------------
(***************************************************************************)
(* What the rank natives promise, without clocks, sequence numbers or      *)
(* expired entries waiting to be dropped: each leaderboard is a table of   *)
(* scores, with whose last write came before whose.  A write makes an      *)
(* entry the latest of its leaderboard, also one that leaves the score as  *)
(* it is: there memstore.inc promises another order among equal scores,    *)
(* and RankEngineDocs states that one.  Entries may leave at any time      *)
(* (deleted, cleared, expired or swept), and every query is answered from  *)
(* the table.                                                              *)
(***************************************************************************)
EXTENDS Integers, FiniteSets, Sequences

CONSTANTS NS, Key, CellMin, CellMax, Scores, Deltas, Positions, Counts

VARIABLES
    table,     \* the score of each key of each leaderboard
    earlier,   \* the pairs whose first key was last written before the second
    call, ret  \* the last call and its answer

vars == <<table, earlier, call, ret>>

Order == {"Desc", "Asc"}
Unlisted == [listed |-> FALSE, score |-> 0]
No == [ok |-> FALSE, num |-> 0, keys |-> <<>>]
Yes(num, keys) == [ok |-> TRUE, num |-> num, keys |-> keys]

Init ==
    /\ table = [ns \in NS |-> [k \in Key |-> Unlisted]]
    /\ earlier = [ns \in NS |-> {}]
    /\ call = "MemStoreManager"
    /\ ret = No

-----------------------------------------------------------------------------

Listed(ns, k) == table[ns][k].listed
Listing(ns) == {k \in Key : Listed(ns, k)}
Size(ns) == Cardinality(Listing(ns))
ScoreOf(ns, k) == table[ns][k].score

\* By score, and among equal scores by who was last written first.
Ahead(ns, j, k, order) ==
    \/ order = "Desc" /\ ScoreOf(ns, j) > ScoreOf(ns, k)
    \/ order = "Asc" /\ ScoreOf(ns, j) < ScoreOf(ns, k)
    \/ ScoreOf(ns, j) = ScoreOf(ns, k) /\ <<j, k>> \in earlier[ns]

Place(ns, k, order) == 1 + Cardinality({j \in Listing(ns) : Ahead(ns, j, k, order)})

-----------------------------------------------------------------------------

Unchanged == UNCHANGED <<table, earlier>>

Enter(ns, k, score) ==
    /\ table' = [table EXCEPT ![ns][k] = [listed |-> TRUE, score |-> score]]
    /\ earlier' = [earlier EXCEPT ![ns] =
                      {p \in @ : k \notin {p[1], p[2]}} \cup ((Listing(ns) \ {k}) \X {k})]

\* What is left of a leaderboard when the keys in gone leave it.
TableWithout(ns, gone) == [k \in Key |-> IF k \in gone THEN Unlisted ELSE table[ns][k]]
EarlierWithout(ns, gone) == {p \in earlier[ns] : {p[1], p[2]} \cap gone = {}}

Drop(ns, gone) ==
    /\ table' = [table EXCEPT ![ns] = TableWithout(ns, gone)]
    /\ earlier' = [earlier EXCEPT ![ns] = EarlierWithout(ns, gone)]

\* A write takes effect or, at a limit, is refused.
Set(ns, k, score) ==
    /\ call' = "RankSet"
    /\ \/ ret' = No /\ Unchanged
       \/ ret' = Yes(0, <<>>) /\ Enter(ns, k, score)

Inc(ns, k, delta) ==
    LET old == IF Listed(ns, k) THEN ScoreOf(ns, k) ELSE 0
        sum == ((old + delta - CellMin) % (CellMax - CellMin + 1)) + CellMin
    IN  /\ call' = "RankInc"
        /\ \/ ret' = No /\ ~Listed(ns, k) /\ Unchanged
           \/ ret' = Yes(sum, <<>>) /\ Enter(ns, k, sum)

\* The answers, and the calls that give them.
Answer(ns) ==
    \/ \E k \in Key :
          /\ call' = "RankGetScore"
          /\ ret' = IF Listed(ns, k) THEN Yes(ScoreOf(ns, k), <<>>) ELSE No
    \/ \E k \in Key :
          /\ call' = "RankExists"
          /\ ret' = IF Listed(ns, k) THEN Yes(0, <<>>) ELSE No
    \/ \E k \in Key, order \in Order :
          /\ call' = "RankGetPosition"
          /\ ret' = IF Listed(ns, k) THEN Yes(Place(ns, k, order), <<>>) ELSE No
    \/ \E pos \in Positions, order \in Order :
          /\ call' = "RankGetTop"
          /\ \/ pos \notin 1..Size(ns) /\ ret' = No
             \/ \E k \in Listing(ns) :
                   Place(ns, k, order) = pos /\ ret' = Yes(ScoreOf(ns, k), <<k>>)
    \/ \E start \in Positions, count \in Counts, order \in Order :
          LET beyond == Size(ns) - start + 1
              n == IF count < beyond THEN count ELSE beyond
          IN  /\ call' = "RankGetRange"
              /\ \/ (start < 1 \/ n < 1) /\ ret' = No
                 \/ /\ start >= 1 /\ n >= 1
                    /\ ret' = Yes(n, ret'.keys) /\ Len(ret'.keys) = n
                    /\ \A i \in 1..n :
                          /\ ret'.keys[i] \in Listing(ns)
                          /\ Place(ns, ret'.keys[i], order) = start + i - 1
    \/ call' = "RankGetCount" /\ ret' = Yes(Size(ns), <<>>)

\* mem_rank_delete and mem_rank_clear report success whenever something was
\* listed; they may also do so for entries that had already left.
Remove(ns, gone) ==
    /\ Drop(ns, gone)
    /\ ret' = Yes(0, <<>>) \/ (ret' = No /\ gone \cap Listing(ns) = {})

\* Entries leave by the clock or by a lifecycle call.
Leave ==
    /\ \/ UNCHANGED <<call, ret>>
       \/ call' \in {"SweepMapEnd", "ClearAll"} /\ ret' = Yes(0, <<>>)
    /\ \A ns \in NS : \E gone \in SUBSET Key :
          /\ table'[ns] = TableWithout(ns, gone)
          /\ earlier'[ns] = EarlierWithout(ns, gone)

Configure == call' = "SetLimits" /\ ret' = Yes(0, <<>>) /\ Unchanged

Next ==
    \/ \E ns \in NS, k \in Key, score \in Scores : Set(ns, k, score)
    \/ \E ns \in NS, k \in Key, delta \in Deltas : Inc(ns, k, delta)
    \/ \E ns \in NS, k \in Key : call' = "RankDelete" /\ Remove(ns, {k})
    \/ \E ns \in NS : call' = "RankClear" /\ Remove(ns, Key)
    \/ \E ns \in NS : Answer(ns) /\ Unchanged
    \/ Leave
    \/ Configure

Spec == Init /\ [][Next]_vars
=============================================================================
