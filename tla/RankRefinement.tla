--------------------------- MODULE RankRefinement ---------------------------
(* The rank engine implements the abstract leaderboard.                     *)
EXTENDS RankEngine

\* The live entries; what has expired and still sits in the map is not listed.
Table ==
    [ns \in NS |-> [k \in Key |->
        IF RankLive(ns, k) THEN [listed |-> TRUE, score |-> ranks[ns][k].score]
        ELSE [listed |-> FALSE, score |-> 0]]]

\* The sequence numbers say whose last write came before whose.
Earlier ==
    [ns \in NS |-> {p \in RankLiveKeys(ns) \X RankLiveKeys(ns) :
                       ranks[ns][p[1]].sequence < ranks[ns][p[2]].sequence}]

AbstractBoard == INSTANCE Leaderboard WITH table <- Table, earlier <- Earlier

\* Every call of the engine answers as the abstract leaderboard does, whatever
\* order writes, expiry, lazy dropping, sweeps and counter resets come in.
ImplementsLeaderboard == AbstractBoard!Spec
=============================================================================
