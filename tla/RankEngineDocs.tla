--------------------------- MODULE RankEngineDocs ---------------------------
(***************************************************************************)
(* What the include file says of a leaderboard and the code does not do.   *)
(***************************************************************************)
EXTENDS RankEngine

Tied(ns, j, k) ==
    RankLive(ns, j) /\ RankLive(ns, k) /\ ranks[ns][j].score = ranks[ns][k].score

\* memstore.inc, mem_rank_get_pos: ties go to whoever scored first.  Of two
\* entries with one score, the one ahead stays ahead through every call that
\* leaves both scores as they are.
FirstToScoreStaysAhead ==
    [][\A ns \in NS, j, k \in Key, order \in RankOrder :
          /\ Tied(ns, j, k) /\ Position(ns, j, order) < Position(ns, k, order)
          /\ Tied(ns, j, k)' /\ ranks'[ns][j].score = ranks[ns][j].score
          => (Position(ns, j, order) < Position(ns, k, order))']_rankSpecVars
=============================================================================
