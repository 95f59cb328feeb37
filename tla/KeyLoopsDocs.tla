---------------------------- MODULE KeyLoopsDocs ----------------------------
(***************************************************************************)
(* What the include file says of a loop over indexes and the code does not *)
(* do.                                                                     *)
(***************************************************************************)
EXTENDS KeyLoops

\* memstore.inc, mem_get_key_at: the indexes from 0 to the count less 1 hold
\* the names of the keys.  A loop over them in either direction, over a
\* namespace that neither gains nor loses a key meanwhile, names each.
IndexesNameEveryKey ==
    [][EndLoop /\ scan.calm => scan.steady \subseteq scan.seen]_loopSpecVars
=============================================================================
