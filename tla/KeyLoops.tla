------------------------------ MODULE KeyLoops ------------------------------
(***************************************************************************)
(* A plugin that goes through the keys of a namespace, by a callback for   *)
(* each (mem_iterate_keys) or by a loop over indexes: it asks for the      *)
(* count, then for the key at every index below it, upwards or downwards,  *)
(* and may set, delete and let keys expire in the body of the loop.        *)
(*                                                                         *)
(* Here the walk of an unordered_map has the order the standard gives it:  *)
(* erasing keeps the order of the keys that stay, and only a key that is   *)
(* new may change it.                                                      *)
(***************************************************************************)
EXTENDS KeyIteration

VARIABLES
    walk,      \* the order in which each namespace's map is walked
    scan       \* the loop over indexes, if one runs

loopVars == <<walk, scan>>
loopSpecVars == <<iterSpecVars, loopVars>>

Directions == {"none", "up", "down"}

\* index runs through 0..count-1.  The rest is history: the keys live ever
\* since the loop began, those it has named, and whether the namespace began
\* with a value under every key and has neither gained nor lost one since.
Scan == [direction : Directions, ns : NS \cup {NoName}, index : Int, count : Nat,
         steady : SUBSET Key, seen : SUBSET Key, calm : BOOLEAN]

NoScan == [direction |-> "none", ns |-> NoName, index |-> 0, count |-> 0,
           steady |-> {}, seen |-> {}, calm |-> TRUE]

LoopsInit ==
    /\ IterationInit
    /\ walk = [ns \in NS |-> <<>>]
    /\ scan = NoScan

-----------------------------------------------------------------------------

LiveWalk(ns) == SelectSeq(walk[ns], LAMBDA k : Live(ns, k))

\* A cache built in this step lists the live keys in the order of the walk.
BuiltInOrder ==
    \A ns \in NS :
        HasValidCache(ns)' /\ caches'[ns] # caches[ns] => caches'[ns].keys = LiveWalk(ns)

NextWalks(ns) ==
    IF Keys(ns)' \subseteq Keys(ns)
    THEN {SelectSeq(walk[ns], LAMBDA k : Present(ns, k)')}
    ELSE Orders(Keys(ns)')

Walked ==
    /\ BuiltInOrder
    /\ walk' \in {w \in [NS -> UNION {NextWalks(ns) : ns \in NS}] :
                     \A ns \in NS : w[ns] \in NextWalks(ns)}

-----------------------------------------------------------------------------
(* The loop over indexes.                                                  *)

\* A set refused at the quota leaves a key without a value.
Valueless(ns) == {k \in LiveKeys(ns) : entries[ns][k].type = "None"}

StartLoop(ns, direction) ==
    /\ scan.direction = "none"
    /\ mem_get_namespace_count(ns)
    /\ answer'.result > 0
    /\ LET count == answer'.result
       IN  scan' = [NoScan EXCEPT !.direction = direction, !.ns = ns, !.count = count,
                       !.index = IF direction = "up" THEN 0 ELSE count - 1,
                       !.steady = LiveKeys(ns)', !.calm = Valueless(ns)' = {}]

\* Its history over a step of the plugin.
Held == [ns \in NS |-> <<Keys(ns), LiveKeys(ns)>>]

Noted ==
    IF scan.direction = "none" THEN scan
    ELSE [scan EXCEPT !.steady = @ \cap Held'[scan.ns][2],
                      !.calm = @ /\ Held'[scan.ns] = Held[scan.ns]]

AskNext ==
    /\ scan.direction # "none"
    /\ scan.index \in 0..(scan.count - 1)
    /\ mem_get_key_at(scan.ns, scan.index, 1)
    /\ scan' = [Noted EXCEPT
           !.index = IF scan.direction = "up" THEN @ + 1 ELSE @ - 1,
           !.seen = IF answer'.result = 1 THEN @ \cup {answer'.wrote[1]} ELSE @]

EndLoop ==
    /\ scan.direction # "none"
    /\ scan.index \notin 0..(scan.count - 1)
    /\ scan' = NoScan
    /\ UNCHANGED nativeVars

\* The body of a loop or callback, and what the plugin does outside of them.
Body ==
    \/ \E ns \in NS, k \in Key, val \in Cells, opt \in ExpiryArgs :
           mem_set_int(ns, k, val, opt)
    \/ \E ns \in NS, k \in Key : mem_delete_key(ns, k)
    \/ \E ns \in NS, k \in Key, len \in Lengths : mem_set_string(ns, k, len, <<>>)
    \/ \E ns \in NS, index \in Indexes : mem_get_key_at(ns, index, 1)
    \/ Wait /\ UNCHANGED answer

LoopsNext ==
    \/ Body /\ Watched /\ scan' = Noted /\ Walked
    \/ /\ scan.direction = "none"
       /\ IterationCall
       /\ Walked
       /\ UNCHANGED scan
    \/ /\ Depth = 0
       /\ \/ \E ns \in NS, direction \in {"up", "down"} : StartLoop(ns, direction)
          \/ AskNext
          \/ EndLoop
       /\ Walked
       /\ UNCHANGED iterVars

LoopsSpec == LoopsInit /\ [][LoopsNext]_loopSpecVars /\ CallbacksReturn

-----------------------------------------------------------------------------

\* Over a namespace whose keys all have a value and which neither gains nor
\* loses one meanwhile, a loop from index 0 up names every key, although the
\* cache it starts on may list keys dropped before, and sets in its body may
\* have the cache built again at any index.
UpwardLoopComplete ==
    [][EndLoop /\ scan.direction = "up" /\ scan.calm => scan.steady \subseteq scan.seen]_loopSpecVars
=============================================================================
