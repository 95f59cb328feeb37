----------------------------- MODULE MCKeyLoops -----------------------------
(* Instances of KeyLoops small enough for TLC.                              *)
EXTENDS KeyLoopsDocs, TLC

CONSTANTS n1, k1, k2, k3

\* call, ret and answer stay out: no action reads them.
LoopsView == <<memVars, iterVars, loopVars>>

\* The keys are alike; used where no liveness is checked.
KeySymmetry == Permutations(Key)

\* Limits that let every key in and refuse every string.
LoopLimits == [maxKeys |-> 3, maxArray |-> 1, maxString |-> 1, maxNs |-> 1, maxMem |-> 0]

LoopFallback == [keys |-> 3, array |-> 1, string |-> 1]

\* No argument, and a TTL of a second.
LoopExpiries == {<<>>, <<3, 1>>}
LoopExpirations ==
    {[policy |-> "Persistent", extra |-> 0], [policy |-> "TTL", extra |-> 1]}
=============================================================================
