---------------------------- MODULE MCAmxxModule ----------------------------
(* An instance of AmxxModule small enough for TLC.                          *)
EXTENDS AmxxModule, TLC

CONSTANTS n1, k1

\* call, ret and answer stay out: no action reads them.
ModuleView == <<memVars, iterVars, hostVars>>

\* No quota for strings and arrays until a plugin asks for a byte.
ModuleLimits == [maxKeys |-> 1, maxArray |-> 1, maxString |-> 1, maxNs |-> 1, maxMem |-> 0]
ModuleFallback == [keys |-> 1, array |-> 1, string |-> 1]

\* Every policy, a TTL over the cap, and a code that is no policy.
ModuleExpiryArgs == {<<>>, <<1>>, <<2, 2>>, <<3, 2>>, <<4>>}
Exp(policy, extra) == [policy |-> policy, extra |-> extra]
ModuleExpirations ==
    {Exp("Persistent", 0), Exp("MapEnd", 0), Exp("MapCount", 2), Exp("TTL", 2)}
ModuleOrderArgs == {<<1>>, <<2>>}

ModuleTails == {<<>>, <<0, 1>>}
ModuleCalls ==
    {[keys |-> 1, array |-> 1, string |-> 1, nss |-> 0, mb |-> mb] : mb \in {0, 1}}

\* The hypothesis of the theorems about the natives.
ASSUME StoreTakesThese == StoreTakesArguments
=============================================================================
