---------------------------- MODULE KVRefinement ----------------------------
(* The key-value store implements the abstract dictionary.                  *)
EXTENDS KVStore

Missing == [type |-> "Missing", n |-> 0]

\* The live entries; what has expired and still sits in the map is not there.
Dict ==
    [ns \in NS |-> [k \in Key |->
        IF Live(ns, k) THEN [type |-> entries[ns][k].type, n |-> entries[ns][k].n]
        ELSE Missing]]

AbstractDict == INSTANCE Dictionary WITH dict <- Dict

\* Every call of the store answers as the abstract dictionary does: a value
\* written is read back until it leaves whole, whatever expiry, lazy dropping,
\* cached key lists, refusals and sweeps come in between.
ImplementsDictionary == AbstractDict!Spec
=============================================================================
