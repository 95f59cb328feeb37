----------------------------- MODULE Dictionary -----------------------------
(***************************************************************************)
(* What the key-value natives promise, without clocks, caches, accounts or *)
(* expired entries waiting to be dropped: each namespace is a dictionary   *)
(* from keys to values.  A write takes effect whole or is refused, entries *)
(* may leave at any time (deleted, cleared, expired or swept), and every   *)
(* query is answered from the dictionary.                                  *)
(***************************************************************************)
EXTENDS Integers, FiniteSets, Sequences

CONSTANTS NS, Key, CellMin, CellMax, Cells, Deltas, Lengths, Sizes, Indexes

VARIABLES
    dict,      \* the values of each namespace, None under a key without one
    call, ret  \* the last call and its answer

vars == <<dict, call, ret>>

None == [type |-> "Missing", n |-> 0]
No == [ok |-> FALSE, num |-> 0, keys |-> <<>>]
Yes(num, keys) == [ok |-> TRUE, num |-> num, keys |-> keys]

TypeCode == [None |-> 0, Int |-> 1, Float |-> 2, String |-> 3, Array |-> 4]

Init ==
    /\ dict = [ns \in NS |-> [k \in Key |-> None]]
    /\ call = "MemStoreManager"
    /\ ret = No

-----------------------------------------------------------------------------

Has(ns, k) == dict[ns][k] # None
HasType(ns, k, type) == dict[ns][k].type = type
KeysOf(ns) == {k \in Key : Has(ns, k)}

Enter(ns, k, type, n) ==
    dict' = [dict EXCEPT ![ns][k] = [type |-> type, n |-> n]]

Without(ns, gone) == [k \in Key |-> IF k \in gone THEN None ELSE dict[ns][k]]

-----------------------------------------------------------------------------
(* Writes.                                                                 *)

Refused == ret' = No /\ UNCHANGED dict

Set(ns, k, type, n) ==
    \/ Refused
    \/ Enter(ns, k, type, n) /\ ret' = Yes(0, <<>>)

\* A payload may be cut, and one refused may leave its key without a value.
SetPayload(ns, k, type, n) ==
    \/ \E m \in 0..n : Set(ns, k, type, m)
    \/ ~Has(ns, k) /\ Enter(ns, k, "None", 0) /\ ret' = No

\* Starts from delta where there is nothing to add it to.
Add(ns, k, type, delta, sum) ==
    \/ ~Has(ns, k) /\ (Refused \/ (Enter(ns, k, type, delta) /\ ret' = Yes(delta, <<>>)))
    \/ Has(ns, k) /\ ~HasType(ns, k, type) /\ Refused
    \/ HasType(ns, k, type) /\ Enter(ns, k, type, sum) /\ ret' = Yes(sum, <<>>)

Wrapped(x) == ((x - CellMin) % (CellMax - CellMin + 1)) + CellMin

\* A new policy leaves the value as it is.  A key that has expired, but is
\* still in memory, comes back with it.
Renew(ns, k) ==
    \/ ret' = Yes(0, <<>>) /\ Has(ns, k) /\ UNCHANGED dict
    \/ /\ ret' = Yes(0, <<>>) /\ ~Has(ns, k)
       /\ \A other \in NS \X Key : other # <<ns, k>> =>
              dict'[other[1]][other[2]] = dict[other[1]][other[2]]
    \/ ret' = No /\ ~Has(ns, k) /\ UNCHANGED dict

Write(ns, k) ==
    \/ call' = "SetInt" /\ \E n \in Cells : Set(ns, k, "Int", n)
    \/ call' = "SetFloat" /\ Set(ns, k, "Float", 0)
    \/ call' = "SetString" /\ \E n \in Lengths : SetPayload(ns, k, "String", n)
    \/ call' = "SetArray" /\ \E n \in Sizes : SetPayload(ns, k, "Array", n)
    \/ call' = "IncInt" /\ \E d \in Deltas : Add(ns, k, "Int", d, Wrapped(dict[ns][k].n + d))
    \/ call' = "IncFloat" /\ Add(ns, k, "Float", 0, 0)
    \/ call' = "SetExpire" /\ Renew(ns, k)

-----------------------------------------------------------------------------
(* Answers.  None of them changes a value.                                 *)

Typed(ns, k, type, num) == ret' = IF HasType(ns, k, type) THEN Yes(num, <<>>) ELSE No

Asked(ns, k, num) == ret' = IF Has(ns, k) THEN Yes(num, <<>>) ELSE No

Read(ns, k) ==
    LET n == dict[ns][k].n
    IN  \/ call' = "GetInt" /\ Typed(ns, k, "Int", n)
        \/ call' = "GetFloat" /\ Typed(ns, k, "Float", 0)
        \/ call' = "GetString" /\ Typed(ns, k, "String", n)
        \/ call' = "GetArray" /\ \E room \in Sizes :
               Typed(ns, k, "Array", IF room < n THEN room ELSE n)
        \/ call' = "GetArraySize" /\ Typed(ns, k, "Array", n)
        \/ call' = "GetKeyType" /\ Has(ns, k) /\ ret' = Yes(TypeCode[dict[ns][k].type], <<>>)
        \/ call' = "GetKeyType" /\ ~Has(ns, k) /\ ret' = No
        \/ call' = "KeyExists" /\ Asked(ns, k, 0)
        \/ call' = "GetTTL" /\ ret'.ok = Has(ns, k) /\ ret'.num >= (IF ret'.ok THEN -1 ELSE -2)

\* The keys in some order; at an index, one of them or none.
Enumerate(ns) ==
    \/ call' = "GetNamespaceCount" /\ ret' = Yes(Cardinality(KeysOf(ns)), <<>>)
    \/ /\ call' = "GetActiveKeys"
       /\ ret' = Yes(Cardinality(KeysOf(ns)), ret'.keys)
       /\ Len(ret'.keys) = Cardinality(KeysOf(ns))
       /\ {ret'.keys[i] : i \in DOMAIN ret'.keys} = KeysOf(ns)
    \/ call' = "GetKeyAt" /\ (ret' = No \/ \E k \in KeysOf(ns) : ret' = Yes(0, <<k>>))

-----------------------------------------------------------------------------
(* Removals.  They may report success for entries that had already left.   *)

Remove(ns, gone) ==
    /\ dict' = [dict EXCEPT ![ns] = Without(ns, gone)]
    /\ ret' = Yes(0, <<>>) \/ (ret' = No /\ gone \cap KeysOf(ns) = {})

\* Entries leave by the clock, by a lifecycle call, or with their server.
Leave ==
    /\ \/ UNCHANGED <<call, ret>>
       \/ call' \in {"SweepMapEnd", "ClearAll"} /\ ret' = Yes(0, <<>>)
       \/ call' = "HeapAbort" /\ ret' = No
    /\ \A ns \in NS : \E gone \in SUBSET Key : dict'[ns] = Without(ns, gone)

Configure == call' = "SetLimits" /\ ret' = Yes(0, <<>>) /\ UNCHANGED dict

Next ==
    \/ \E ns \in NS, k \in Key :
           \/ Write(ns, k)
           \/ Read(ns, k) /\ UNCHANGED dict
           \/ call' = "DeleteKey" /\ Remove(ns, {k})
    \/ \E ns \in NS :
           \/ Enumerate(ns) /\ UNCHANGED dict
           \/ call' = "ClearNamespace" /\ Remove(ns, Key)
    \/ Leave
    \/ Configure

Spec == Init /\ [][Next]_vars
=============================================================================
