---------------------------- MODULE KVStoreDocs ----------------------------
(***************************************************************************)
(* What the include file, the comments and the tests of the repository say *)
(* of the key-value store and the code does not do.  Each formula is a     *)
(* sentence of theirs; a run finds the behaviour that breaks it.           *)
(***************************************************************************)
EXTENDS KVStore

\* memstore.inc, mem_get_memory_stats: used_bytes is the approximate dynamic
\* bytes allocated.  An empty store has allocated none.
EmptyStoreUsesNothing == namespaces = {} => used = 0

\* memstore.inc, mem_set_string and mem_set_array: true on success, false
\* otherwise; the log calls the value rejected.  A rejected call adds no key.
RejectedCallAddsNoKey ==
    [][\A ns \in NS, k \in Key : ~Present(ns, k) /\ Present(ns, k)' => ret'.ok]_kvSpecVars

\* memstore.inc, mem_get_key_at: on an empty namespace it returns false, and
\* that is all it does.
KeyAtLeavesHeapIntact ==
    [][\A ns \in NS, i \in Indexes : GetKeyAt(ns, i) => heapBroken' = heapBroken]_kvSpecVars
=============================================================================
