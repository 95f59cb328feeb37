# MemStore in TLA+

`amxx-memstore` is a module for AMX Mod X game servers: an in-memory key-value
store with expiry, memory accounting and limits, and a score engine for
leaderboards, offered to Pawn plugins as natives. This directory models the
class that does the work, `MemStoreManager` (`src/MemStore.cpp`), the natives
in front of it (`src/Natives.cpp`), the callbacks and loops in which a
plugin goes through its keys, and the module's life with its host
(`sdk/amxxmodule.cpp`, `src/amxxapi.cpp`). TLC checks the models on
small instances; TLAPS proves the main invariants for every value of the
constants.

## 1. The system

| Component | State | Operations | Where modelled |
|---|---|---|---|
| Expiry | `policy`, `mapCounter`, `expireTime` of an entry | `ApplyExpiration`, `ApplyRankExpiration`, `IsExpired`, one map change | `Expiry` |
| Limits and clock | `m_MaxKeysPerNamespace`, `m_MaxArrayCells`, `m_MaxStringLen`, `m_MaxNamespaces`, `m_MaxMemoryBytes`; the steady clock | `SetLimits` | `Engine` |
| Key-value store | `m_Namespaces`, `m_KeyCaches`, `m_ApproxMemoryUsed` | 20 methods: set/get per type, type, exists, TTL, delete, clear, renew, increment, count, enumerate, key at an index | `KVStore` |
| Rank engine | `m_Ranks`, `m_RankSequenceCounter` | 10 methods: set, increment, delete, clear, score, exists, position, top, range, count | `RankEngine` |
| `MemStoreManager` | both halves in one object | constructor, `SweepMapEnd`, `ClearAll`, `SetLimits`, `GetMemoryStats` | `MemStore` |
| Natives | what the last native returned, wrote and raised | 33 natives: argument checks, defaults, references, errors | `Natives` |
| Key iteration | the iterations that run, the forwards registered | `mem_iterate_keys` and its callbacks; a plugin's loop over indexes | `KeyIteration`, `KeyLoops` |
| Lifecycle | where the module stands with the host, the pointers bound | `AMXX_Query`, `AMXX_CheckGame`, `AMXX_Attach`, `AMXX_Detach`, the three plugin hooks; `OnAmxxAttach`, `OnPluginsUnloaded`, `OnAmxxDetach` | `AmxxModule` |
| Plugins, build | | | not modelled: clients, build files |

**How they interact.** A native checks its arguments and makes at most one call
of `MemStoreManager`. The host runs plugins on one thread and the class takes no
locks, so a method runs to its end before the next starts: the interleaving is
one of *calls*, made by any plugin in any order, with the clock moving between
them. The two halves share the limits, the clock, the constructor and the
lifecycle calls, and nothing else. The one native that gives control back is
`mem_iterate_keys`, which takes a snapshot of the keys and runs a plugin's
callback on each; the callback may call any native, `mem_iterate_keys` too. The
host calls the lifecycle functions, outside of every native.

**What is hard.**

- *Lazy expiry.* No timer drops anything. Time alone turns a live entry into a
  dead one that stays in the map, counted by limits and accounted for, until
  some call meets it; a dozen methods each have their own copy of the code that
  drops it, and the copies differ (which of them release memory, which
  invalidate the key cache, which erase an empty namespace).
- *The key cache.* `get_key_at` reads a list built at an earlier call. Between
  the two, keys expire, are deleted, come back under other types, or are
  dropped by the one method that leaves the cache alone.
- *Going through keys.* A loop over indexes makes one call per key, and an
  iteration hands control to the plugin for each; in between the plugin changes
  what is gone through.
- *Partial failure.* `SetString` and `SetArray` change the map before the test
  that may refuse the call; `AMXX_Attach` binds pointers until one is missing.
- *Accounting.* Unsigned sums over what several methods add and take away.
- *Limits that move.* `set_limits` may lower a limit under what is stored.
- *Order.* Three algorithms (count, `nth_element`, `partial_sort`/`sort`) must
  produce one order, ties included, while dropping expired entries.
- *Copies.* Keys and scores expire and are swept by two copies of one code.

**What makes each part correct.**

- Expiry: a TTL is never beyond the cap; a map counter is never found run out;
  a live entry goes only by request or policy.
- Key-value store: a namespace exists exactly while it has an entry, and its
  cache no longer than it; a valid cache misses no value; an index answers with
  a live key; the account covers the payload and grows only within the quota;
  nothing is added past a limit; and the whole is a dictionary from keys to
  values that entries leave by themselves.
- Rank engine: the same for leaderboards; sequence numbers are unique; the
  queries agree on the order; a live score goes only by request or policy; and
  the whole is a table of scores, in order of score, then of whose last write came
  first.
- `MemStoreManager`: no method of one half, and no step of both that is not meant
  to, ends or changes what is live in the other.
- Natives: whatever the arguments, the store is called as it expects; a call
  that fails changes nothing that is live.
- Key iteration: each key that stays is called back once, whatever the callbacks
  do; every iteration ends and gives its forward back.
- Lifecycle: no call through a null pointer; a map change ends what its policy
  says and nothing else; nothing outlives a detach.

`PROJECT.json` lists the hazards at their lines with the properties aimed at
them.

## 2. The modules

```
Expiry <- Engine <- KVStore    <- KVStoreDocs, KVRefinement <- MCKVStore
                 |                (INSTANCE Dictionary)
                 <- RankEngine <- RankEngineDocs, RankRefinement <- MCRankEngine
                                  (INSTANCE Leaderboard)

KVStore, RankEngine <- MemStore <- Natives <- KeyIteration
KeyIteration <- KeyLoops <- KeyLoopsDocs <- MCKeyLoops
             <- AmxxModule               <- MCAmxxModule

EngineProofs, KVStore    <- KVStoreProofs <- KVStepProofs
EngineProofs, RankEngine <- RankProofs
KVStoreProofs, KVRefinement, RankProofs, RankRefinement <- RefinementProofs
MemStore, KVStoreProofs, RankProofs <- MemStoreProofs
KeyLoops, KVStoreProofs             <- KeyIterationProofs
AmxxModule                          <- AmxxModuleProofs
```

**`Expiry`**. An entry has a `policy` and one number, `until`: the tick at which
a TTL ends, or the map changes left. The code has two fields; a policy reads
only one, and `ApplyExpiration` always rewrites the one the new policy reads,
so a leftover in the other is never seen. `Until` is `ApplyExpiration` with
its default (60 s for `extra <= 0`) and cap (30 days). `EndsAtSweep` and
`AfterSweep` are the body of the loops in `SweepMapEnd`. The code has
`ApplyRankExpiration` beside `ApplyExpiration` and one loop per half; the copies
were read line by line and are the same, so the model has one definition for
both. What each half does with it (`SweepMapEnd` of the keys, the rank sweep) is
modelled apart, and `LiveEntryKept` and `LiveScoreKept` are stated of each.

**`Engine`**. What both halves share: limits, `UpdateLimits` (0 leaves a limit
alone; megabytes become bytes modulo the width of a `size_t`, 2^32 under
`-m32`), the clock, `call` (the last method called) and `ret` (what it
returned: the boolean, a number, the keys handed back).

**`KVStore`**. `namespaces` is the set of keys of `m_Namespaces`; `entries[ns][k]`
is what is stored, or `Absent`. The two are separate so that an empty namespace
*could* exist in a state; `NoEmptyNamespace` says none does. `caches[ns]` is the
`KeyCache` of a namespace or `NoCache`. Each public method is one action of the
same name, whole: its limit test, its early returns, its effect on map, cache
and account, its answer. Points where the code's shape matters:

- `SetDynamic` (`SetString`, `SetArray`) leaves the fresh entry behind when the
  quota refuses the value, and does not touch the cache, as the code does.
- `Read` takes `reclaims`: `GetString`, `GetArray` and `GetArraySize` give the
  bytes of a dropped entry back, the other getters do not.
- `SetExpire` does not look at whether the entry has expired: it brings one back
  that has, and has not been dropped yet.
- `Increment` has the four cases of `IncInt`/`IncFloat`: unknown key (through
  the setter), expired key (started again in place, no limit test), another
  type (refused), same type (added; renewed unless called with the defaults).
- `GetKeyAt` with nothing live writes through a reference to a cache just
  erased. That is undefined behaviour: the write's effect is `heapBroken`, after
  which `HeapAbort` may, at any later moment or never, end the process and start
  it again with the constructor's state.
- The order an `unordered_map` is walked in is any order (`Orders`).

A payload is its size (`n`): the value for `Int`, the length, the cell count; a
float's value is left out, nothing depends on it. `BytesAt` weighs a set of slots
by counting their bytes one by one (`PayloadAt` is the set of bytes), the sum
`ClearNamespace` and the accounting speak of.

**`Dictionary`** is the abstract specification of the key-value half: each
namespace a function from keys to values, no clock, cache, account or dead
entry. A write takes effect whole or is refused, entries may leave at any time,
every query is answered from the dictionary. It admits three things a reader may
not expect, because the code does them: a refused string or array may leave its
key without a value, a payload may be cut, and a new policy may bring back a
key that had expired. **`KVRefinement`** maps the store to it: the live entries.

**`RankEngine`**. `boards`, `ranks` and `sequence` are `m_Ranks` and
`m_RankSequenceCounter`. `Sorted` is any order the comparator allows,
so a comparator that left ties open would show. The code writes its comparator
once per query; the copies are the same and the model has one, `Before`. Scores
are cells and wrap
(`WrapCell`): signed overflow is undefined in C++, and the models take the
outcome of the build, two's complement.

**`Leaderboard`** is the abstract specification: each board a table of scores and
the pairs of keys of which the first was last written before the second. A write
makes an entry the latest of its board, also with the score it has already: the
code's order, not the one `include/memstore.inc:289` promises among equal scores
(section 6). Entries may leave at any time; every query is answered from the two.
**`RankRefinement`** maps the engine to it: the live entries of a board, with
their sequence numbers telling who was earlier. **`RankEngineDocs`** states the
promise of the include file.

**`MemStore`** puts the halves into one object. `OnKeys` and `OnRanks` say that a
method of one half leaves the other alone; `SweepBoth`, `ClearBoth`, `Construct`
and `Abort` are one step of both. `Construct` is the object built when the
library is loaded: it has a guard, no data, that the detach before it must have
established (`DetachedIsEmpty`).

**`Natives`** has one action per native, of the same name. Each is its checks in
the code's order and then one call of `MemStore`, or a refusal that calls
nothing. Optional arguments are the sequence of those given, so `numParams`
is a length; an out-of-range policy or order code is an error; a limit below
1 becomes the fallback; `Mismatch` is the error a typed getter raises for a
live key of another type. `answer` is what the plugin sees.

**`KeyIteration`**. `mem_iterate_keys` is not one step but a frame on the stack
`frames`: its key, the keys to come, the count, its forward. `CallbackReturns`
is the rest of the loop after one `MF_ExecuteForward`: the count, the stop on
`PLUGIN_HANDLED`, the next key or the way out with
`MF_UnregisterSPForward`. `forwards` is the host's table. `watch` is history:
the keys live ever since the snapshot and how often each was called back.

**`KeyLoops`** adds the other way through a namespace, the loop a plugin writes
over `mem_get_namespace_count` and `mem_get_key_at`, upwards or downwards, with
a body that sets, deletes, sets a string the quota refuses, asks for another
index or waits. Here the walk of an `unordered_map` is constrained as the
standard says: erasing keeps the order of the keys that stay. A loop is not
started inside a callback, and its body starts no iteration, so the two ways
are not mixed; callbacks do iterate inside iterations. The heap is not
aborted here: a process that ends runs no loop. **`KeyLoopsDocs`** states what the
include file says of indexes and the code does not keep.

**`AmxxModule`** is the module with its host. The host's moves (load, unload,
running plugins) are external; the functions it calls are the code's:
`AMXX_Query` compares interface versions; `AMXX_Attach` asks for the functions
one by one and gives up at the first that is missing; the hooks sweep and clear.
`Requested` names each function that the natives and hooks call, in the code's
order, with one name for all that nothing calls. The host may lack any one
function. `ServerDies` is the heap abort seen from the host: everything goes,
in the middle of anything.

**`KVStoreDocs`** states sentences of the include file, comments and log
messages that the code does not keep (section 6). The `MC` modules give the
constants values for TLC. The `...Proofs` modules hold lemmas and theorems
only (section 7).

## 3. Abstractions shared by all modules

- *One clock reading per call.* A method reads the clock once or more; the
  models let time pass only between calls. A tick inside a call would only make
  an entry die between two tests of the same call.
- *Ticks.* The clock is a counter of `TicksPerSecond` per second, so that the
  rounding down in `GetTTL` and the boundary `now >= expireTime` can be in the
  model; the runs use one tick to the second.
- *`size_t`.* The account and the quota are modulo `SizeMod`.
- *References.* A native that gets a null reference where the code tests for it
  writes nothing; the tests the SDK's macros make of plugin addresses, which
  raise an error before the module acts, are left out, as is what an error does
  to the plugin.
- *`VIEW`.* The runs identify states that differ only in `call`, `ret` and
  `answer`. No action reads them. Only type invariants, action properties and
  refinements mention them; TLC evaluates the latter two on every step it
  generates, whether or not the step leads to a new state under the view.
- *Symmetry.* Keys are alike, and namespaces are; the four runs of one half and
  `index_loops` use this, none of them checks liveness. The `loops` run, which
  does, has no symmetry.
- *Deadlock* is checked in every run: a plugin or the host can always make a call.

## 4. Fairness and liveness

The class promises nothing that must eventually happen: a call returns, and
expired entries stay until somebody calls. The one loop whose length the module
does not control by itself is `mem_iterate_keys`, which ends only if each
callback does. `IterationEnds` says that every iteration comes to its end, under
`CallbacksReturn`: strong fairness of `CallbackReturns` at each depth of the stack.

Why that is justified: a callback is a function of a plugin, which the host runs
to its end before it does anything else, and which is assumed to return, as
every public function of a plugin does. So a frame that comes on top again and
again, with iterations inside its own in between, is returned to in the end.
Weak fairness would not be
enough: a callback that starts an iteration of its own disables the return at
its depth meanwhile. Nothing is assumed of the clock, nor of what callbacks do:
they may set, delete and iterate for as long as they run. The property holds
because the code goes through a snapshot; a version that goes on while its key is there
(`StepWhenGone`) never ends.

## 5. The runs that pass

| Run | Question | Instance |
|---|---|---|
| `kv_data` | Do types, payloads, cache and account stay consistent, and does every call answer as the dictionary does? | 1 namespace, 2 keys; integers that wrap, floats, strings of 2 and 3 bytes (one of 4 is cut) and arrays of 4, cut shorter when the limits are lowered; quota 4 bytes of a 16-value `size_t`, lowered to 2, raised to 4, set to megabytes that wrap to 0; TTL of a second; indexes 0 and 1 |
| `kv_limits` | Does every way to lose a namespace's last entry lose the namespace and its cache, and is a limit never passed? | 2 namespaces, 2 keys; limits of 1 and 2 for both; sets, getters, deletes, counts, enumeration, sweeps |
| `rank_order` | Do position, top and range agree, do ties always break, and does every call answer as the leaderboard does? | 1 board, 3 keys, 2 scores, increments that wrap, TTL and map counter, sequence up to 4 |
| `rank_limits` | Is no board empty, is none past a limit, and does a score go only by request or policy? | 2 boards, 2 keys, all policies, map counters of 2, limits of 1 and 2 |
| `loops` | Does an iteration meet every key, whatever the callbacks do, and does each come to its end? | 1 namespace, 2 keys, iterations two deep, both directions of the index loop; bodies that set, delete, have a string refused, read an index, wait; TTL of a second |
| `index_loops` | Does a loop over the indexes meet every key, also when the list is built again on its way? | 1 namespace, 3 keys, both directions, iterations one deep; the same bodies |
| `module` | From load to unload, with every native and any argument: does a key end or change only by request or policy? | 1 namespace, 1 key in both halves, every policy, all 33 natives with good and bad arguments, one iteration, several maps, hosts of the right and a wrong version, with and without every function, server crashes |

**Why these bounds.** The store's code treats namespaces alike and only counts
them, so two meet a limit of one; two keys are enough for a cache that lists one
that is gone and one that is not; three keys are the fewest with a tie and a
key on either side. The quota is small enough that two values pass it and one
does not, and the `size_t` small enough that the account could wrap. Cells of
two bits overflow on the second increment. `MaxTime` lets an entry be set,
expire, be set again and expire again (`kv_data`). `MaxSequence` bounds the
counter and with it the writes between two flushes; four writes over three keys
give every relative order and one rewrite. `MaxDepth` is the bound of iterations
inside iterations; two is the least at which one disables the other.

`index_loops` has three keys, since the hard case needs them: an iteration drops
one and leaves it in the cached list, the loop starts on that list with two live
keys, and meets the dropped one on its way, where the list is built again. With
two keys the loop would have one index left, and the direction would not matter;
with three, a loop downwards fails (`doc_index_order`, same instance but for the
refused strings) and a loop upwards does not.

The `module` run has one key: what its properties ask of is a key and its
score under one policy, the order of the lifecycle calls, and arguments, and the
interplay of several keys is what the other runs are about. With one key the
quota of no byte, raised to one, is enough to refuse and to admit a value.

Each property of a passing run is also run against a version of the code with
one plausible bug (`PROJECT.json`, "mutants"; the definitions stand beside the
originals under the comment "Mutant"), and fails there.

What the properties say beyond a single method:

- `CacheComplete` relates the cache to the map over any history: it may list too
  much (keys `mem_iterate_keys` dropped), never too little, except for entries
  of no type that a refused call left. `KeyAtIsLive` is why listing too much is
  harmless.
- `UsedCoversPayload` is why `used + new - old` never goes below zero; the
  account may only drift up. `QuotaRespected` is about the quota *in force*.
- `LimitsRespected` covers the six ways a key comes in. (The first key of a
  namespace is tested against the namespace limit alone; since a key limit is
  at least 1, it cannot pass it.)
- `ImplementsDictionary` and `ImplementsLeaderboard` subsume the answers of every
  method: what was written is what is read, until it leaves whole.
- `SequencesDistinct` is what makes ties deterministic across `ClearAll`'s reset;
  `PlacesAgree` ties the three query algorithms to each other, in both orders.
- `IterationComplete` is exactly-once: a key that is live from the snapshot to the
  end is called back once, no key twice, and the native returns how many.
- `ForwardsBalanced`: the iterations that run have one forward each, and no other
  is left, also after early stops and nested iterations.
- `UpwardLoopComplete`: over a namespace that gains and loses no key meanwhile, a
  loop upwards names every key, although the list it starts on may be stale and
  may be built again at any index. It assumes that the keys have values. A refused string can
  put back a key that `mem_iterate_keys` dropped, without a value and with the cache
  left as it was, so the list has the key at a place it no longer has in the walk.
- `LiveEntryKept` says of every step that a live entry keeps its value, its policy
  and the time it has left, unless the call names the key, flushes, or is the
  sweep; a sweep ends exactly the entries whose policy says so, a counted one with
  at most one map change left and no other, and takes one off each of the others.
  `LiveScoreKept` says the same of the scores, of the other copy of the code.
  `MapChangeKeeps` follows data through a whole map change, seen from the host.
- `FailureKeepsLive`: a native that returns 0 or less left every live key and score
  as it was. `NativesCallStore`: the module is a refinement of `MemSpec`, so the
  argument checks keep the store within what the theorems are about.
- `NoNullCalls` and `DetachedIsEmpty` are about half-way attaches and about what
  one load leaves to the next.

## 6. The runs that end in a counterexample

Each states a sentence of the repository and finds the behaviour that breaks it.

| Run | Sentence | Behaviour |
|---|---|---|
| `doc_used_bytes` | `used_bytes` is the "approximate dynamic bytes allocated" (`include/memstore.inc:442`) | A string expires; `get_int`, `key_exists`, the count or the enumeration drops it without giving its bytes back; the empty store reports them for ever, and they count against the quota until a flush |
| `doc_rejected_set` | "String insertion rejected." (`src/MemStore.cpp:231`) | The rejected string leaves a persistent entry of no type under a new key |
| `doc_empty_namespace` | `get_key_at` is "false if index is out of bounds or namespace is empty" (`include/memstore.inc:246`) | With all keys expired, it assigns through a reference to the erased cache |
| `doc_index_order` | "0-based index (from 0 to `mem_get_namespace_count()` - 1)" holds a key (`include/memstore.inc:242`) | `mem_iterate_keys` drops an expired key and leaves the cache as it was; a loop downwards starts on the stale list, meets the dropped key, has the list built again, and names one key twice and another never |
| `doc_rank_ties` | Ties are "resolved in favor of whoever scored first" (`include/memstore.inc:289`) | A write that leaves the score as it is takes a new sequence number (`src/MemStore.cpp:779`): after A 10, B 10, A 10 again, B is ahead of A |

Two more disagreements are plain from one line each and have no run:

- "Survives for N map changes, then expires" (`src/MemStore.h:23`, likewise
  `include/memstore.inc:32`): the sweep decrements the counter first
  (`src/MemStore.cpp:1171`), so an entry with N = 1 is gone after one map change.
  The tests side with the code (`test_memstore.sma:303-307`), and so does
  `LiveEntryKept`, which says that a counted entry ends at its Nth map change.
- "Expiration policy if key is newly created" (`include/memstore.inc:363`): an
  increment called with a policy replaces that of an existing key
  (`src/MemStore.cpp:1307`).

And one that the models admit without a property against it: `SetExpire` brings back
an entry that has expired and has not been dropped (`src/MemStore.cpp:639`). What
`mem_set_expire` should do there no document says; `Dictionary` allows it, so
`ImplementsDictionary` does not guard it.

## 7. The proofs

TLC's runs are instances; the theorems hold for any finite sets of namespaces and
keys, any limits, argument sets, cell range, `size_t` width, clock bound and depth, from
the assumptions the modules name (`ExpiryAssumption`, `EngineAssumption`,
`KVAssumption`, `KVMarkers`, `RankAssumption`, `RankMarker`, `NativesAssumption`,
`IterationAssumption`: ranges of the parameters, and that the markers `Absent`,
`NoCache` and `NoName` are none of the things they mark). TLC evaluates each of these
on its instances.

**`KVStoreProofs`** proves `KVTypeCorrect`, `NamespacesExact`, `CachesOwned`,
`CachesComplete`, `MapCountsRemain` and `TtlsWithinCap` from one inductive
invariant,

    KVInv == StoreInv /\ RestTypeOK
    StoreInv == StoreTypeOK /\ EntriesSound /\ NoEmptyNamespace
                /\ CacheOwned /\ CacheComplete

`NoEmptyNamespace` and `CacheOwned` are not inductive alone: that an erasing
method leaves no empty namespace needs the namespace exact before it, and that
making a namespace starts without a cache needs `CacheOwned`, which
`CacheComplete` needs in turn (a stale cache of the former namespace would miss
the new key). `EntriesSound` carries the TTL cap and the map counter entry by
entry, because an increment keeps an old expiry and the clock moves. The argument has
two lemmas at its centre, for the two ways the map changes: `PutKeeps`
(`operator[]`, with a cache that is invalidated, or an entry that the cache
already lists or that has no type) and `EraseKeeps` (any set of keys, with the
namespace and cache following). Each method is one of the two, or nothing, and
has a lemma that says so; `NextKeeps` collects them.

**`KVStepProofs`** proves the action properties. Every step is one of three
(`StepKinds`): it *grows* the store by at most one key, within what
`CheckNamespaceKeyLimit` admitted; it *shrinks* the store and spares every live
entry; or it is a *removal* by request or at a map change. `LimitsAreRespected`
and `LiveEntriesKept` follow by cases, the first with cardinalities of finite
sets. The second rests on what each method leaves alone (`WriteTouchesOne`,
`RemovalTouchesNamed`, collected in `KeptUnlessAsked`) and on `SweepAges`, which
compares the loop of `SweepMapEnd` with what a policy promises of one map change
(`OneMapOlder`), entry by entry; that a counter is never found at 0 or below comes
from `EntriesSound`. `KeysAtAreLive` follows from `CacheAnswers` and from `Orders` listing
live keys only.

The same module proves the accounting: `AccountCoversPayload` and
`QuotaIsRespected`. `BytesAt` is a cardinality, a sum without recursion
(`BytesAtSum`); it is additive, so that a step needs to look only at the slots it
touches (`PutAccount`, `EraseAccount`). The invariant beside `KVInv` is
`AccountInv(top)`: sizes are not negative, the account covers the payload, and account
and quota are at most `top`. The last conjunct is why the two theorems have a
hypothesis, `QuotasFit(top)`: no quota ever asked for exceeds `top`, and one value
more than `top` is still a `size_t`. The account drifts up, since most getters drop
an entry without giving its bytes back, so it can come up to the quota with nothing
stored; if the quota reached to the end of the `size_t`, `used + new` would wrap
there, pass the test and lose the account. With 32 bits the largest quota is 4095
megabytes, and `QuotasFit` then asks that a single value be smaller than one.
`QuotasFitHere` is the hypothesis at the values of the run, evaluated by TLC.

**`EngineProofs`** has what both halves rest on: the range of a TTL and of a map
counter as `ApplyExpiration` leaves them, that `set_limits` makes no limit 0
(only the quota can become 0, by wrapping), that a wrapped sum is a cell, and what
a sum over slots does when one of them changes.

**`RankProofs`** proves `RankTypeCorrect`, `BoardsExact` and
`SequencesAreDistinct` from `RankInv`: types, `NoEmptyBoard` and
`SequencesDistinct`, which bounds every number by the counter: that bound is
what makes the next number new. The one delicate step is `RankStoreKeeps`:
`RankSet` makes the leaderboard *before* the key limit may refuse the key. No
empty one stays, because the test can refuse only where there are keys: a key limit is never
0, and that is why the limits' types are part of the invariant.

The second half of the module proves `RankLimitsAreRespected` and `LiveScoresKept`
like their counterparts, and `PlacesAlwaysAgree`: distinct numbers make the comparator decide between any two
entries (`BeforeDecides`), so the keys before the one a sort puts at place *p*
are exactly those at places 1 to *p* - 1 (`SortedPlace`), which is what
`RankGetPosition` counts.

**`RefinementProofs`** proves that the two halves implement what they promise:
`StoreIsDictionary` and `BoardIsLeaderboard`. Each method is mapped to one step of the
abstract specification, or to a stutter, from the invariants above.

- Of the store: `Dict` depends on an entry only through `Shown`, so a step matters
  at the keys it writes or where the clock ends an entry. The lemmas say what the
  primitives show: a put shows the new value and no other change, a dropped entry was
  not live and shows none, an enumeration lists the keys of the dictionary whatever
  the cache held (`CacheComplete` is what makes the cached list as good as a new one).
- Of the leaderboards: `PutEnters` shows that an entry with the next number becomes
  the latest (`ElderEnters`: its number is above all of `SequencesDistinct`),
  `BoardDrops` that a drop, a sweep, a flush or the clock takes entries away and
  leaves the order of the others; the answers rest on `SamePlace` (the place
  `RankGetPosition` counts is the abstract one) and on `SortedPlace` for the two
  sorting queries. `RanksLeave` needs no knowledge of which entries go, which is why
  one lemma serves the sweep, `ClearAll` and the clock.

**`MemStoreProofs`** carries both invariants over to the whole object:
`StoreSoundInWhole` and `RanksSoundInWhole`, for `MemSpec`. Its invariant is
`KVInv /\ RankInv`; `KeysKept` and `RanksKept` say what each half needs of a step of
the other, and the steps of both (`SweepBoth`, `ClearBoth`, `Abort`,
`Construct`, the limits, the clock) are where the two arguments meet.
`LiveEntriesKeptInWhole` and `LiveScoresKeptInWhole` carry `LiveEntryKept` and
`LiveScoreKept` over: no method of the other half, and no step of both but the
sweep, the flush and the abort, ends or changes what is live (`HalfSteps`).

**`KeyIterationProofs`** proves `ForwardsAreBalanced` for `LoopsSpec`: any number of
keys, any depth, whatever the bodies do. The invariant adds to `ForwardsBalanced`
that the stack is made of frames, is no deeper than its bound and draws its
forwards from one more number than there may be frames, so that one is free
whenever an iteration starts (`ForwardFree`, by counting).

`IterationsComplete` needs what each frame has gone through (`OnItsWay`): the keys to
come are distinct and were not called back, every other key was at most once, a
key that stayed live was called back or is to come, and `count`, with the callback
that runs, is the number of keys called back. `Starts`, `GoesOn` and `Narrows` are
the three ways a frame's history moves: the snapshot, the next key, and a body after which fewer
keys have stayed live. The theorem has the hypothesis `[]KeysFit`, that no namespace
has more live keys than a cell counts, since the native returns a cell; a process
with 32-bit addresses has no room for 2^31 entries. In the `loops` run there are as
many keys as a cell counts, two, so the hypothesis holds there at its boundary.

**`AmxxModuleProofs`** proves `NeverNullCalls`, `DetachedIsAlwaysEmpty` and
`MapChangesKeep` for `ModuleSpec`, whatever natives the plugins call. `NoNullCalls`
needs `HostInv`: before the attach no native is listed, or the unloading of a
library that was refused would leave them behind with their pointers gone.
`DetachedIsEmpty` is inductive as it stands. `MapChangesKeep` comes down to
`SweepSpares` and to `MODULE_RELOAD_ON_MAPCHANGE` being undefined.

The other half of the module is about the natives: `NativesKeepToStore` proves
`NativesCallStore`, `ModuleIsStore` that `ModuleSpec` implies `MemSpec`. They have the hypothesis
`StoreTakesArguments`. The argument sets of the store's methods (`Deltas`,
`Expirations`, `Sizes`, `Counts`, `LimitArgs`) and those of the natives (`ExpiryArgs`,
`Amounts`, `LimitTails`) are bounds of the models, given apart; the hypothesis is
that the first hold what the natives *should* make of the second: the
expirations whose policy is one of the enum, sizes above 0, the smaller of two
counts, the limits asked for. It says nothing of the natives' checks; that they let
nothing else through is what the proof shows, native by native.
TLC evaluates the hypothesis for the run (`StoreTakesThese`). The argument has one
lemma at its centre: every native is an `Effect`, either a refusal or query that leaves the
store as it is, or one call of a method with the result it hands back
(`NativeCalls`, `IterationCalls`), and an `Effect` is a step of `MemNext`
(`EffectIsCall`).

`ModuleIsStore` carries each theorem about `MemSpec` over to the module under any
plugins and any host; `StoreSoundInModule` does so for `MapCountRemains`,
`TtlWithinCap`, `LiveEntryKept` and `LiveScoreKept`. `FailuresKeepLive` proves
`FailureKeepsLive`: for each method, that it answers with success or leaves what is live
as it is (`StepSpares`). This is not a look at the failing branches only: a
refused `RankSet` has made a leaderboard, a refused `SetString` an entry, and
getters that fail have dropped what had expired.

**Only model-checked**: `IterationEnds`, as liveness under fairness; and
`UpwardLoopComplete`. The latter compares a cache with the walk of the map filtered by
`SelectSeq`, which the library defines by recursion over the sequence: what it
returns for every sequence is an induction over data.

## 8. Not modelled

- The Metamod half of `sdk/amxxmodule.cpp` and `.h` (hooks, function tables,
  engine callbacks): compiled only with `USE_METAMOD`, which
  `src/moduleconfig.h` leaves undefined. Nor `MEMORY_TEST` and the
  debug-only validation of macros, compiled out as well. This is most of the SDK.
- The replacement of `operator new` by an allocator that does not throw: running out of memory is not in
  the models, which bound memory by the module's own quota.
- `ITextParsers.h`, `IGameConfigs.h`: interfaces that no code of the module calls;
  `amxmodx_version.h`: a version string.
- Marshalling of text: a name is a value, a string its length. What
  `MF_GetAmxString` does with text too long for its buffer is the host's.
- The null checks of the SDK's macros (section 3), logging, packaging, the example plugins.

## 9. What could come next

1. `ForwardsBalanced` and `IterationComplete` for `ModuleSpec`: the invariants of
   `KeyIterationProofs` under the natives the module adds and under the host's moves,
   which empty the stack.
2. `UpwardLoopComplete`, from a description of the walk as a function of positions in
   place of `SelectSeq`.
3. The sufficiency of `QuotasFit`: the account stays within the quota in force, up
   to a quota lowered meanwhile.
