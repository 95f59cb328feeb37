------------------------------ MODULE KVStore ------------------------------
(***************************************************************************)
(* The key-value half of MemStoreManager: namespaces of typed entries with *)
(* expiry, the per-namespace key cache behind get_key_at, the memory       *)
(* account, the limits, and the map-change sweep.                          *)
(*                                                                         *)
(* A payload is its size: an entry holds its cell value (Int), its length  *)
(* (String) or its cell count (Array) in n, and 0 for Float and None.      *)
(***************************************************************************)
EXTENDS Engine, Functions

CONSTANTS
    NoCache,          \* no cache for a namespace
    CellBytes,        \* sizeof(cell)
    Cells,            \* arguments: integer values
    Lengths, Sizes,   \* arguments: string lengths, array cell counts
    Indexes           \* arguments: get_key_at indexes

EntryType == {"None", "Int", "Float", "String", "Array"}

TypeCode == [None |-> 0, Int |-> 1, Float |-> 2, String |-> 3, Array |-> 4]

Entry == [type : EntryType, n : Int, policy : ExpirePolicy, until : Int]

KeyCache == [keys : Seq(Key), valid : BOOLEAN]

ASSUME KVAssumption ==
    /\ CellBytes \in Nat \ {0}
    /\ Cells \subseteq Cell
    /\ Lengths \subseteq Nat /\ Sizes \subseteq Nat /\ Indexes \subseteq Nat

ASSUME KVMarkers == Absent \notin Entry /\ NoCache \notin KeyCache

VARIABLES
    namespaces,    \* the keys of m_Namespaces
    entries,       \* what m_Namespaces holds, Absent where it holds nothing
    caches,        \* m_KeyCaches
    used,          \* m_ApproxMemoryUsed
    heapBroken     \* a call has written through a reference to freed memory

store == <<namespaces, entries, caches>>
kvVars == <<namespaces, entries, caches, used, heapBroken>>
kvSpecVars == <<kvVars, limits, now, call, ret>>

NoEntries == [ns \in NS |-> [k \in Key |-> Absent]]
NoCaches == [ns \in NS |-> NoCache]

KVInit ==
    /\ EngineInit
    /\ namespaces = {}
    /\ entries = NoEntries
    /\ caches = NoCaches
    /\ used = 0
    /\ heapBroken = FALSE

-----------------------------------------------------------------------------
(* The store as its methods see it.                                        *)

Present(ns, k) == entries[ns][k] # Absent
Keys(ns) == {k \in Key : Present(ns, k)}
Expired(ns, k) == Present(ns, k) /\ IsExpired(entries[ns][k], now)
Live(ns, k) == Present(ns, k) /\ ~IsExpired(entries[ns][k], now)
LiveKeys(ns) == {k \in Key : Live(ns, k)}

\* operator[] gives an unknown key a default entry.
FreshEntry == [type |-> "None", n |-> 0, policy |-> "Persistent", until |-> 0]
Current(ns, k) == IF Present(ns, k) THEN entries[ns][k] ELSE FreshEntry

NewEntry(type, n, ex) ==
    [type |-> type, n |-> n, policy |-> ex.policy, until |-> Until(ex, now)]

\* GetPayloadBytes: only strings and arrays are accounted for.
Bytes(e) ==
    CASE e.type = "String" -> e.n
      [] e.type = "Array"  -> e.n * CellBytes
      [] OTHER             -> 0

\* Every byte of the payloads at slots, as its slot and its place in there.
PayloadAt(slots) == UNION {{s} \X (1..Bytes(entries[s[1]][s[2]])) : s \in slots}

BytesAt(slots) == Cardinality(PayloadAt(slots))

\* (a >= b) ? a - b : 0
Monus(a, b) == IF b \in 0..a THEN a - b ELSE 0

\* Mutant: forgets to charge the new payload.
OnlyReleased(old, new) == Monus(used, old)

\* The account after a payload of old bytes is replaced by one of new bytes.
Account(old, new) == (Monus(used, old) + new) % SizeMod

\* Mutant: tests the payload alone.
PayloadOverQuota(old, new) == new - old > limits.maxMem

\* The quota test, in unsigned arithmetic.
OverQuota(old, new) == (used + new - old) % SizeMod > limits.maxMem

\* Mutant: lets one more in.
MayHoldOneMore(ns, k) ==
    IF ns \in namespaces
    THEN Present(ns, k) \/ Cardinality(Keys(ns)) <= limits.maxKeys
    ELSE Cardinality(namespaces) <= limits.maxNs

\* CheckNamespaceKeyLimit
MayHold(ns, k) ==
    IF ns \in namespaces
    THEN Present(ns, k) \/ Cardinality(Keys(ns)) < limits.maxKeys
    ELSE Cardinality(namespaces) < limits.maxNs

\* Mutant: a change leaves the cache valid.
NotInvalidated(ns) == caches[ns]

\* InvalidateKeyCache leaves a namespace without a cache as it is.
Invalidated(ns) ==
    IF caches[ns] = NoCache THEN NoCache ELSE [keys |-> <<>>, valid |-> FALSE]

\* m_Namespaces[ns][k] = e
Put(ns, k, e) ==
    /\ namespaces' = namespaces \cup {ns}
    /\ entries' = [entries EXCEPT ![ns][k] = e]

\* Mutants: an empty namespace stays; its cache stays.
EraseKeysOnly(ns, gone, cache) ==
    /\ entries' = [entries EXCEPT ![ns] =
                      [k \in Key |-> IF k \in gone THEN Absent ELSE @[k]]]
    /\ caches' = [caches EXCEPT ![ns] = cache]
    /\ UNCHANGED namespaces

EraseKeepingCache(ns, gone, cache) ==
    LET emptied == Keys(ns) \subseteq gone
    IN  /\ entries' = [entries EXCEPT ![ns] =
                          [k \in Key |-> IF k \in gone THEN Absent ELSE @[k]]]
        /\ namespaces' = IF emptied THEN namespaces \ {ns} ELSE namespaces
        /\ caches' = [caches EXCEPT ![ns] = IF emptied THEN @ ELSE cache]

\* Erase the keys in gone; a namespace left empty goes with its cache, any
\* other keeps cache.
Erase(ns, gone, cache) ==
    LET emptied == Keys(ns) \subseteq gone
    IN  /\ entries' = [entries EXCEPT ![ns] =
                          [k \in Key |-> IF k \in gone THEN Absent ELSE @[k]]]
        /\ namespaces' = IF emptied THEN namespaces \ {ns} ELSE namespaces
        /\ caches' = [caches EXCEPT ![ns] = IF emptied THEN NoCache ELSE cache]

Fail == ret' = Failed /\ UNCHANGED <<store, used>>

\* The order an unordered_map is walked in is not specified.
Orders(S) == Bijection(1..Cardinality(S), S)

-----------------------------------------------------------------------------
(* Setters.                                                                *)

SetScalar(ns, k, type, n, ex, result) ==
    /\ \/ ~MayHold(ns, k) /\ Fail
       \/ /\ MayHold(ns, k)
          /\ Put(ns, k, NewEntry(type, n, ex))
          /\ caches' = [caches EXCEPT ![ns] = Invalidated(ns)]
          /\ used' = Account(Bytes(Current(ns, k)), 0)
          /\ ret' = result
    /\ UNCHANGED <<limits, now, heapBroken>>

SetInt(ns, k, val, ex) ==
    Called("SetInt") /\ SetScalar(ns, k, "Int", val, ex, Succeeded)

SetFloat(ns, k, ex) ==
    Called("SetFloat") /\ SetScalar(ns, k, "Float", 0, ex, Succeeded)

\* Mutant: the value is in place by the time the quota is tested.
PutBeforeTest(ns, k, type, n, ex) ==
    LET e == NewEntry(type, n, ex)
        old == Bytes(Current(ns, k))
    IN  /\ \/ ~MayHold(ns, k) /\ Fail
           \/ /\ MayHold(ns, k)
              /\ Put(ns, k, e)
              /\ caches' = [caches EXCEPT ![ns] = Invalidated(ns)]
              /\ used' = Account(old, Bytes(e))
              /\ ret' = IF OverQuota(old, Bytes(e)) THEN Failed ELSE Succeeded
        /\ UNCHANGED <<limits, now, heapBroken>>

\* The entry is made before the quota is tested, and stays when the test
\* refuses the value.
SetDynamic(ns, k, type, n, ex) ==
    LET e == NewEntry(type, n, ex)
        old == Bytes(Current(ns, k))
    IN  /\ \/ ~MayHold(ns, k) /\ Fail
           \/ /\ MayHold(ns, k) /\ OverQuota(old, Bytes(e))
              /\ Put(ns, k, Current(ns, k))
              /\ UNCHANGED <<caches, used>>
              /\ ret' = Failed
           \/ /\ MayHold(ns, k) /\ ~OverQuota(old, Bytes(e))
              /\ Put(ns, k, e)
              /\ caches' = [caches EXCEPT ![ns] = Invalidated(ns)]
              /\ used' = Account(old, Bytes(e))
              /\ ret' = Succeeded
        /\ UNCHANGED <<limits, now, heapBroken>>

\* Longer values are cut to the limit of the moment.
SetString(ns, k, len, ex) ==
    /\ Called("SetString")
    /\ SetDynamic(ns, k, "String", Lesser(len, limits.maxString), ex)

SetArray(ns, k, size, ex) ==
    /\ Called("SetArray")
    /\ SetDynamic(ns, k, "Array", Lesser(size, limits.maxArray), ex)

-----------------------------------------------------------------------------
(* Getters.  Each drops the key it finds expired; only some of them give   *)
(* its bytes back to the account.                                          *)

Read(ns, k, reclaims, answer) ==
    /\ \/ ~Present(ns, k) /\ Fail
       \/ /\ Expired(ns, k)
          /\ Erase(ns, {k}, Invalidated(ns))
          /\ used' = IF reclaims THEN Account(Bytes(entries[ns][k]), 0) ELSE used
          /\ ret' = Failed
       \/ /\ Live(ns, k)
          /\ ret' = answer
          /\ UNCHANGED <<store, used>>
    /\ UNCHANGED <<limits, now, heapBroken>>

\* Mutant: hands out a value whatever its type.
UntypedAnswer(ns, k, type, num) == Ret(TRUE, num, <<>>)

\* A getter of another type reports a mismatch and returns false.
Typed(ns, k, type, num) ==
    IF entries[ns][k].type = type THEN Ret(TRUE, num, <<>>) ELSE Failed

GetInt(ns, k) ==
    Called("GetInt") /\ Read(ns, k, FALSE, Typed(ns, k, "Int", entries[ns][k].n))

GetFloat(ns, k) ==
    Called("GetFloat") /\ Read(ns, k, FALSE, Typed(ns, k, "Float", 0))

GetString(ns, k) ==
    Called("GetString") /\ Read(ns, k, TRUE, Typed(ns, k, "String", entries[ns][k].n))

GetArray(ns, k, maxlen) ==
    /\ Called("GetArray")
    /\ Read(ns, k, TRUE, Typed(ns, k, "Array", Lesser(maxlen, entries[ns][k].n)))

GetArraySize(ns, k) ==
    Called("GetArraySize") /\ Read(ns, k, TRUE, Typed(ns, k, "Array", entries[ns][k].n))

GetKeyType(ns, k) ==
    /\ Called("GetKeyType")
    /\ Read(ns, k, FALSE, Ret(TRUE, TypeCode[entries[ns][k].type], <<>>))

KeyExists(ns, k) ==
    Called("KeyExists") /\ Read(ns, k, FALSE, Succeeded)

\* Seconds left, -1 without a TTL, -2 without the key.  Drops nothing.
GetTTL(ns, k) ==
    /\ Called("GetTTL")
    /\ ret' = IF ~Live(ns, k) THEN Ret(FALSE, -2, <<>>)
              ELSE IF entries[ns][k].policy # "TTL" THEN Ret(TRUE, -1, <<>>)
              ELSE Ret(TRUE, (entries[ns][k].until - now) \div TicksPerSecond, <<>>)
    /\ UNCHANGED <<store, used, limits, now, heapBroken>>

-----------------------------------------------------------------------------
(* Removing and renewing.                                                  *)

DeleteKey(ns, k) ==
    /\ Called("DeleteKey")
    /\ \/ ~Present(ns, k) /\ Fail
       \/ /\ Present(ns, k)
          /\ Erase(ns, {k}, Invalidated(ns))
          /\ used' = Account(Bytes(entries[ns][k]), 0)
          /\ ret' = Succeeded
    /\ UNCHANGED <<limits, now, heapBroken>>

ClearNamespace(ns) ==
    /\ Called("ClearNamespace")
    /\ \/ ns \notin namespaces /\ Fail
       \/ /\ ns \in namespaces
          /\ used' = Account(BytesAt({ns} \X Keys(ns)), 0)
          /\ Erase(ns, Key, NoCache)
          /\ ret' = Succeeded
    /\ UNCHANGED <<limits, now, heapBroken>>

\* Does not ask whether the key has already expired.
SetExpire(ns, k, ex) ==
    /\ Called("SetExpire")
    /\ \/ ~Present(ns, k) /\ Fail
       \/ /\ Present(ns, k)
          /\ Put(ns, k, WithExpiration(entries[ns][k], ex, now))
          /\ ret' = Succeeded
          /\ UNCHANGED <<caches, used>>
    /\ UNCHANGED <<limits, now, heapBroken>>

\* IncInt and IncFloat: an expired key starts again at the delta, a key of
\* another type is refused, an unknown key goes through the setter.
Increment(ns, k, type, delta, sum, ex) ==
    \/ /\ ~Present(ns, k)
       /\ SetScalar(ns, k, type, delta, ex, Ret(TRUE, delta, <<>>))
    \/ /\ Expired(ns, k)
       /\ Put(ns, k, NewEntry(type, delta, ex))
       /\ caches' = [caches EXCEPT ![ns] = Invalidated(ns)]
       /\ used' = Account(Bytes(entries[ns][k]), 0)
       /\ ret' = Ret(TRUE, delta, <<>>)
       /\ UNCHANGED <<limits, now, heapBroken>>
    \/ /\ Live(ns, k) /\ entries[ns][k].type # type
       /\ Fail
       /\ UNCHANGED <<limits, now, heapBroken>>
    \/ /\ Live(ns, k) /\ entries[ns][k].type = type
       /\ LET e == [entries[ns][k] EXCEPT !.n = sum]
          IN  Put(ns, k, IF RenewsExpiry(ex) THEN WithExpiration(e, ex, now) ELSE e)
       /\ ret' = Ret(TRUE, sum, <<>>)
       /\ UNCHANGED <<caches, used, limits, now, heapBroken>>

IncInt(ns, k, delta, ex) ==
    /\ Called("IncInt")
    /\ Increment(ns, k, "Int", delta, WrapCell(Current(ns, k).n + delta), ex)

IncFloat(ns, k, ex) ==
    Called("IncFloat") /\ Increment(ns, k, "Float", 0, 0, ex)

-----------------------------------------------------------------------------
(* Counting and enumerating.  All three drop what has expired and give no  *)
(* bytes back.                                                             *)

\* Invalidates the cache only when it dropped something.
GetNamespaceCount(ns) ==
    /\ Called("GetNamespaceCount")
    /\ LET gone == Keys(ns) \ LiveKeys(ns)
       IN  IF ns \in namespaces
           THEN Erase(ns, gone, IF gone = {} THEN caches[ns] ELSE Invalidated(ns))
           ELSE UNCHANGED store
    /\ ret' = Ret(TRUE, Cardinality(LiveKeys(ns)), <<>>)
    /\ UNCHANGED <<used, limits, now, heapBroken>>

\* What mem_iterate_keys takes its snapshot with: it leaves the cache alone.
GetActiveKeys(ns) ==
    /\ Called("GetActiveKeys")
    /\ IF ns \in namespaces
       THEN Erase(ns, Keys(ns) \ LiveKeys(ns), caches[ns])
       ELSE UNCHANGED store
    /\ \E q \in Orders(LiveKeys(ns)) : ret' = Ret(TRUE, Len(q), q)
    /\ UNCHANGED <<used, limits, now, heapBroken>>

HasValidCache(ns) == caches[ns] # NoCache /\ caches[ns].valid

\* Mutant: trusts a valid cache without asking whether the key is live.
CacheTrusted(ns, i) == HasValidCache(ns)

\* The cache answers: the index is past its end, or its key is live.
CacheAnswers(ns, i) ==
    /\ HasValidCache(ns)
    /\ i < Len(caches[ns].keys) => Live(ns, caches[ns].keys[i + 1])

AnswerAt(q, i) == IF i < Len(q) THEN Ret(TRUE, 0, <<q[i + 1]>>) ELSE Failed

\* Otherwise the cache is rebuilt in place through a reference taken before
\* GetActiveKeys (or KeyExists) ran.  When nothing in the namespace is live
\* they have erased the cache: the write goes to freed memory and the call
\* returns false.
GetKeyAt(ns, i) ==
    /\ Called("GetKeyAt")
    /\ \/ ns \notin namespaces /\ Fail /\ UNCHANGED heapBroken
       \/ /\ ns \in namespaces /\ CacheAnswers(ns, i)
          /\ ret' = AnswerAt(caches[ns].keys, i)
          /\ UNCHANGED <<store, used, heapBroken>>
       \/ /\ ns \in namespaces /\ ~CacheAnswers(ns, i) /\ LiveKeys(ns) # {}
          /\ \E q \in Orders(LiveKeys(ns)) :
                /\ Erase(ns, Keys(ns) \ LiveKeys(ns), [keys |-> q, valid |-> TRUE])
                /\ ret' = AnswerAt(q, i)
          /\ UNCHANGED <<used, heapBroken>>
       \/ /\ ns \in namespaces /\ ~CacheAnswers(ns, i) /\ LiveKeys(ns) = {}
          /\ Erase(ns, Key, NoCache)
          /\ heapBroken' = TRUE
          /\ ret' = Failed
          /\ UNCHANGED used
    /\ UNCHANGED <<limits, now>>

-----------------------------------------------------------------------------
(* Lifecycle.                                                              *)

\* OnPluginsUnloaded: one map change.
SweepMapEnd ==
    LET slots == {s \in NS \X Key : Present(s[1], s[2])}
        gone == {s \in slots : EndsAtSweep(entries[s[1]][s[2]], now)}
    IN  /\ Called("SweepMapEnd")
        /\ entries' = [ns \in NS |-> [k \in Key |->
                          IF <<ns, k>> \in slots \ gone
                          THEN AfterSweep(entries[ns][k]) ELSE Absent]]
        /\ namespaces' = {ns \in namespaces : \E k \in Key : <<ns, k>> \in slots \ gone}
        /\ caches' = NoCaches
        /\ used' = Account(BytesAt(gone), 0)
        /\ ret' = Succeeded
        /\ UNCHANGED <<limits, now, heapBroken>>

\* mem_flush_all and OnAmxxDetach; the limits stay.
ClearAll ==
    /\ Called("ClearAll")
    /\ namespaces' = {}
    /\ entries' = NoEntries
    /\ caches' = NoCaches
    /\ used' = 0
    /\ ret' = Succeeded
    /\ UNCHANGED <<limits, now, heapBroken>>

SetLimits(a) ==
    /\ Called("SetLimits")
    /\ UpdateLimits(a)
    /\ ret' = Succeeded
    /\ UNCHANGED <<kvVars, now>>

Tick ==
    /\ AdvanceClock
    /\ UNCHANGED <<kvVars, limits, call, ret>>

\* What a broken heap may do at any later moment: the server dies and starts
\* again with the constructor's state.
HeapAbort ==
    /\ Called("HeapAbort")
    /\ heapBroken
    /\ namespaces' = {}
    /\ entries' = NoEntries
    /\ caches' = NoCaches
    /\ used' = 0
    /\ limits' = InitLimits
    /\ heapBroken' = FALSE
    /\ ret' = Failed
    /\ UNCHANGED now

Write(ns, k) ==
    \E ex \in Expirations :
        \/ \E v \in Cells : SetInt(ns, k, v, ex)
        \/ SetFloat(ns, k, ex)
        \/ \E len \in Lengths : SetString(ns, k, len, ex)
        \/ \E size \in Sizes : SetArray(ns, k, size, ex)
        \/ \E d \in Deltas : IncInt(ns, k, d, ex)
        \/ IncFloat(ns, k, ex)
        \/ SetExpire(ns, k, ex)

Get(ns, k) ==
    \/ GetInt(ns, k)
    \/ GetFloat(ns, k)
    \/ GetString(ns, k)
    \/ \E maxlen \in Sizes : GetArray(ns, k, maxlen)
    \/ GetArraySize(ns, k)
    \/ GetKeyType(ns, k)
    \/ KeyExists(ns, k)
    \/ GetTTL(ns, k)

Enumerate(ns) ==
    \/ GetNamespaceCount(ns)
    \/ GetActiveKeys(ns)
    \/ \E i \in Indexes : GetKeyAt(ns, i)

KVNext ==
    \/ \E ns \in NS, k \in Key : Write(ns, k) \/ Get(ns, k) \/ DeleteKey(ns, k)
    \/ \E ns \in NS : Enumerate(ns) \/ ClearNamespace(ns)
    \/ \E a \in LimitArgs : SetLimits(a)
    \/ SweepMapEnd
    \/ ClearAll
    \/ Tick
    \/ HeapAbort

KVSpec == KVInit /\ [][KVNext]_kvSpecVars

-----------------------------------------------------------------------------
(* What always holds.                                                      *)

\* Every field keeps its type whatever the plugins call: the account stays a
\* size_t, no limit becomes 0 keys, a cache lists keys of the store.
KVTypeOK ==
    /\ EngineTypeOK
    /\ namespaces \subseteq NS
    /\ entries \in [NS -> [Key -> Entry \cup {Absent}]]
    /\ caches \in [NS -> KeyCache \cup {NoCache}]
    /\ used \in 0..(SizeMod - 1)
    /\ heapBroken \in BOOLEAN

\* m_Namespaces holds exactly the namespaces with an entry, however their last
\* entry went: an empty one left behind would eat the namespace limit.
NoEmptyNamespace == \A ns \in NS : ns \in namespaces <=> Keys(ns) # {}

\* A cache goes with its namespace, so a namespace made again never starts
\* with the key list of the one before it.
CacheOwned == \A ns \in NS : caches[ns] # NoCache => ns \in namespaces

\* A valid cache misses no key that was ever given a value, live or expired,
\* and lists no key twice: get_key_at cannot hide a stored value from an
\* index loop.  (It may list keys that mem_iterate_keys has dropped since.)
CacheComplete ==
    \A ns \in NS : HasValidCache(ns) =>
        LET q == caches[ns].keys
        IN  /\ \A k \in Keys(ns) :
                  entries[ns][k].type # "None" => \E i \in DOMAIN q : q[i] = k
            /\ \A i, j \in DOMAIN q : q[i] = q[j] => i = j

\* The account is never below what the stored payloads weigh, so the unsigned
\* sum used + new - old of the quota test never wraps below zero.
UsedCoversPayload ==
    BytesAt({s \in NS \X Key : Present(s[1], s[2])}) <= used

\* Where the account can be trusted: no quota ever asked for exceeds top, and
\* top with the largest payload on it is still a size_t, so used + new does not
\* wrap above it.
QuotasFit(top) ==
    /\ InitLimits.maxMem <= top
    /\ \A a \in LimitArgs : (a.mb * BytesPerMb) % SizeMod <= top
    /\ \A len \in Lengths : top + len < SizeMod
    /\ \A size \in Sizes : top + size * CellBytes < SizeMod

\* An entry that counts map changes has at least one left: only the sweep ends
\* it, and no getter ever finds one that has run out.
MapCountRemains ==
    \A ns \in NS, k \in Key :
        Present(ns, k) /\ entries[ns][k].policy = "MapCount" => entries[ns][k].until >= 1

\* However it was set, renewed or incremented, no TTL entry lasts longer from
\* now than the cap.
TtlWithinCap ==
    \A ns \in NS, k \in Key :
        Present(ns, k) /\ entries[ns][k].policy = "TTL" =>
            entries[ns][k].until - now <= MaxTtl * TicksPerSecond

-----------------------------------------------------------------------------
(* What no step does.                                                      *)

Same(ns, k) == entries'[ns][k] = entries[ns][k]

\* No call grows the account past the quota in force, though the entry it
\* replaces and a quota lowered meanwhile enter the test.
QuotaRespected == [][used' > used => used' <= limits.maxMem]_kvSpecVars

\* No call adds a namespace or a key at or over the limit in force.  The first
\* key of a namespace is not tested against the key limit at all.
LimitsRespected ==
    [][/\ Cardinality(namespaces') > Cardinality(namespaces) =>
              Cardinality(namespaces') <= limits.maxNs
       /\ \A ns \in NS : Cardinality(Keys(ns)') > Cardinality(Keys(ns)) =>
              Cardinality(Keys(ns)') <= limits.maxKeys]_kvSpecVars

\* A key get_key_at returns is live when it returns, whatever expired or was
\* dropped since its cache was built.
KeyAtIsLive ==
    [][\A ns \in NS, i \in Indexes : GetKeyAt(ns, i) /\ ret'.ok =>
          \E k \in Key : ret'.keys = <<k>> /\ Live(ns, k)']_kvSpecVars

\* The calls that may end or change the entry under k at any moment.
AskedFor(ns, k) ==
    Write(ns, k) \/ DeleteKey(ns, k) \/ ClearNamespace(ns) \/ ClearAll \/ HeapAbort

\* A live entry keeps its value, its policy and the time it has left through
\* every call that does not name it: reads, counts, enumerations and writes of
\* other keys, though they drop what they find expired.  A map change ends
\* exactly the entries whose policy says so, a counted one when its last map
\* change is over and no map sooner or later, and takes one off the others.
LiveEntryKept ==
    [][\A ns \in NS, k \in Key :
          /\ Live(ns, k) => Same(ns, k) \/ AskedFor(ns, k) \/ SweepMapEnd
          /\ Present(ns, k) /\ SweepMapEnd =>
                 OneMapOlder(entries[ns][k], entries'[ns][k])]_kvSpecVars
=============================================================================
