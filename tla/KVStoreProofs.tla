--------------------------- MODULE KVStoreProofs ---------------------------
(***************************************************************************)
(* Proofs about the key-value store, for every value of the constants.     *)
(***************************************************************************)
EXTENDS KVStore, EngineProofs, FiniteSetTheorems

\* What expiry may leave in an entry at tick t: MapCountRemains and
\* TtlWithinCap for one entry.
Sound(e, t) ==
    /\ e.policy = "MapCount" => e.until >= 1
    /\ e.policy = "TTL" => e.until - t <= MaxTtl * TicksPerSecond

StoreTypeOK ==
    /\ namespaces \subseteq NS
    /\ entries \in [NS -> [Key -> Entry \cup {Absent}]]
    /\ caches \in [NS -> KeyCache \cup {NoCache}]

EntriesSound ==
    \A ns \in NS, k \in Key : Present(ns, k) => Sound(entries[ns][k], now)

\* What the primitives that change the store keep.
StoreInv ==
    StoreTypeOK /\ EntriesSound /\ NoEmptyNamespace /\ CacheOwned /\ CacheComplete

\* Whatever expiry an entry is given, it stays a sound entry of its type.
LEMMA ExpirationSound ==
    ASSUME NEW e \in Entry, NEW ex \in Expiration, NEW t \in Nat
    PROVE  /\ WithExpiration(e, ex, t) \in Entry
           /\ WithExpiration(e, ex, t).type = e.type
           /\ Sound(WithExpiration(e, ex, t), t)
<1> DEFINE f == WithExpiration(e, ex, t)
<1>1. f.policy = ex.policy /\ f.type = e.type /\ f.until = Until(ex, t)
  BY DEF WithExpiration, Entry
<1>2. f \in Entry BY UntilSound DEF WithExpiration, Entry, Expiration
<1> HIDE DEF f
<1>3. Sound(f, t) BY <1>1, UntilSound DEF Sound
<1> QED BY <1>1, <1>2, <1>3 DEF f

\* What the setters store is a sound entry of the type they are for.
LEMMA NewEntrySound ==
    ASSUME NEW type \in EntryType, NEW n \in Int, NEW ex \in Expiration, now \in Nat
    PROVE  NewEntry(type, n, ex) \in Entry /\ Sound(NewEntry(type, n, ex), now)
<1>1. NewEntry(type, n, ex) \in Entry
  BY UntilSound DEF NewEntry, Entry, Expiration
<1>2. Sound(NewEntry(type, n, ex), now)
  BY UntilSound DEF NewEntry, Sound
<1> QED BY <1>1, <1>2

\* The entry operator[] finds or makes.
LEMMA CurrentSound ==
    ASSUME StoreInv, NEW ns \in NS, NEW k \in Key
    PROVE  Current(ns, k) \in Entry /\ Sound(Current(ns, k), now)
<1>1. FreshEntry \in Entry /\ Sound(FreshEntry, now)
  BY DEF FreshEntry, Entry, EntryType, ExpirePolicy, Sound
<1>2. entries[ns][k] \in Entry \cup {Absent} BY DEF StoreInv, StoreTypeOK
<1> QED BY <1>1, <1>2 DEF Current, Present, StoreInv, EntriesSound

\* The account stays a size_t whatever is released and charged.
LEMMA AccountIsSize ==
    ASSUME used \in 0..(SizeMod - 1), NEW old, NEW new \in Int
    PROVE  Account(old, new) \in 0..(SizeMod - 1)
<1>1. Monus(used, old) \in Int BY EngineAssumption DEF Monus
<1> QED BY <1>1, EngineAssumption DEF Account

\* A walk over an unordered_map meets every key once.
LEMMA OrdersVisitOnce ==
    ASSUME NEW S \in SUBSET Key, NEW q \in Orders(S)
    PROVE  /\ q \in Seq(Key) /\ Len(q) \in Nat
           /\ \A i \in DOMAIN q : q[i] \in S
           /\ \A k \in S : \E i \in DOMAIN q : q[i] = k
           /\ \A i, j \in DOMAIN q : q[i] = q[j] => i = j
           /\ DOMAIN q = 1..Len(q)
<1>1. Cardinality(S) \in Nat
  BY EngineAssumption, FS_Subset, FS_CardinalityType
<1>2. /\ q \in [1..Cardinality(S) -> S]
      /\ \A a, b \in 1..Cardinality(S) : a # b => q[a] # q[b]
      /\ \A k \in S : \E i \in 1..Cardinality(S) : q[i] = k
  BY DEF Orders, Bijection, Injection, Surjection, IsInjective
<1>3. q \in Seq(Key) /\ Len(q) = Cardinality(S)
  BY <1>1, <1>2
<1> QED BY <1>1, <1>2, <1>3

\* Writing an entry: a cache that stays has to list the key already.
LEMMA PutKeeps ==
    ASSUME StoreInv, now' = now,
           NEW ns \in NS, NEW k \in Key, NEW e \in Entry,
           Sound(e, now), Put(ns, k, e),
           \/ caches' = [caches EXCEPT ![ns] = Invalidated(ns)]
           \/ /\ caches' = caches
              /\ e.type # "None" => Present(ns, k) /\ entries[ns][k].type # "None"
    PROVE  StoreInv'
<1> USE DEF StoreInv
<1>1. entries' = [entries EXCEPT ![ns][k] = e] /\ namespaces' = namespaces \cup {ns}
  BY DEF Put
<1>2. \A m \in NS, j \in Key :
          entries'[m][j] = IF m = ns /\ j = k THEN e ELSE entries[m][j]
  BY <1>1 DEF StoreTypeOK
<1>3. e # Absent BY KVMarkers
<1>4. \A m \in NS, j \in Key : Present(m, j)' <=> Present(m, j) \/ (m = ns /\ j = k)
  BY <1>2, <1>3 DEF Present
<1>5. Invalidated(ns) \in KeyCache \cup {NoCache}
  BY DEF Invalidated, KeyCache
<1>6. StoreTypeOK'
  BY <1>1, <1>5 DEF StoreTypeOK
<1>7. EntriesSound'
  BY <1>2, <1>4 DEF EntriesSound
<1>8. NoEmptyNamespace'
  BY <1>1, <1>4 DEF NoEmptyNamespace, Keys
<1>9. CacheOwned'
  BY <1>1 DEF CacheOwned, StoreTypeOK, Invalidated
<1>10. CacheComplete'
  <2> SUFFICES ASSUME NEW m \in NS, HasValidCache(m)'
               PROVE  LET q == caches'[m].keys
                      IN  /\ \A j \in Keys(m)' :
                                entries'[m][j].type # "None" => \E i \in DOMAIN q : q[i] = j
                          /\ \A i, j \in DOMAIN q : q[i] = q[j] => i = j
    BY DEF CacheComplete
  <2>1. caches'[m] = caches[m]
    BY DEF HasValidCache, StoreTypeOK, Invalidated
  <2>2. HasValidCache(m) BY <2>1 DEF HasValidCache
  <2>3. ASSUME NEW j \in Keys(m)', entries'[m][j].type # "None"
        PROVE  j \in Keys(m) /\ entries[m][j].type # "None"
    <3>1. CASE m = ns /\ j = k
      <4>1. caches' = caches
        BY <3>1 DEF HasValidCache, StoreTypeOK, Invalidated
      <4>2. e.type # "None" BY <3>1, <2>3, <1>2
      <4>3. CASE caches' = [caches EXCEPT ![ns] = Invalidated(ns)]
        BY <3>1, <4>3 DEF HasValidCache, StoreTypeOK, Invalidated
      <4>4. CASE Present(ns, k) /\ entries[ns][k].type # "None"
        BY <3>1, <4>4 DEF Keys
      <4> QED BY <4>2, <4>3, <4>4
    <3>2. CASE ~(m = ns /\ j = k)
      BY <3>2, <2>3, <1>2, <1>4 DEF Keys
    <3> QED BY <3>1, <3>2
  <2> QED BY <2>1, <2>2, <2>3 DEF CacheComplete
<1> QED BY <1>6, <1>7, <1>8, <1>9, <1>10

\* Erasing keys: a cache that stays may list more than what is left.
LEMMA EraseKeeps ==
    ASSUME StoreInv, now' = now,
           NEW ns \in NS, NEW gone \in SUBSET Key, NEW cache,
           Erase(ns, gone, cache),
           \/ cache \in {caches[ns], Invalidated(ns), NoCache}
           \/ \E q \in Orders(Keys(ns) \ gone) : cache = [keys |-> q, valid |-> TRUE]
    PROVE  StoreInv'
<1> USE DEF StoreInv
<1> DEFINE emptied == Keys(ns) \subseteq gone
           left == Keys(ns) \ gone
<1>1. /\ entries' = [entries EXCEPT ![ns] =
                        [k \in Key |-> IF k \in gone THEN Absent ELSE @[k]]]
      /\ namespaces' = IF emptied THEN namespaces \ {ns} ELSE namespaces
      /\ caches' = [caches EXCEPT ![ns] = IF emptied THEN NoCache ELSE cache]
  BY DEF Erase
<1>2. \A m \in NS, j \in Key :
          entries'[m][j] = IF m = ns /\ j \in gone THEN Absent ELSE entries[m][j]
  BY <1>1 DEF StoreTypeOK
<1>3. \A m \in NS, j \in Key : Present(m, j)' <=> Present(m, j) /\ ~(m = ns /\ j \in gone)
  BY <1>2 DEF Present
<1>4. /\ \A m \in NS : Keys(m)' = IF m = ns THEN left ELSE Keys(m)
      /\ left = {} <=> emptied
      /\ left \in SUBSET Key
  BY <1>3 DEF Keys
<1>5. cache \in KeyCache \cup {NoCache}
  <2> HIDE DEF left
  <2>1. CASE cache \in {caches[ns], Invalidated(ns), NoCache}
    <3>1. caches[ns] \in KeyCache \cup {NoCache} BY DEF StoreTypeOK
    <3>2. Invalidated(ns) \in KeyCache \cup {NoCache} BY DEF Invalidated, KeyCache
    <3> QED BY <2>1, <3>1, <3>2
  <2>2. CASE \E q \in Orders(left) : cache = [keys |-> q, valid |-> TRUE]
    BY <2>2, <1>4, OrdersVisitOnce DEF KeyCache
  <2> QED BY <2>1, <2>2 DEF left
<1>6. StoreTypeOK'
  <2>1. entries' \in [NS -> [Key -> Entry \cup {Absent}]]
    BY <1>1 DEF StoreTypeOK
  <2> QED BY <1>1, <1>5, <2>1 DEF StoreTypeOK
<1>7. EntriesSound'
  BY <1>2, <1>3 DEF EntriesSound
<1>8. NoEmptyNamespace'
  BY <1>1, <1>4 DEF NoEmptyNamespace
<1>9. CacheOwned'
  <2> SUFFICES ASSUME NEW m \in NS, caches'[m] # NoCache PROVE m \in namespaces'
    BY DEF CacheOwned
  <2>1. CASE m = ns
    <3>1. ~emptied BY <1>1, <2>1 DEF StoreTypeOK
    <3> QED BY <1>1, <2>1, <3>1 DEF NoEmptyNamespace
  <2>2. CASE m # ns
    BY <1>1, <2>2 DEF CacheOwned, StoreTypeOK
  <2> QED BY <2>1, <2>2
<1>10. CacheComplete'
  <2> SUFFICES ASSUME NEW m \in NS, HasValidCache(m)'
               PROVE  LET q == caches'[m].keys
                      IN  /\ \A j \in Keys(m)' :
                                entries'[m][j].type # "None" => \E i \in DOMAIN q : q[i] = j
                          /\ \A i, j \in DOMAIN q : q[i] = q[j] => i = j
    BY DEF CacheComplete
  <2>1. CASE caches'[m] = caches[m]
    <3>1. HasValidCache(m) BY <2>1 DEF HasValidCache
    <3>2. \A j \in Keys(m)' : j \in Keys(m) /\ entries'[m][j] = entries[m][j]
      BY <1>2, <1>3 DEF Keys
    <3> QED BY <2>1, <3>1, <3>2 DEF CacheComplete
  <2>2. CASE caches'[m] # caches[m]
    <3>1. m = ns /\ ~emptied /\ caches'[m] = cache
      BY <2>2, <1>1 DEF StoreTypeOK, HasValidCache
    <3>2. cache # NoCache /\ cache.valid
      BY <3>1 DEF HasValidCache
    <3>3. cache \notin {caches[ns], Invalidated(ns), NoCache}
      BY <2>2, <3>1, <3>2 DEF Invalidated
    <3>4. PICK q \in Orders(left) : cache = [keys |-> q, valid |-> TRUE]
      BY <3>3
    <3>5. caches'[m].keys = q /\ Keys(m)' = left BY <3>1, <3>4, <1>4
    <3>6. /\ \A j \in left : \E i \in DOMAIN q : q[i] = j
          /\ \A i, j \in DOMAIN q : q[i] = q[j] => i = j
      BY <1>4, OrdersVisitOnce
    <3> HIDE DEF left
    <3> QED BY <3>5, <3>6
  <2> QED BY <2>1, <2>2
<1> QED BY <1>6, <1>7, <1>8, <1>9, <1>10

\* A call that leaves the store and the clock alone, or only lets time pass.
LEMMA StoreKept ==
    ASSUME StoreInv, UNCHANGED store, now \in Nat, now' \in Nat, now' >= now
    PROVE  StoreInv'
<1> USE DEF StoreInv
<1>1. namespaces' = namespaces /\ entries' = entries /\ caches' = caches
  BY DEF store
<1>2. StoreTypeOK' BY <1>1 DEF StoreTypeOK
<1>3. EntriesSound'
  <2> SUFFICES ASSUME NEW ns \in NS, NEW k \in Key, Present(ns, k)'
               PROVE  Sound(entries[ns][k], now')
    BY <1>1 DEF EntriesSound
  <2>1. Present(ns, k) /\ entries[ns][k] \in Entry
    BY <1>1 DEF Present, StoreTypeOK
  <2>2. Sound(entries[ns][k], now) /\ entries[ns][k].until \in Int
    BY <2>1 DEF EntriesSound, Entry
  <2>3. MaxTtl * TicksPerSecond \in Int BY ExpiryAssumption
  <2> QED BY <2>2, <2>3 DEF Sound
<1>4. NoEmptyNamespace' /\ CacheOwned' /\ CacheComplete'
  BY <1>1 DEF NoEmptyNamespace, CacheOwned, CacheComplete, HasValidCache, Keys, Present
<1> QED BY <1>2, <1>3, <1>4

-----------------------------------------------------------------------------
(* The inductive invariant, kept by each method in turn.                   *)

RestTypeOK ==
    /\ EngineTypeOK
    /\ used \in 0..(SizeMod - 1)
    /\ heapBroken \in BOOLEAN

KVInv == StoreInv /\ RestTypeOK

\* A method that answers, keeps limits and clock, and accounts for its bytes.
LEMMA RestKept ==
    ASSUME RestTypeOK, UNCHANGED <<limits, now>>, call' \in Method, ret' \in Answer,
           used' \in 0..(SizeMod - 1), heapBroken' \in BOOLEAN
    PROVE  RestTypeOK'
BY DEF RestTypeOK, EngineTypeOK, Answer

LEMMA SetScalarKeeps ==
    ASSUME KVInv, call' \in Method, NEW ns \in NS, NEW k \in Key,
           NEW type \in {"Int", "Float"}, NEW n \in Int, NEW ex \in Expiration,
           NEW result \in Answer,
           SetScalar(ns, k, type, n, ex, result)
    PROVE  KVInv'
<1>1. now \in Nat /\ now' = now /\ UNCHANGED <<limits, now, heapBroken>>
  BY DEF KVInv, RestTypeOK, EngineTypeOK, SetScalar
<1>2. CASE Fail
  <2>1. StoreInv' BY <1>1, <1>2, StoreKept DEF Fail, KVInv
  <2>2. RestTypeOK' BY <1>1, <1>2, RestKept, Answers DEF Fail, KVInv, RestTypeOK
  <2> QED BY <2>1, <2>2 DEF KVInv
<1>3. CASE ~Fail
  <2>1. /\ Put(ns, k, NewEntry(type, n, ex))
        /\ caches' = [caches EXCEPT ![ns] = Invalidated(ns)]
        /\ used' = Account(Bytes(Current(ns, k)), 0)
        /\ ret' = result
    BY <1>3 DEF SetScalar
  <2>2. StoreInv'
    BY <1>1, <2>1, NewEntrySound, PutKeeps DEF KVInv, EntryType
  <2>3. RestTypeOK'
    BY <1>1, <2>1, AccountIsSize, RestKept DEF KVInv, RestTypeOK
  <2> QED BY <2>2, <2>3 DEF KVInv
<1> QED BY <1>2, <1>3

\* The bytes of an entry, which the setters weigh.
LEMMA BytesInt ==
    ASSUME NEW e \in Entry
    PROVE  Bytes(e) \in Int
<1>1. e.n \in Int BY DEF Entry
<1>2. e.n * CellBytes \in Int BY <1>1, KVAssumption
<1> QED BY <1>1, <1>2 DEF Bytes

LEMMA SetDynamicKeeps ==
    ASSUME KVInv, call' \in Method, NEW ns \in NS, NEW k \in Key,
           NEW type \in {"String", "Array"}, NEW n \in Int, NEW ex \in Expiration,
           SetDynamic(ns, k, type, n, ex)
    PROVE  KVInv'
<1> DEFINE e == NewEntry(type, n, ex)
           old == Bytes(Current(ns, k))
<1>1. now \in Nat /\ now' = now /\ UNCHANGED <<limits, now, heapBroken>>
  BY DEF KVInv, RestTypeOK, EngineTypeOK, SetDynamic
<1>2. \/ ~MayHold(ns, k) /\ Fail
      \/ /\ MayHold(ns, k) /\ OverQuota(old, Bytes(e))
         /\ Put(ns, k, Current(ns, k))
         /\ UNCHANGED <<caches, used>>
         /\ ret' = Failed
      \/ /\ MayHold(ns, k) /\ ~OverQuota(old, Bytes(e))
         /\ Put(ns, k, e)
         /\ caches' = [caches EXCEPT ![ns] = Invalidated(ns)]
         /\ used' = Account(old, Bytes(e))
         /\ ret' = Succeeded
  BY DEF SetDynamic
<1>3. e \in Entry /\ Sound(e, now)
  BY <1>1, NewEntrySound DEF EntryType
<1> HIDE DEF e, old
<1>4. CASE Fail
  <2>1. StoreInv' BY <1>1, <1>4, StoreKept DEF Fail, KVInv
  <2>2. RestTypeOK' BY <1>1, <1>4, RestKept, Answers DEF Fail, KVInv, RestTypeOK
  <2> QED BY <2>1, <2>2 DEF KVInv
<1>5. CASE Put(ns, k, Current(ns, k)) /\ UNCHANGED <<caches, used>> /\ ret' = Failed
  <2>1. Current(ns, k).type # "None" => Present(ns, k) /\ entries[ns][k].type # "None"
    BY DEF Current, FreshEntry
  <2>2. StoreInv' BY <1>1, <1>5, <2>1, CurrentSound, PutKeeps DEF KVInv
  <2>3. RestTypeOK' BY <1>1, <1>5, RestKept, Answers DEF KVInv, RestTypeOK
  <2> QED BY <2>2, <2>3 DEF KVInv
<1>6. CASE /\ Put(ns, k, e) /\ caches' = [caches EXCEPT ![ns] = Invalidated(ns)]
           /\ used' = Account(old, Bytes(e)) /\ ret' = Succeeded
  <2>1. StoreInv' BY <1>1, <1>3, <1>6, PutKeeps DEF KVInv
  <2>2. used' \in 0..(SizeMod - 1)
    BY <1>3, <1>6, BytesInt, AccountIsSize DEF KVInv, RestTypeOK
  <2>3. RestTypeOK' BY <1>1, <1>6, <2>2, RestKept, Answers DEF KVInv, RestTypeOK
  <2> QED BY <2>1, <2>3 DEF KVInv
<1> QED BY <1>2, <1>4, <1>5, <1>6

\* A call that answers and changes nothing else.
LEMMA OnlyAnswerKeeps ==
    ASSUME KVInv, call' \in Method, ret' \in Answer,
           UNCHANGED <<store, used, limits, now, heapBroken>>
    PROVE  KVInv'
<1>1. now \in Nat /\ now' = now BY DEF KVInv, RestTypeOK, EngineTypeOK
<1>2. StoreInv' BY <1>1, StoreKept DEF KVInv
<1>3. RestTypeOK' BY <1>1, RestKept DEF KVInv, RestTypeOK
<1> QED BY <1>2, <1>3 DEF KVInv

\* A call that erases keys and answers.
LEMMA ErasingKeeps ==
    ASSUME KVInv, call' \in Method, ret' \in Answer, UNCHANGED <<limits, now>>,
           used' \in 0..(SizeMod - 1), heapBroken' \in BOOLEAN,
           NEW ns \in NS, NEW gone \in SUBSET Key, NEW cache,
           Erase(ns, gone, cache),
           \/ cache \in {caches[ns], Invalidated(ns), NoCache}
           \/ \E q \in Orders(Keys(ns) \ gone) : cache = [keys |-> q, valid |-> TRUE]
    PROVE  KVInv'
<1>1. StoreInv' BY EraseKeeps DEF KVInv
<1>2. RestTypeOK' BY RestKept DEF KVInv
<1> QED BY <1>1, <1>2 DEF KVInv

LEMMA ReadKeeps ==
    ASSUME KVInv, call' \in Method, NEW ns \in NS, NEW k \in Key,
           NEW reclaims \in BOOLEAN, NEW answer,
           Live(ns, k) => answer \in Answer,
           Read(ns, k, reclaims, answer)
    PROVE  KVInv'
<1>1. UNCHANGED <<limits, now, heapBroken>> BY DEF Read
<1>2. CASE Fail
  BY <1>1, <1>2, Answers, OnlyAnswerKeeps DEF Fail
<1>3. CASE /\ Erase(ns, {k}, Invalidated(ns)) /\ ret' = Failed
           /\ used' = IF reclaims THEN Account(Bytes(entries[ns][k]), 0) ELSE used
  <2>1. used' \in 0..(SizeMod - 1)
    BY <1>3, AccountIsSize DEF KVInv, RestTypeOK
  <2> QED BY <1>1, <1>3, <2>1, Answers, ErasingKeeps DEF KVInv, RestTypeOK
<1>4. CASE Live(ns, k) /\ ret' = answer /\ UNCHANGED <<store, used>>
  BY <1>1, <1>4, OnlyAnswerKeeps
<1> QED BY <1>2, <1>3, <1>4 DEF Read

\* The entry of a live key has a number to answer with.
LEMMA LiveEntry ==
    ASSUME KVInv, NEW ns \in NS, NEW k \in Key, Present(ns, k)
    PROVE  entries[ns][k] \in Entry /\ entries[ns][k].n \in Int
BY DEF KVInv, StoreInv, StoreTypeOK, Present, Entry

LEMMA GetKeeps ==
    ASSUME KVInv, NEW ns \in NS, NEW k \in Key, Get(ns, k)
    PROVE  KVInv'
<1> DEFINE n == entries[ns][k].n
<1>1. \A type, num : num \in Int => Typed(ns, k, type, num) \in Answer
  BY Answers DEF Typed
<1>2. Live(ns, k) => n \in Int BY LiveEntry DEF Live
<1>3. CASE GetInt(ns, k)
  <2>1. Live(ns, k) => Typed(ns, k, "Int", n) \in Answer BY <1>1, <1>2
  <2> QED BY <1>3, <2>1, ReadKeeps DEF GetInt, Called, Method
<1>4. CASE GetFloat(ns, k)
  <2>1. Typed(ns, k, "Float", 0) \in Answer BY <1>1
  <2> QED BY <1>4, <2>1, ReadKeeps DEF GetFloat, Called, Method
<1>5. CASE GetString(ns, k)
  <2>1. Live(ns, k) => Typed(ns, k, "String", n) \in Answer BY <1>1, <1>2
  <2> QED BY <1>5, <2>1, ReadKeeps DEF GetString, Called, Method
<1>6. CASE \E maxlen \in Sizes : GetArray(ns, k, maxlen)
  <2>1. PICK maxlen \in Sizes : GetArray(ns, k, maxlen) BY <1>6
  <2>2. Live(ns, k) => Lesser(maxlen, n) \in Int BY <1>2, KVAssumption DEF Lesser
  <2>3. Live(ns, k) => Typed(ns, k, "Array", Lesser(maxlen, n)) \in Answer BY <1>1, <2>2
  <2> QED BY <2>1, <2>3, ReadKeeps DEF GetArray, Called, Method
<1>7. CASE GetArraySize(ns, k)
  <2>1. Live(ns, k) => Typed(ns, k, "Array", n) \in Answer BY <1>1, <1>2
  <2> QED BY <1>7, <2>1, ReadKeeps DEF GetArraySize, Called, Method
<1>8. CASE GetKeyType(ns, k)
  <2>1. Live(ns, k) => TypeCode[entries[ns][k].type] \in Int
    <3>1. \A type \in EntryType : TypeCode[type] \in Int BY DEF EntryType, TypeCode
    <3> QED BY <3>1, LiveEntry DEF Live, Entry
  <2>2. Live(ns, k) => Ret(TRUE, TypeCode[entries[ns][k].type], <<>>) \in Answer
    BY <2>1, Answers
  <2> QED BY <1>8, <2>2, ReadKeeps DEF GetKeyType, Called, Method
<1>9. CASE KeyExists(ns, k)
  BY <1>9, Answers, ReadKeeps DEF KeyExists, Called, Method
<1>10. CASE GetTTL(ns, k)
  <2>1. Live(ns, k) => (entries[ns][k].until - now) \div TicksPerSecond \in Int
    BY LiveEntry, ExpiryAssumption DEF Live, Entry, KVInv, RestTypeOK, EngineTypeOK
  <2>2. CASE ~Live(ns, k)
    <3>1. ret' = Ret(FALSE, -2, <<>>) BY <1>10, <2>2 DEF GetTTL
    <3>2. -2 \in Int OBVIOUS
    <3>3. ret' \in Answer BY <3>1, <3>2, Answers
    <3> QED BY <1>10, <3>3, OnlyAnswerKeeps DEF GetTTL, Called, Method
  <2>3. CASE Live(ns, k)
    <3>1. \/ ret' = Ret(TRUE, -1, <<>>)
          \/ ret' = Ret(TRUE, (entries[ns][k].until - now) \div TicksPerSecond, <<>>)
      BY <1>10, <2>3 DEF GetTTL
    <3>2. -1 \in Int OBVIOUS
    <3>3. ret' \in Answer BY <2>1, <2>3, <3>1, <3>2, Answers
    <3> QED BY <1>10, <3>3, OnlyAnswerKeeps DEF GetTTL, Called, Method
  <2> QED BY <2>2, <2>3
<1> QED BY <1>3, <1>4, <1>5, <1>6, <1>7, <1>8, <1>9, <1>10 DEF Get

LEMMA RemovingKeeps ==
    ASSUME KVInv, NEW ns \in NS,
           ClearNamespace(ns) \/ \E k \in Key : DeleteKey(ns, k)
    PROVE  KVInv'
<1>1. CASE ClearNamespace(ns)
  <2>1. call' \in Method /\ UNCHANGED <<limits, now, heapBroken>>
    BY <1>1 DEF ClearNamespace, Called, Method
  <2>2. CASE Fail BY <2>1, <2>2, Answers, OnlyAnswerKeeps DEF Fail
  <2>3. CASE ~Fail
    <3>1. /\ used' = Account(BytesAt({ns} \X Keys(ns)), 0)
          /\ Erase(ns, Key, NoCache) /\ ret' = Succeeded
      BY <1>1, <2>3 DEF ClearNamespace
    <3>2. used' \in 0..(SizeMod - 1) BY <3>1, AccountIsSize DEF KVInv, RestTypeOK
    <3> QED BY <2>1, <3>1, <3>2, Answers, ErasingKeeps DEF KVInv, RestTypeOK
  <2> QED BY <2>2, <2>3
<1>2. CASE \E k \in Key : DeleteKey(ns, k)
  <2>1. PICK k \in Key : DeleteKey(ns, k) BY <1>2
  <2>2. call' \in Method /\ UNCHANGED <<limits, now, heapBroken>>
    BY <2>1 DEF DeleteKey, Called, Method
  <2>3. CASE Fail BY <2>2, <2>3, Answers, OnlyAnswerKeeps DEF Fail
  <2>4. CASE ~Fail
    <3>1. /\ Erase(ns, {k}, Invalidated(ns)) /\ ret' = Succeeded
          /\ used' = Account(Bytes(entries[ns][k]), 0)
      BY <2>1, <2>4 DEF DeleteKey
    <3>2. used' \in 0..(SizeMod - 1) BY <3>1, AccountIsSize DEF KVInv, RestTypeOK
    <3> QED BY <2>2, <3>1, <3>2, Answers, ErasingKeeps DEF KVInv, RestTypeOK
  <2> QED BY <2>3, <2>4
<1> QED BY <1>1, <1>2

LEMMA SetExpireKeeps ==
    ASSUME KVInv, NEW ns \in NS, NEW k \in Key, NEW ex \in Expiration,
           SetExpire(ns, k, ex)
    PROVE  KVInv'
<1>1. call' \in Method /\ UNCHANGED <<limits, now, heapBroken>>
  BY DEF SetExpire, Called, Method
<1>2. CASE Fail BY <1>1, <1>2, Answers, OnlyAnswerKeeps DEF Fail
<1>3. CASE ~Fail
  <2> DEFINE e == WithExpiration(entries[ns][k], ex, now)
  <2>1. /\ Present(ns, k) /\ Put(ns, k, e) /\ ret' = Succeeded
        /\ UNCHANGED <<caches, used>>
    BY <1>3 DEF SetExpire
  <2>2. now \in Nat /\ now' = now BY <1>1 DEF KVInv, RestTypeOK, EngineTypeOK
  <2>3. e \in Entry /\ e.type = entries[ns][k].type /\ Sound(e, now)
    BY <2>1, <2>2, LiveEntry, ExpirationSound
  <2> HIDE DEF e
  <2>4. StoreInv' BY <2>1, <2>2, <2>3, PutKeeps DEF KVInv
  <2>5. RestTypeOK' BY <1>1, <2>1, RestKept, Answers DEF KVInv, RestTypeOK
  <2> QED BY <2>4, <2>5 DEF KVInv
<1> QED BY <1>2, <1>3

LEMMA IncrementKeeps ==
    ASSUME KVInv, call' \in Method, NEW ns \in NS, NEW k \in Key,
           NEW type \in {"Int", "Float"}, NEW delta \in Int, NEW sum \in Int,
           NEW ex \in Expiration,
           Increment(ns, k, type, delta, sum, ex)
    PROVE  KVInv'
<1>1. now \in Nat BY DEF KVInv, RestTypeOK, EngineTypeOK
<1>2. Ret(TRUE, delta, <<>>) \in Answer /\ Ret(TRUE, sum, <<>>) \in Answer
  BY Answers
<1>3. CASE SetScalar(ns, k, type, delta, ex, Ret(TRUE, delta, <<>>))
  BY <1>2, <1>3, SetScalarKeeps
<1>4. CASE /\ Put(ns, k, NewEntry(type, delta, ex))
           /\ caches' = [caches EXCEPT ![ns] = Invalidated(ns)]
           /\ used' = Account(Bytes(entries[ns][k]), 0)
           /\ ret' = Ret(TRUE, delta, <<>>)
           /\ UNCHANGED <<limits, now, heapBroken>>
  <2>1. StoreInv' BY <1>1, <1>4, NewEntrySound, PutKeeps DEF KVInv, EntryType
  <2>2. used' \in 0..(SizeMod - 1) BY <1>4, AccountIsSize DEF KVInv, RestTypeOK
  <2>3. RestTypeOK' BY <1>2, <1>4, <2>2, RestKept DEF KVInv, RestTypeOK
  <2> QED BY <2>1, <2>3 DEF KVInv
<1>5. CASE Fail /\ UNCHANGED <<limits, now, heapBroken>>
  BY <1>5, Answers, OnlyAnswerKeeps DEF Fail
<1>6. CASE /\ Live(ns, k) /\ entries[ns][k].type = type
           /\ LET e == [entries[ns][k] EXCEPT !.n = sum]
              IN  Put(ns, k, IF RenewsExpiry(ex) THEN WithExpiration(e, ex, now) ELSE e)
           /\ ret' = Ret(TRUE, sum, <<>>)
           /\ UNCHANGED <<caches, used, limits, now, heapBroken>>
  <2> DEFINE e == [entries[ns][k] EXCEPT !.n = sum]
             f == IF RenewsExpiry(ex) THEN WithExpiration(e, ex, now) ELSE e
  <2>1. Present(ns, k) /\ entries[ns][k] \in Entry BY <1>6, LiveEntry DEF Live
  <2>2. Sound(entries[ns][k], now) BY <2>1 DEF KVInv, StoreInv, EntriesSound
  <2>3. e \in Entry /\ e.type = type BY <1>6, <2>1 DEF Entry
  <2>4. e.policy = entries[ns][k].policy /\ e.until = entries[ns][k].until
    BY <2>1 DEF Entry
  <2>5. Sound(e, now) BY <2>2, <2>4 DEF Sound
  <2> HIDE DEF e
  <2>6. f \in Entry /\ Sound(f, now) BY <1>1, <2>3, <2>5, ExpirationSound
  <2>7. Put(ns, k, f) BY <1>6 DEF e
  <2> HIDE DEF f
  <2>8. entries[ns][k].type # "None" BY <1>6
  <2>9. StoreInv' BY <1>6, <2>1, <2>6, <2>7, <2>8, PutKeeps DEF KVInv
  <2>10. RestTypeOK' BY <1>2, <1>6, RestKept DEF KVInv, RestTypeOK
  <2> QED BY <2>9, <2>10 DEF KVInv
<1> QED BY <1>3, <1>4, <1>5, <1>6 DEF Increment

\* Arguments of the setters are values of their types.
LEMMA Arguments ==
    /\ Expirations \subseteq Expiration
    /\ Cells \subseteq Int /\ Deltas \subseteq Int
    /\ Lengths \subseteq Nat /\ Sizes \subseteq Nat
BY EngineAssumption, KVAssumption DEF Cell

LEMMA WriteKeeps ==
    ASSUME KVInv, NEW ns \in NS, NEW k \in Key, Write(ns, k)
    PROVE  KVInv'
<1>1. PICK ex \in Expirations :
          \/ \E v \in Cells : SetInt(ns, k, v, ex)
          \/ SetFloat(ns, k, ex)
          \/ \E len \in Lengths : SetString(ns, k, len, ex)
          \/ \E size \in Sizes : SetArray(ns, k, size, ex)
          \/ \E d \in Deltas : IncInt(ns, k, d, ex)
          \/ IncFloat(ns, k, ex)
          \/ SetExpire(ns, k, ex)
  BY DEF Write
<1>2. ex \in Expiration BY Arguments
<1>3. limits.maxString \in Int /\ limits.maxArray \in Int
  BY DEF KVInv, RestTypeOK, EngineTypeOK, Limits
<1>4. CASE \E v \in Cells : SetInt(ns, k, v, ex)
  BY <1>2, <1>4, Arguments, Answers, SetScalarKeeps DEF SetInt, Called, Method
<1>5. CASE SetFloat(ns, k, ex)
  BY <1>2, <1>5, Answers, SetScalarKeeps DEF SetFloat, Called, Method
<1>6. CASE \E len \in Lengths : SetString(ns, k, len, ex)
  <2>1. PICK len \in Lengths : SetString(ns, k, len, ex) BY <1>6
  <2>2. Lesser(len, limits.maxString) \in Int BY <1>3, Arguments DEF Lesser
  <2> QED BY <1>2, <2>1, <2>2, SetDynamicKeeps DEF SetString, Called, Method
<1>7. CASE \E size \in Sizes : SetArray(ns, k, size, ex)
  <2>1. PICK size \in Sizes : SetArray(ns, k, size, ex) BY <1>7
  <2>2. Lesser(size, limits.maxArray) \in Int BY <1>3, Arguments DEF Lesser
  <2> QED BY <1>2, <2>1, <2>2, SetDynamicKeeps DEF SetArray, Called, Method
<1>8. CASE \E d \in Deltas : IncInt(ns, k, d, ex)
  <2>1. PICK d \in Deltas : IncInt(ns, k, d, ex) BY <1>8
  <2>2. Current(ns, k) \in Entry BY CurrentSound DEF KVInv
  <2>3. Current(ns, k).n + d \in Int BY <2>2, Arguments DEF Entry
  <2>4. WrapCell(Current(ns, k).n + d) \in Int BY <2>3, WrapCellIsCell
  <2> QED BY <1>2, <2>1, <2>4, Arguments, IncrementKeeps DEF IncInt, Called, Method
<1>9. CASE IncFloat(ns, k, ex)
  BY <1>2, <1>9, IncrementKeeps DEF IncFloat, Called, Method
<1>10. CASE SetExpire(ns, k, ex)
  BY <1>2, <1>10, SetExpireKeeps
<1> QED BY <1>1, <1>4, <1>5, <1>6, <1>7, <1>8, <1>9, <1>10

\* A count is a number, and a walk an answer.
LEMMA LiveKeysFinite ==
    ASSUME NEW ns \in NS
    PROVE  LiveKeys(ns) \in SUBSET Key /\ Cardinality(LiveKeys(ns)) \in Nat
<1>1. LiveKeys(ns) \in SUBSET Key BY DEF LiveKeys
<1> QED BY <1>1, EngineAssumption, FS_Subset, FS_CardinalityType

LEMMA AnswerAtAnswers ==
    ASSUME NEW q \in Seq(Key), NEW i \in Nat
    PROVE  AnswerAt(q, i) \in Answer
<1>1. CASE i < Len(q)
  <2>1. q[i + 1] \in Key BY <1>1
  <2>2. <<q[i + 1]>> \in Seq(Key) BY <2>1
  <2>3. Ret(TRUE, 0, <<q[i + 1]>>) \in Answer BY <2>2 DEF Ret, Answer
  <2> QED BY <1>1, <2>3 DEF AnswerAt
<1>2. CASE ~(i < Len(q)) BY <1>2, Answers DEF AnswerAt
<1> QED BY <1>1, <1>2

LEMMA CountKeeps ==
    ASSUME KVInv, NEW ns \in NS, GetNamespaceCount(ns)
    PROVE  KVInv'
<1> DEFINE gone == Keys(ns) \ LiveKeys(ns)
           cache == IF gone = {} THEN caches[ns] ELSE Invalidated(ns)
<1>1. call' \in Method /\ UNCHANGED <<used, limits, now, heapBroken>>
  BY DEF GetNamespaceCount, Called, Method
<1>2. ret' = Ret(TRUE, Cardinality(LiveKeys(ns)), <<>>) BY DEF GetNamespaceCount
<1>3. ret' \in Answer
  <2>1. Cardinality(LiveKeys(ns)) \in Int BY LiveKeysFinite
  <2>2. Ret(TRUE, Cardinality(LiveKeys(ns)), <<>>) \in Answer BY <2>1, Answers
  <2> QED BY <1>2, <2>2
<1>4. CASE ns \in namespaces
  <2>1. gone \in SUBSET Key BY DEF Keys
  <2>2. cache \in {caches[ns], Invalidated(ns), NoCache} OBVIOUS
  <2>3. Erase(ns, gone, cache) BY <1>4 DEF GetNamespaceCount
  <2> HIDE DEF gone, cache
  <2> QED BY <1>1, <1>3, <2>1, <2>2, <2>3, ErasingKeeps DEF KVInv, RestTypeOK
<1>5. CASE ns \notin namespaces
  <2>1. UNCHANGED store BY <1>5 DEF GetNamespaceCount
  <2> QED BY <1>1, <1>3, <2>1, OnlyAnswerKeeps
<1> QED BY <1>4, <1>5

LEMMA ActiveKeysKeeps ==
    ASSUME KVInv, NEW ns \in NS, GetActiveKeys(ns)
    PROVE  KVInv'
<1> DEFINE gone == Keys(ns) \ LiveKeys(ns)
<1>1. call' \in Method /\ UNCHANGED <<used, limits, now, heapBroken>>
  BY DEF GetActiveKeys, Called, Method
<1>2. PICK q \in Orders(LiveKeys(ns)) : ret' = Ret(TRUE, Len(q), q)
  BY DEF GetActiveKeys
<1>3. ret' \in Answer
  <2>1. q \in Seq(Key) /\ Len(q) \in Nat BY LiveKeysFinite, OrdersVisitOnce
  <2>2. Ret(TRUE, Len(q), q) \in Answer BY <2>1 DEF Ret, Answer
  <2> QED BY <1>2, <2>2
<1>4. CASE ns \in namespaces
  <2>1. gone \in SUBSET Key BY DEF Keys
  <2>2. Erase(ns, gone, caches[ns]) BY <1>4 DEF GetActiveKeys
  <2> HIDE DEF gone
  <2> QED BY <1>1, <1>3, <2>1, <2>2, ErasingKeeps DEF KVInv, RestTypeOK
<1>5. CASE ns \notin namespaces
  <2>1. UNCHANGED store BY <1>5 DEF GetActiveKeys
  <2> QED BY <1>1, <1>3, <2>1, OnlyAnswerKeeps
<1> QED BY <1>4, <1>5

LEMMA KeyAtKeeps ==
    ASSUME KVInv, NEW ns \in NS, NEW i \in Indexes, GetKeyAt(ns, i)
    PROVE  KVInv'
<1>1. call' \in Method /\ UNCHANGED <<limits, now>>
  BY DEF GetKeyAt, Called, Method
<1>2. i \in Nat BY KVAssumption
<1>3. CASE Fail /\ UNCHANGED heapBroken
  BY <1>1, <1>3, Answers, OnlyAnswerKeeps DEF Fail
<1>4. CASE /\ CacheAnswers(ns, i) /\ ret' = AnswerAt(caches[ns].keys, i)
           /\ UNCHANGED <<store, used, heapBroken>>
  <2>1. caches[ns].keys \in Seq(Key)
    BY <1>4 DEF CacheAnswers, HasValidCache, KVInv, StoreInv, StoreTypeOK, KeyCache
  <2>2. ret' \in Answer BY <1>2, <1>4, <2>1, AnswerAtAnswers
  <2> QED BY <1>1, <1>4, <2>2, OnlyAnswerKeeps
<1>5. CASE /\ \E q \in Orders(LiveKeys(ns)) :
                 /\ Erase(ns, Keys(ns) \ LiveKeys(ns), [keys |-> q, valid |-> TRUE])
                 /\ ret' = AnswerAt(q, i)
           /\ UNCHANGED <<used, heapBroken>>
  <2> DEFINE gone == Keys(ns) \ LiveKeys(ns)
  <2>1. PICK q \in Orders(LiveKeys(ns)) :
            /\ Erase(ns, gone, [keys |-> q, valid |-> TRUE])
            /\ ret' = AnswerAt(q, i)
    BY <1>5
  <2>2. Keys(ns) \ gone = LiveKeys(ns) /\ gone \in SUBSET Key
    BY DEF Keys, LiveKeys, Live
  <2>3. ret' \in Answer
    BY <1>2, <2>1, LiveKeysFinite, OrdersVisitOnce, AnswerAtAnswers
  <2> HIDE DEF gone
  <2> QED BY <1>1, <1>5, <2>1, <2>2, <2>3, ErasingKeeps DEF KVInv, RestTypeOK
<1>6. CASE Erase(ns, Key, NoCache) /\ heapBroken' = TRUE /\ ret' = Failed /\ UNCHANGED used
  BY <1>1, <1>6, Answers, ErasingKeeps DEF KVInv, RestTypeOK
<1> QED BY <1>3, <1>4, <1>5, <1>6 DEF GetKeyAt

\* One map change: what stays of a MapCount entry has a map change left.
LEMMA SweepKeeps ==
    ASSUME KVInv, SweepMapEnd
    PROVE  KVInv'
<1> DEFINE slots == {s \in NS \X Key : Present(s[1], s[2])}
           gone == {s \in slots : EndsAtSweep(entries[s[1]][s[2]], now)}
           kept == slots \ gone
<1>1. /\ entries' = [ns \in NS |-> [k \in Key |->
                        IF <<ns, k>> \in kept THEN AfterSweep(entries[ns][k]) ELSE Absent]]
      /\ namespaces' = {ns \in namespaces : \E k \in Key : <<ns, k>> \in kept}
      /\ caches' = NoCaches
      /\ used' = Account(BytesAt(gone), 0)
      /\ ret' = Succeeded
      /\ UNCHANGED <<limits, now, heapBroken>>
      /\ call' \in Method
  BY DEF SweepMapEnd, Called, Method
<1>2. \A ns \in NS, k \in Key : <<ns, k>> \in kept <=>
          Present(ns, k) /\ ~EndsAtSweep(entries[ns][k], now)
  OBVIOUS
<1> HIDE DEF kept
<1>3. now \in Nat BY DEF KVInv, RestTypeOK, EngineTypeOK
<1>4. ASSUME NEW ns \in NS, NEW k \in Key, <<ns, k>> \in kept
      PROVE  AfterSweep(entries[ns][k]) \in Entry /\ Sound(AfterSweep(entries[ns][k]), now)
  <2> DEFINE e == entries[ns][k]
  <2>1. Present(ns, k) /\ ~EndsAtSweep(e, now) BY <1>2, <1>4
  <2>2. e \in Entry /\ Sound(e, now)
    BY <2>1, LiveEntry DEF KVInv, StoreInv, EntriesSound
  <2> HIDE DEF e
  <2>3. CASE e.policy = "MapCount"
    <3>1. e.until - 1 \in Int /\ e.until - 1 >= 1
      BY <2>1, <2>2, <2>3 DEF EndsAtSweep, Entry
    <3>2. AfterSweep(e) = [e EXCEPT !.until = e.until - 1] BY <2>3 DEF AfterSweep
    <3>3. AfterSweep(e) \in Entry BY <2>2, <3>1, <3>2 DEF Entry
    <3>4. AfterSweep(e).policy = "MapCount" /\ AfterSweep(e).until = e.until - 1
      BY <2>2, <2>3, <3>2 DEF Entry
    <3> QED BY <3>1, <3>3, <3>4 DEF Sound, e
  <2>4. CASE e.policy # "MapCount"
    BY <2>2, <2>4 DEF AfterSweep, e
  <2> QED BY <2>3, <2>4
<1>5. \A ns \in NS, k \in Key : Present(ns, k)' <=> <<ns, k>> \in kept
  BY <1>1, <1>4, KVMarkers DEF Present
<1>6. StoreTypeOK'
  <2>1. namespaces' \subseteq NS BY <1>1 DEF KVInv, StoreInv, StoreTypeOK
  <2>2. entries' \in [NS -> [Key -> Entry \cup {Absent}]] BY <1>1, <1>4
  <2>3. caches' \in [NS -> KeyCache \cup {NoCache}] BY <1>1 DEF NoCaches
  <2> QED BY <2>1, <2>2, <2>3 DEF StoreTypeOK
<1>7. EntriesSound' BY <1>1, <1>4, <1>5 DEF EntriesSound
<1>8. NoEmptyNamespace'
  <2>1. \A ns \in NS, k \in Key : <<ns, k>> \in kept => ns \in namespaces
    BY <1>2 DEF KVInv, StoreInv, NoEmptyNamespace, Keys
  <2> QED BY <1>1, <1>5, <2>1 DEF NoEmptyNamespace, Keys
<1>9. CacheOwned' /\ CacheComplete'
  BY <1>1 DEF CacheOwned, CacheComplete, HasValidCache, NoCaches
<1>10. RestTypeOK'
  <2>1. used' \in 0..(SizeMod - 1) BY <1>1, AccountIsSize DEF KVInv, RestTypeOK
  <2> QED BY <1>1, <2>1, Answers, RestKept DEF KVInv, RestTypeOK
<1> QED BY <1>6, <1>7, <1>8, <1>9, <1>10 DEF KVInv, StoreInv

\* An empty store, at the start and after a flush.
LEMMA EmptyStore ==
    /\ namespaces = {} /\ entries = NoEntries /\ caches = NoCaches => StoreInv
    /\ namespaces' = {} /\ entries' = NoEntries /\ caches' = NoCaches => StoreInv'
<1> USE DEF StoreInv, StoreTypeOK, EntriesSound, NoEmptyNamespace, CacheOwned,
            CacheComplete, HasValidCache, Keys, Present, NoEntries, NoCaches
<1>1. namespaces = {} /\ entries = NoEntries /\ caches = NoCaches => StoreInv
  OBVIOUS
<1>2. namespaces' = {} /\ entries' = NoEntries /\ caches' = NoCaches => StoreInv'
  OBVIOUS
<1> QED BY <1>1, <1>2

\* No set_limits call makes a limit 0, except the memory quota.
LEMMA SetLimitsKeeps ==
    ASSUME KVInv, NEW a \in LimitArgs, SetLimits(a)
    PROVE  KVInv'
<1>1. /\ UpdateLimits(a) /\ ret' = Succeeded /\ call' \in Method
      /\ UNCHANGED <<kvVars, now>>
  BY DEF SetLimits, Called, Method
<1>2. limits \in Limits /\ now \in Nat /\ now' = now
  BY <1>1 DEF KVInv, RestTypeOK, EngineTypeOK
<1>3. limits' \in Limits BY <1>1, <1>2, LimitsUpdated
<1>4. StoreInv' BY <1>1, <1>2, StoreKept DEF kvVars, store, KVInv
<1>5. RestTypeOK'
  BY <1>1, <1>3, Answers DEF KVInv, RestTypeOK, EngineTypeOK, Answer, kvVars
<1> QED BY <1>4, <1>5 DEF KVInv

LEMMA ClearAllKeeps ==
    ASSUME KVInv, ClearAll
    PROVE  KVInv'
<1>1. StoreInv' BY EmptyStore DEF ClearAll
<1>2. 0 \in 0..(SizeMod - 1) BY EngineAssumption
<1>3. RestTypeOK'
  BY <1>2, Answers, RestKept DEF ClearAll, Called, Method, KVInv, RestTypeOK
<1> QED BY <1>1, <1>3 DEF KVInv

LEMMA HeapAbortKeeps ==
    ASSUME KVInv, HeapAbort
    PROVE  KVInv'
<1>1. StoreInv' BY EmptyStore DEF HeapAbort
<1>2. 0 \in 0..(SizeMod - 1) /\ InitLimits \in Limits BY EngineAssumption
<1>3. RestTypeOK'
  BY <1>2, Answers DEF HeapAbort, Called, Method, KVInv, RestTypeOK, EngineTypeOK, Answer
<1> QED BY <1>1, <1>3 DEF KVInv

LEMMA TickKeeps ==
    ASSUME KVInv, Tick
    PROVE  KVInv'
<1>1. now \in Nat /\ now' = now + 1 /\ UNCHANGED <<kvVars, limits, call, ret>>
  BY DEF Tick, AdvanceClock, KVInv, RestTypeOK, EngineTypeOK
<1>2. StoreInv' BY <1>1, StoreKept DEF kvVars, store, KVInv
<1>3. RestTypeOK' BY <1>1 DEF KVInv, RestTypeOK, EngineTypeOK, kvVars
<1> QED BY <1>2, <1>3 DEF KVInv

LEMMA NextKeeps ==
    ASSUME KVInv, [KVNext]_kvSpecVars
    PROVE  KVInv'
<1>1. ASSUME NEW ns \in NS, NEW k \in Key, Write(ns, k) PROVE KVInv'
  BY <1>1, WriteKeeps
<1>2. ASSUME NEW ns \in NS, NEW k \in Key, Get(ns, k) PROVE KVInv'
  BY <1>2, GetKeeps
<1>3. ASSUME NEW ns \in NS, NEW k \in Key, DeleteKey(ns, k) PROVE KVInv'
  BY <1>3, RemovingKeeps
<1>4. ASSUME NEW ns \in NS, Enumerate(ns) PROVE KVInv'
  BY <1>4, CountKeeps, ActiveKeysKeeps, KeyAtKeeps DEF Enumerate
<1>5. ASSUME NEW ns \in NS, ClearNamespace(ns) PROVE KVInv'
  BY <1>5, RemovingKeeps
<1>6. ASSUME NEW a \in LimitArgs, SetLimits(a) PROVE KVInv'
  BY <1>6, SetLimitsKeeps
<1>7. CASE SweepMapEnd BY <1>7, SweepKeeps
<1>8. CASE ClearAll BY <1>8, ClearAllKeeps
<1>9. CASE Tick BY <1>9, TickKeeps
<1>10. CASE HeapAbort BY <1>10, HeapAbortKeeps
<1>11. CASE UNCHANGED kvSpecVars
  <2>1. UNCHANGED <<store, used, heapBroken, limits, now, call, ret>>
    BY <1>11 DEF kvSpecVars, kvVars, store
  <2> QED BY <2>1, OnlyAnswerKeeps DEF KVInv, RestTypeOK, EngineTypeOK, Answer
<1> QED
  BY <1>1, <1>2, <1>3, <1>4, <1>5, <1>6, <1>7, <1>8, <1>9, <1>10, <1>11 DEF KVNext

LEMMA InitHolds == KVInit => KVInv
<1> SUFFICES ASSUME KVInit PROVE KVInv OBVIOUS
<1>1. StoreInv BY EmptyStore DEF KVInit
<1>2. 0 \in 0..(SizeMod - 1) BY EngineAssumption
<1>3. EngineTypeOK BY EngineStarts DEF KVInit
<1>4. RestTypeOK BY <1>2, <1>3 DEF KVInit, RestTypeOK
<1> QED BY <1>1, <1>4 DEF KVInv

\* KVInv is inductive.
LEMMA Inductive == KVSpec => []KVInv
<1>1. KVInit => KVInv BY InitHolds
<1>2. KVInv /\ [KVNext]_kvSpecVars => KVInv' BY NextKeeps
<1> QED BY <1>1, <1>2, PTL DEF KVSpec

-----------------------------------------------------------------------------
(* The theorems.                                                           *)

\* Whatever the plugins call, in whatever order and with whatever arguments,
\* every field of MemStoreManager keeps its type: the account stays a size_t,
\* a cache lists keys, no set_limits call leaves a limit of 0 keys.
THEOREM KVTypeCorrect == KVSpec => []KVTypeOK
<1>1. KVInv => KVTypeOK
  BY DEF KVInv, StoreInv, StoreTypeOK, RestTypeOK, KVTypeOK
<1> QED BY <1>1, Inductive, PTL

\* Every way the last entry of a namespace can go (a getter that finds it
\* expired, a delete, a count, an enumeration, the sweep) takes the namespace
\* with it, so the namespace limit counts only namespaces in use.
THEOREM NamespacesExact == KVSpec => []NoEmptyNamespace
<1>1. KVInv => NoEmptyNamespace BY DEF KVInv, StoreInv
<1> QED BY <1>1, Inductive, PTL

\* No key cache outlives its namespace.
THEOREM CachesOwned == KVSpec => []CacheOwned
<1>1. KVInv => CacheOwned BY DEF KVInv, StoreInv
<1> QED BY <1>1, Inductive, PTL

\* The cache behind get_key_at, while valid, misses no stored value and lists
\* no key twice, though six methods erase keys and one does not invalidate it.
THEOREM CachesComplete == KVSpec => []CacheComplete
<1>1. KVInv => CacheComplete BY DEF KVInv, StoreInv
<1> QED BY <1>1, Inductive, PTL

\* No getter ever meets a MapCount entry that has run out: the sweep removes
\* an entry before its counter reaches 0, and no argument sets it below 1.
THEOREM MapCountsRemain == KVSpec => []MapCountRemains
<1>1. KVInv => MapCountRemains
  BY DEF KVInv, StoreInv, EntriesSound, Sound, MapCountRemains
<1> QED BY <1>1, Inductive, PTL

\* No entry ever has more than the TTL cap left, however it got its TTL.
THEOREM TtlsWithinCap == KVSpec => []TtlWithinCap
<1>1. KVInv => TtlWithinCap
  BY DEF KVInv, StoreInv, EntriesSound, Sound, TtlWithinCap
<1> QED BY <1>1, Inductive, PTL
=============================================================================
