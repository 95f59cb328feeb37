-------------------------- MODULE RefinementProofs --------------------------
(***************************************************************************)
(* The two halves of the engine implement what they promise: the key-value *)
(* store a dictionary, the rank engine a leaderboard.  Each step is mapped *)
(* to one of the promise's own steps, or to none.                          *)
(***************************************************************************)
EXTENDS KVStoreProofs, KVRefinement, RankProofs, RankRefinement

-----------------------------------------------------------------------------
(* The store implements the dictionary: each method takes the dictionary of *)
(* live entries through one of the dictionary's own steps.                  *)

\* What the dictionary holds for what the store holds at tick t.
Shown(e, t) ==
    IF e = Absent \/ IsExpired(e, t) THEN Missing ELSE [type |-> e.type, n |-> e.n]

LEMMA DictShows ==
    /\ Dict = [ns \in NS |-> [k \in Key |-> Shown(entries[ns][k], now)]]
    /\ Dict' = [ns \in NS |-> [k \in Key |-> Shown(entries'[ns][k], now')]]
BY DEF Dict, Shown, Live, Present

\* The dictionary has a key exactly when it is live.
LEMMA HasIfLive ==
    ASSUME StoreInv, NEW ns \in NS, NEW k \in Key
    PROVE  /\ AbstractDict!Has(ns, k) <=> Live(ns, k)
           /\ Live(ns, k) => /\ Dict[ns][k].type = entries[ns][k].type
                             /\ Dict[ns][k].n = entries[ns][k].n
           /\ ~Live(ns, k) => Dict[ns][k].type = "Missing"
<1>1. Live(ns, k) => entries[ns][k].type # "Missing"
  BY DEF Live, Present, StoreInv, StoreTypeOK, Entry, EntryType
<1>2. Dict[ns][k] = IF Live(ns, k) THEN [type |-> entries[ns][k].type, n |-> entries[ns][k].n]
                    ELSE Missing
  BY DEF Dict
<1> QED BY <1>1, <1>2 DEF AbstractDict!Has, AbstractDict!None, Missing

LEMMA KeysIfLive ==
    ASSUME StoreInv, NEW ns \in NS
    PROVE  AbstractDict!KeysOf(ns) = LiveKeys(ns)
BY HasIfLive DEF AbstractDict!KeysOf, LiveKeys

\* A new policy never ends an entry at once.
LEMMA RenewedIsLive ==
    ASSUME NEW ex \in Expiration, NEW t \in Nat
    PROVE  /\ ex.policy = "TTL" => t < Until(ex, t)
           /\ ex.policy = "MapCount" => Until(ex, t) >= 1
<1>1. TtlSeconds(ex.extra) \in 1..MaxTtl BY TtlSecondsRange DEF Expiration
<1>2. \A a \in Nat \ {0}, b \in Nat \ {0} : a * b \in Nat \ {0} OBVIOUS
<1>3. TtlSeconds(ex.extra) * TicksPerSecond \in Nat \ {0}
  BY <1>1, <1>2, ExpiryAssumption
<1> QED BY <1>3, UntilSound DEF Until

LEMMA WrittenShows ==
    ASSUME NEW type \in EntryType, NEW n \in Int, NEW ex \in Expiration, now \in Nat
    PROVE  Shown(NewEntry(type, n, ex), now) = [type |-> type, n |-> n]
<1>1. NewEntry(type, n, ex) # Absent BY NewEntrySound, KVMarkers
<1>2. ~IsExpired(NewEntry(type, n, ex), now)
  <2>1. Until(ex, now) \in Int BY UntilSound
  <2> QED BY <2>1, RenewedIsLive DEF IsExpired, NewEntry
<1> QED BY <1>1, <1>2 DEF Shown, NewEntry

LEMMA RenewedShows ==
    ASSUME NEW e \in Entry, NEW ex \in Expiration, now \in Nat
    PROVE  Shown(WithExpiration(e, ex, now), now) = [type |-> e.type, n |-> e.n]
<1> DEFINE f == WithExpiration(e, ex, now)
<1>1. f \in Entry BY ExpirationSound
<1>2. f.policy = ex.policy /\ f.until = Until(ex, now) /\ f.type = e.type /\ f.n = e.n
  BY DEF WithExpiration, Entry
<1> HIDE DEF f
<1>3. ~IsExpired(f, now)
  <2>1. Until(ex, now) \in Int BY UntilSound
  <2> QED BY <1>2, <2>1, RenewedIsLive DEF IsExpired
<1> QED BY <1>1, <1>2, <1>3, KVMarkers DEF Shown, f

\* Writing an entry changes the dictionary under its key alone.
LEMMA PutShows ==
    ASSUME StoreInv, now' = now, NEW ns \in NS, NEW k \in Key, NEW e, Put(ns, k, e)
    PROVE  /\ Dict' = [Dict EXCEPT ![ns][k] = Shown(e, now)]
           /\ Shown(e, now) = Dict[ns][k] => UNCHANGED Dict
<1>1. \A m \in NS, j \in Key :
          entries'[m][j] = IF m = ns /\ j = k THEN e ELSE entries[m][j]
  BY DEF Put, StoreInv, StoreTypeOK
<1>2. Dict' = [m \in NS |-> [j \in Key |->
                  IF m = ns /\ j = k THEN Shown(e, now) ELSE Shown(entries[m][j], now)]]
  BY <1>1, DictShows
<1>3. Dict' = [Dict EXCEPT ![ns][k] = Shown(e, now)] BY <1>2, DictShows
<1>4. ASSUME Shown(e, now) = Dict[ns][k] PROVE UNCHANGED Dict
  <2>1. Shown(e, now) = Shown(entries[ns][k], now) BY <1>4, DictShows
  <2> QED BY <1>2, <2>1, DictShows
<1> QED BY <1>3, <1>4

LEMMA EraseShows ==
    ASSUME StoreInv, now' = now, NEW ns \in NS, NEW gone \in SUBSET Key, NEW cache,
           Erase(ns, gone, cache)
    PROVE  /\ Dict' = [Dict EXCEPT ![ns] = AbstractDict!Without(ns, gone)]
           /\ gone \cap LiveKeys(ns) = {} => UNCHANGED Dict
<1>1. \A m \in NS, j \in Key :
          entries'[m][j] = IF m = ns /\ j \in gone THEN Absent ELSE entries[m][j]
  BY DEF Erase, StoreInv, StoreTypeOK
<1>2. Shown(Absent, now) = Missing BY DEF Shown
<1>3. Dict' = [m \in NS |-> [j \in Key |->
                  IF m = ns /\ j \in gone THEN Missing ELSE Shown(entries[m][j], now)]]
  BY <1>1, <1>2, DictShows
<1>4. gone \cap LiveKeys(ns) = {} => \A j \in gone : Shown(entries[ns][j], now) = Missing
  BY DEF Shown, LiveKeys, Live, Present
<1>5. Dict' = [Dict EXCEPT ![ns] = AbstractDict!Without(ns, gone)]
  BY <1>3, DictShows DEF AbstractDict!Without, AbstractDict!None, Missing
<1>6. ASSUME gone \cap LiveKeys(ns) = {} PROVE UNCHANGED Dict
  BY <1>3, <1>4, <1>6, DictShows
<1> QED BY <1>5, <1>6

LEMMA StoreShows ==
    ASSUME UNCHANGED <<store, now>>
    PROVE  UNCHANGED Dict
BY DEF store, Dict, Live, Present

-----------------------------------------------------------------------------
(* Writes.                                                                 *)

LEMMA FailRefuses ==
    ASSUME Fail, now' = now
    PROVE  AbstractDict!Refused
BY StoreShows DEF Fail, Failed, Ret, AbstractDict!Refused, AbstractDict!No

LEMMA Renames ==
    /\ Failed = AbstractDict!No
    /\ Succeeded = AbstractDict!Yes(0, <<>>)
    /\ \A num, keys : Ret(TRUE, num, keys) = AbstractDict!Yes(num, keys)
BY DEF Failed, Succeeded, Ret, AbstractDict!No, AbstractDict!Yes

LEMMA SetScalarSets ==
    ASSUME KVInv, NEW ns \in NS, NEW k \in Key, NEW type \in {"Int", "Float"},
           NEW n \in Int, NEW ex \in Expiration, NEW result,
           SetScalar(ns, k, type, n, ex, result)
    PROVE  AbstractDict!Refused \/ (AbstractDict!Enter(ns, k, type, n) /\ ret' = result)
<1>1. now' = now /\ now \in Nat BY DEF SetScalar, KVInv, RestTypeOK, EngineTypeOK
<1>2. CASE Fail BY <1>1, <1>2, FailRefuses
<1>3. CASE Put(ns, k, NewEntry(type, n, ex)) /\ ret' = result
  <2>1. Shown(NewEntry(type, n, ex), now) = [type |-> type, n |-> n]
    BY <1>1, WrittenShows DEF EntryType
  <2>2. Dict' = [Dict EXCEPT ![ns][k] = [type |-> type, n |-> n]]
    BY <1>1, <1>3, <2>1, PutShows DEF KVInv
  <2> QED BY <1>3, <2>2 DEF AbstractDict!Enter
<1> QED BY <1>2, <1>3 DEF SetScalar

LEMMA SetDynamicSets ==
    ASSUME KVInv, NEW ns \in NS, NEW k \in Key, NEW type \in {"String", "Array"},
           NEW len \in Nat, NEW n \in 0..len, NEW ex \in Expiration,
           SetDynamic(ns, k, type, n, ex)
    PROVE  AbstractDict!SetPayload(ns, k, type, len)
<1>1. now' = now /\ now \in Nat BY DEF SetDynamic, KVInv, RestTypeOK, EngineTypeOK
<1>2. CASE Fail
  <2>1. AbstractDict!Refused BY <1>1, <1>2, FailRefuses
  <2>2. AbstractDict!Set(ns, k, type, n) BY <2>1 DEF AbstractDict!Set
  <2> QED BY <2>2 DEF AbstractDict!SetPayload
<1>3. CASE Put(ns, k, Current(ns, k)) /\ ret' = Failed
  <2>1. Dict' = [Dict EXCEPT ![ns][k] = Shown(Current(ns, k), now)]
    BY <1>1, <1>3, PutShows DEF KVInv
  <2>2. CASE Present(ns, k)
    <3>1. Shown(Current(ns, k), now) = Dict[ns][k]
      BY <2>2, DictShows DEF Current
    <3>2. UNCHANGED Dict BY <1>1, <1>3, <3>1, PutShows DEF KVInv
    <3>3. AbstractDict!Set(ns, k, type, n)
      BY <1>3, <3>2, Renames DEF AbstractDict!Set, AbstractDict!Refused
    <3> QED BY <3>3 DEF AbstractDict!SetPayload
  <2>3. CASE ~Present(ns, k)
    <3>1. FreshEntry # Absent
      <4>1. FreshEntry \in Entry BY <2>3, CurrentSound DEF Current, KVInv
      <4> QED BY <4>1, KVMarkers
    <3>2. Shown(Current(ns, k), now) = [type |-> "None", n |-> 0]
      BY <2>3, <3>1 DEF Current, Shown, FreshEntry, IsExpired
    <3>3. ~AbstractDict!Has(ns, k) BY <2>3, HasIfLive DEF KVInv, Live
    <3> QED BY <1>3, <2>1, <3>2, <3>3, Renames DEF AbstractDict!SetPayload, AbstractDict!Enter
  <2> QED BY <2>2, <2>3
<1>4. CASE Put(ns, k, NewEntry(type, n, ex)) /\ ret' = Succeeded
  <2>1. Shown(NewEntry(type, n, ex), now) = [type |-> type, n |-> n]
    BY <1>1, WrittenShows DEF EntryType
  <2>2. Dict' = [Dict EXCEPT ![ns][k] = [type |-> type, n |-> n]]
    BY <1>1, <1>4, <2>1, PutShows DEF KVInv
  <2>3. AbstractDict!Set(ns, k, type, n)
    BY <1>4, <2>2, Renames DEF AbstractDict!Set, AbstractDict!Enter
  <2> QED BY <2>3 DEF AbstractDict!SetPayload
<1> QED BY <1>2, <1>3, <1>4 DEF SetDynamic

LEMMA IncrementAdds ==
    ASSUME KVInv, NEW ns \in NS, NEW k \in Key, NEW type \in {"Int", "Float"},
           NEW delta \in Int, NEW sum \in Int, NEW ex \in Expiration,
           Increment(ns, k, type, delta, sum, ex)
    PROVE  AbstractDict!Add(ns, k, type, delta, sum)
<1>1. now \in Nat BY DEF KVInv, RestTypeOK, EngineTypeOK
<1>2. CASE /\ ~Present(ns, k)
           /\ SetScalar(ns, k, type, delta, ex, Ret(TRUE, delta, <<>>))
  <2>1. ~AbstractDict!Has(ns, k) BY <1>2, HasIfLive DEF KVInv, Live
  <2> QED BY <1>2, <2>1, SetScalarSets, Renames DEF AbstractDict!Add
<1>3. CASE /\ Expired(ns, k) /\ Put(ns, k, NewEntry(type, delta, ex))
           /\ ret' = Ret(TRUE, delta, <<>>) /\ UNCHANGED <<limits, now, heapBroken>>
  <2>1. ~AbstractDict!Has(ns, k) BY <1>3, HasIfLive DEF KVInv, Live, Expired
  <2>2. Shown(NewEntry(type, delta, ex), now) = [type |-> type, n |-> delta]
    BY <1>1, WrittenShows DEF EntryType
  <2>3. AbstractDict!Enter(ns, k, type, delta)
    BY <1>3, <2>2, PutShows DEF KVInv, AbstractDict!Enter
  <2> QED BY <1>3, <2>1, <2>3, Renames DEF AbstractDict!Add
<1>4. CASE /\ Live(ns, k) /\ entries[ns][k].type # type
           /\ Fail /\ UNCHANGED <<limits, now, heapBroken>>
  <2>1. AbstractDict!Has(ns, k) /\ ~AbstractDict!HasType(ns, k, type)
    BY <1>4, HasIfLive DEF KVInv, AbstractDict!HasType
  <2> QED BY <1>4, <2>1, FailRefuses DEF AbstractDict!Add
<1>5. CASE /\ Live(ns, k) /\ entries[ns][k].type = type
           /\ LET e == [entries[ns][k] EXCEPT !.n = sum]
              IN  Put(ns, k, IF RenewsExpiry(ex) THEN WithExpiration(e, ex, now) ELSE e)
           /\ ret' = Ret(TRUE, sum, <<>>)
           /\ UNCHANGED <<caches, used, limits, now, heapBroken>>
  <2> DEFINE e == [entries[ns][k] EXCEPT !.n = sum]
             f == IF RenewsExpiry(ex) THEN WithExpiration(e, ex, now) ELSE e
  <2>1. Present(ns, k) /\ entries[ns][k] \in Entry BY <1>5, LiveEntry DEF Live
  <2>2. e \in Entry /\ e.type = type /\ e.n = sum BY <1>5, <2>1 DEF Entry
  <2>3. ~IsExpired(e, now) BY <1>5, <2>1 DEF Live, IsExpired, Entry
  <2>4. Put(ns, k, f) BY <1>5
  <2> HIDE DEF e
  <2>5. Shown(f, now) = [type |-> type, n |-> sum]
    BY <1>1, <2>2, <2>3, RenewedShows, KVMarkers DEF Shown
  <2> HIDE DEF f
  <2>6. AbstractDict!Enter(ns, k, type, sum)
    BY <1>5, <2>4, <2>5, PutShows DEF KVInv, AbstractDict!Enter
  <2>7. AbstractDict!HasType(ns, k, type)
    BY <1>5, HasIfLive DEF KVInv, AbstractDict!HasType
  <2> QED BY <1>5, <2>6, <2>7, Renames DEF AbstractDict!Add
<1> QED BY <1>2, <1>3, <1>4, <1>5 DEF Increment

LEMMA SetExpireRenews ==
    ASSUME KVInv, NEW ns \in NS, NEW k \in Key, NEW ex \in Expiration,
           SetExpire(ns, k, ex)
    PROVE  AbstractDict!Renew(ns, k)
<1> DEFINE f == WithExpiration(entries[ns][k], ex, now)
<1>1. now' = now /\ now \in Nat BY DEF SetExpire, KVInv, RestTypeOK, EngineTypeOK
<1>2. CASE ~Present(ns, k) /\ Fail
  <2>1. ~AbstractDict!Has(ns, k) BY <1>2, HasIfLive DEF KVInv, Live
  <2> QED BY <1>1, <1>2, <2>1, FailRefuses DEF AbstractDict!Renew, AbstractDict!Refused
<1>3. CASE Present(ns, k) /\ Put(ns, k, f) /\ ret' = Succeeded
  <2>1. Dict' = [Dict EXCEPT ![ns][k] = Shown(f, now)]
    BY <1>1, <1>3, PutShows DEF KVInv
  <2>2. Shown(f, now) = [type |-> entries[ns][k].type, n |-> entries[ns][k].n]
    BY <1>1, <1>3, LiveEntry, RenewedShows
  <2> HIDE DEF f
  <2>3. CASE Live(ns, k)
    <3>1. Shown(f, now) = Dict[ns][k] BY <2>2, <2>3 DEF Dict
    <3>2. UNCHANGED Dict BY <1>1, <1>3, <3>1, PutShows DEF KVInv, f
    <3> QED BY <1>3, <2>3, <3>2, HasIfLive, Renames DEF KVInv, AbstractDict!Renew
  <2>4. CASE ~Live(ns, k)
    <3>1. \A other \in NS \X Key : other # <<ns, k>> =>
              Dict'[other[1]][other[2]] = Dict[other[1]][other[2]]
      BY <2>1, DictShows
    <3> QED BY <1>3, <2>4, <3>1, HasIfLive, Renames DEF KVInv, AbstractDict!Renew
  <2> QED BY <2>3, <2>4
<1> QED BY <1>2, <1>3 DEF SetExpire

LEMMA WriteWrites ==
    ASSUME KVInv, NEW ns \in NS, NEW k \in Key, Write(ns, k)
    PROVE  AbstractDict!Write(ns, k)
<1>1. PICK ex \in Expirations :
          \/ \E v \in Cells : SetInt(ns, k, v, ex)
          \/ SetFloat(ns, k, ex)
          \/ \E len \in Lengths : SetString(ns, k, len, ex)
          \/ \E size \in Sizes : SetArray(ns, k, size, ex)
          \/ \E d \in Deltas : IncInt(ns, k, d, ex)
          \/ IncFloat(ns, k, ex)
          \/ SetExpire(ns, k, ex)
  BY DEF Write
<1>2. ex \in Expiration BY Arguments
<1>3. limits.maxString \in Nat /\ limits.maxArray \in Nat
  BY DEF KVInv, RestTypeOK, EngineTypeOK, Limits
<1>4. \A a, b \in Nat : Lesser(a, b) \in 0..a BY DEF Lesser
<1>5. ASSUME NEW v \in Cells, SetInt(ns, k, v, ex) PROVE AbstractDict!Write(ns, k)
  <2>1. AbstractDict!Set(ns, k, "Int", v)
    BY <1>2, <1>5, Arguments, SetScalarSets, Renames DEF SetInt, AbstractDict!Set
  <2> QED BY <1>5, <2>1 DEF SetInt, Called, AbstractDict!Write
<1>6. CASE SetFloat(ns, k, ex)
  <2>1. AbstractDict!Set(ns, k, "Float", 0)
    BY <1>2, <1>6, SetScalarSets, Renames DEF SetFloat, AbstractDict!Set
  <2> QED BY <1>6, <2>1 DEF SetFloat, Called, AbstractDict!Write
<1>7. ASSUME NEW len \in Lengths, SetString(ns, k, len, ex) PROVE AbstractDict!Write(ns, k)
  <2>1. len \in Nat /\ Lesser(len, limits.maxString) \in 0..len BY <1>3, <1>4, Arguments
  <2>2. AbstractDict!SetPayload(ns, k, "String", len)
    BY <1>2, <1>7, <2>1, SetDynamicSets DEF SetString
  <2> QED BY <1>7, <2>2 DEF SetString, Called, AbstractDict!Write
<1>8. ASSUME NEW size \in Sizes, SetArray(ns, k, size, ex) PROVE AbstractDict!Write(ns, k)
  <2>1. size \in Nat /\ Lesser(size, limits.maxArray) \in 0..size BY <1>3, <1>4, Arguments
  <2>2. AbstractDict!SetPayload(ns, k, "Array", size)
    BY <1>2, <1>8, <2>1, SetDynamicSets DEF SetArray
  <2> QED BY <1>8, <2>2 DEF SetArray, Called, AbstractDict!Write
<1>9. ASSUME NEW d \in Deltas, IncInt(ns, k, d, ex) PROVE AbstractDict!Write(ns, k)
  <2> DEFINE sum == WrapCell(Current(ns, k).n + d)
             wrapped == AbstractDict!Wrapped(Dict[ns][k].n + d)
  <2>1. d \in Int /\ Current(ns, k) \in Entry BY Arguments, CurrentSound DEF KVInv
  <2>2. sum \in Int BY <2>1, WrapCellIsCell DEF Entry
  <2>3. AbstractDict!Add(ns, k, "Int", d, sum)
    BY <1>2, <1>9, <2>1, <2>2, IncrementAdds DEF IncInt
  <2>4. AbstractDict!HasType(ns, k, "Int") => wrapped = sum
    <3>1. ASSUME AbstractDict!HasType(ns, k, "Int") PROVE Dict[ns][k].n = Current(ns, k).n
      BY <3>1, HasIfLive DEF KVInv, AbstractDict!HasType, Current, Live
    <3> QED BY <3>1 DEF WrapCell, AbstractDict!Wrapped
  <2> HIDE DEF sum, wrapped
  <2>5. AbstractDict!Add(ns, k, "Int", d, wrapped) BY <2>3, <2>4 DEF AbstractDict!Add
  <2> QED BY <1>9, <2>5 DEF IncInt, Called, AbstractDict!Write, wrapped
<1>10. CASE IncFloat(ns, k, ex)
  <2>1. AbstractDict!Add(ns, k, "Float", 0, 0)
    BY <1>2, <1>10, IncrementAdds DEF IncFloat
  <2> QED BY <1>10, <2>1 DEF IncFloat, Called, AbstractDict!Write
<1>11. CASE SetExpire(ns, k, ex)
  BY <1>2, <1>11, SetExpireRenews DEF SetExpire, Called, AbstractDict!Write
<1> QED BY <1>1, <1>5, <1>6, <1>7, <1>8, <1>9, <1>10, <1>11

-----------------------------------------------------------------------------
(* Answers.                                                                *)

LEMMA ReadShows ==
    ASSUME KVInv, NEW ns \in NS, NEW k \in Key, NEW reclaims, NEW answer,
           Read(ns, k, reclaims, answer)
    PROVE  /\ UNCHANGED Dict
           /\ ret' = IF Live(ns, k) THEN answer ELSE AbstractDict!No
<1>1. now' = now BY DEF Read
<1>2. CASE ~Present(ns, k) /\ Fail
  BY <1>1, <1>2, FailRefuses DEF AbstractDict!Refused, Live
<1>3. CASE Expired(ns, k) /\ Erase(ns, {k}, Invalidated(ns)) /\ ret' = Failed
  <2>1. ~Live(ns, k) BY <1>3 DEF Expired, Live
  <2>2. {k} \cap LiveKeys(ns) = {} BY <2>1 DEF LiveKeys
  <2>3. UNCHANGED Dict BY <1>1, <1>3, <2>2, EraseShows DEF KVInv
  <2> QED BY <1>3, <2>1, <2>3, Renames
<1>4. CASE Live(ns, k) /\ ret' = answer /\ UNCHANGED <<store, used>>
  BY <1>1, <1>4, StoreShows
<1> QED BY <1>2, <1>3, <1>4 DEF Read

LEMMA TypedReads ==
    ASSUME KVInv, NEW ns \in NS, NEW k \in Key, NEW reclaims, NEW type, NEW num, NEW value,
           type # "Missing", Live(ns, k) => num = value,
           Read(ns, k, reclaims, Typed(ns, k, type, num))
    PROVE  UNCHANGED Dict /\ AbstractDict!Typed(ns, k, type, value)
<1>1. UNCHANGED Dict /\ ret' = IF Live(ns, k) THEN Typed(ns, k, type, num) ELSE AbstractDict!No
  BY ReadShows
<1>2. AbstractDict!HasType(ns, k, type) <=> Live(ns, k) /\ entries[ns][k].type = type
  BY HasIfLive DEF KVInv, AbstractDict!HasType
<1> QED BY <1>1, <1>2, Renames DEF Typed, AbstractDict!Typed

LEMMA GetTTLReads ==
    ASSUME KVInv, NEW ns \in NS, NEW k \in Key, GetTTL(ns, k)
    PROVE  /\ UNCHANGED Dict
           /\ ret'.ok = AbstractDict!Has(ns, k)
           /\ ret'.num >= (IF ret'.ok THEN -1 ELSE -2)
<1> DEFINE left == (entries[ns][k].until - now) \div TicksPerSecond
<1>1. UNCHANGED Dict BY StoreShows DEF GetTTL
<1>2. CASE ~Live(ns, k)
  <2>1. ret' = Ret(FALSE, -2, <<>>) BY <1>2 DEF GetTTL
  <2>2. ret'.ok = FALSE /\ ret'.num = -2 BY <2>1 DEF Ret
  <2>3. AbstractDict!Has(ns, k) = FALSE BY <1>2, HasIfLive DEF KVInv, AbstractDict!Has
  <2>4. ret'.num >= -2 BY <2>2
  <2> QED BY <1>1, <2>2, <2>3, <2>4
<1>3. CASE Live(ns, k)
  <2>1. entries[ns][k].policy = "TTL" => left \in Nat
    <3>1. \A a \in Nat, b \in Nat \ {0} : a \div b \in Nat OBVIOUS
    <3>2. ASSUME entries[ns][k].policy = "TTL" PROVE entries[ns][k].until - now \in Nat
      BY <1>3, <3>2, LiveEntry
         DEF Live, IsExpired, Entry, KVInv, RestTypeOK, EngineTypeOK
    <3> QED BY <3>1, <3>2, ExpiryAssumption
  <2> HIDE DEF left
  <2>2. \/ ret' = Ret(TRUE, -1, <<>>)
        \/ entries[ns][k].policy = "TTL" /\ ret' = Ret(TRUE, left, <<>>)
    BY <1>3 DEF GetTTL, left
  <2>3. ret'.ok = TRUE /\ (ret'.num = -1 \/ ret'.num \in Nat)
    BY <2>1, <2>2 DEF Ret
  <2>4. ret'.num >= -1 BY <2>3
  <2>5. AbstractDict!Has(ns, k) = TRUE BY <1>3, HasIfLive DEF KVInv, AbstractDict!Has
  <2> QED BY <1>1, <2>3, <2>4, <2>5
<1> QED BY <1>2, <1>3

LEMMA GetReads ==
    ASSUME KVInv, NEW ns \in NS, NEW k \in Key, Get(ns, k)
    PROVE  AbstractDict!Read(ns, k) /\ UNCHANGED Dict
<1> DEFINE n == Dict[ns][k].n
<1>1. /\ AbstractDict!Has(ns, k) <=> Live(ns, k)
      /\ Live(ns, k) => entries[ns][k].n = n /\ n \in Int
  BY HasIfLive, LiveEntry DEF KVInv, Live
<1>2. CASE GetInt(ns, k)
  BY <1>1, <1>2, TypedReads DEF GetInt, Called, AbstractDict!Read
<1>3. CASE GetFloat(ns, k)
  BY <1>3, TypedReads DEF GetFloat, Called, AbstractDict!Read
<1>4. CASE GetString(ns, k)
  BY <1>1, <1>4, TypedReads DEF GetString, Called, AbstractDict!Read
<1>5. ASSUME NEW maxlen \in Sizes, GetArray(ns, k, maxlen)
      PROVE  AbstractDict!Read(ns, k) /\ UNCHANGED Dict
  <2> DEFINE cut == IF maxlen < n THEN maxlen ELSE n
  <2>1. Live(ns, k) => Lesser(maxlen, entries[ns][k].n) = cut
    BY <1>1, KVAssumption DEF Lesser
  <2>2. UNCHANGED Dict /\ AbstractDict!Typed(ns, k, "Array", cut)
    <3> HIDE DEF cut
    <3> QED BY <1>5, <2>1, TypedReads DEF GetArray
  <2> QED BY <1>5, <2>2 DEF GetArray, Called, AbstractDict!Read
<1>6. CASE GetArraySize(ns, k)
  BY <1>1, <1>6, TypedReads DEF GetArraySize, Called, AbstractDict!Read
<1>7. CASE GetKeyType(ns, k)
  <2>1. /\ UNCHANGED Dict
        /\ ret' = IF Live(ns, k) THEN Ret(TRUE, TypeCode[entries[ns][k].type], <<>>)
                  ELSE AbstractDict!No
    BY <1>7, ReadShows DEF GetKeyType
  <2>2. Live(ns, k) => Dict[ns][k].type = entries[ns][k].type
    BY HasIfLive DEF KVInv
  <2>3. TypeCode = AbstractDict!TypeCode BY DEF TypeCode, AbstractDict!TypeCode
  <2> QED BY <1>1, <1>7, <2>1, <2>2, <2>3, Renames DEF GetKeyType, Called, AbstractDict!Read
<1>8. CASE KeyExists(ns, k)
  BY <1>1, <1>8, ReadShows, Renames DEF KeyExists, Called, AbstractDict!Read, AbstractDict!Asked
<1>9. CASE GetTTL(ns, k)
  BY <1>9, GetTTLReads DEF GetTTL, Called, AbstractDict!Read
<1> QED BY <1>2, <1>3, <1>4, <1>5, <1>6, <1>7, <1>8, <1>9 DEF Get

LEMMA WalkAnswers ==
    ASSUME NEW ns \in NS, NEW q \in Orders(LiveKeys(ns))
    PROVE  /\ q \in Seq(Key) /\ Len(q) = Cardinality(LiveKeys(ns))
           /\ {q[i] : i \in DOMAIN q} = LiveKeys(ns)
<1>1. Cardinality(LiveKeys(ns)) \in Nat BY LiveKeysFinite
<1>2. q \in [1..Cardinality(LiveKeys(ns)) -> LiveKeys(ns)]
  BY DEF Orders, Bijection, Injection, Surjection
<1>3. q \in Seq(Key) /\ Len(q) \in Nat /\ DOMAIN q = 1..Len(q)
  BY LiveKeysFinite, OrdersVisitOnce
<1>4. Len(q) = Cardinality(LiveKeys(ns)) BY <1>1, <1>2, <1>3
<1>5. {q[i] : i \in DOMAIN q} = LiveKeys(ns)
  BY LiveKeysFinite, OrdersVisitOnce
<1> QED BY <1>3, <1>4, <1>5

LEMMA SameCount ==
    ASSUME NEW S
    PROVE  AbstractDict!Cardinality(S) = Cardinality(S)
BY DEF AbstractDict!Cardinality, Cardinality

LEMMA EnumerateEnumerates ==
    ASSUME KVInv, NEW ns \in NS, Enumerate(ns)
    PROVE  AbstractDict!Enumerate(ns) /\ UNCHANGED Dict
<1> DEFINE gone == Keys(ns) \ LiveKeys(ns)
<1>1. gone \in SUBSET Key /\ gone \cap LiveKeys(ns) = {} BY DEF Keys
<1>2. ASSUME NEW cache, now' = now, Erase(ns, gone, cache) PROVE UNCHANGED Dict
  <2> HIDE DEF gone
  <2> QED BY <1>1, <1>2, EraseShows DEF KVInv
<1>3. /\ AbstractDict!KeysOf(ns) = LiveKeys(ns)
      /\ AbstractDict!Cardinality(AbstractDict!KeysOf(ns)) = Cardinality(LiveKeys(ns))
  BY KeysIfLive, SameCount DEF KVInv
<1>4. CASE GetNamespaceCount(ns)
  <2>1. UNCHANGED Dict BY <1>2, <1>4, StoreShows DEF GetNamespaceCount
  <2> QED BY <1>3, <1>4, <2>1, Renames DEF GetNamespaceCount, Called, AbstractDict!Enumerate
<1>5. CASE GetActiveKeys(ns)
  <2>1. UNCHANGED Dict BY <1>2, <1>5, StoreShows DEF GetActiveKeys
  <2>2. PICK q \in Orders(LiveKeys(ns)) : ret' = Ret(TRUE, Len(q), q)
    BY <1>5 DEF GetActiveKeys
  <2>3. ret'.keys = q BY <2>2 DEF Ret
  <2>4. /\ Len(q) = Cardinality(LiveKeys(ns))
        /\ {q[i] : i \in DOMAIN q} = LiveKeys(ns)
    BY WalkAnswers
  <2>5. ret' = AbstractDict!Yes(Cardinality(LiveKeys(ns)), q)
    BY <2>2, <2>4, Renames
  <2>6. call' = "GetActiveKeys" BY <1>5 DEF GetActiveKeys, Called
  <2> QED BY <1>3, <2>1, <2>3, <2>4, <2>5, <2>6 DEF AbstractDict!Enumerate
<1>6. ASSUME NEW i \in Indexes, GetKeyAt(ns, i)
      PROVE  AbstractDict!Enumerate(ns) /\ UNCHANGED Dict
  <2>1. i \in Nat /\ now' = now BY <1>6, KVAssumption DEF GetKeyAt
  <2> DEFINE Found == ret' = AbstractDict!No
                      \/ \E k \in LiveKeys(ns) : ret' = AbstractDict!Yes(0, <<k>>)
  <2>2. ASSUME NEW q \in Seq(Key), ret' = AnswerAt(q, i),
               i < Len(q) => Live(ns, q[i + 1])
        PROVE  Found
    <3>1. CASE i < Len(q)
      <4>1. q[i + 1] \in Key BY <2>1, <3>1
      <4>2. q[i + 1] \in LiveKeys(ns) BY <2>2, <3>1, <4>1 DEF LiveKeys
      <4>3. ret' = AbstractDict!Yes(0, <<q[i + 1]>>) BY <2>2, <3>1, Renames DEF AnswerAt
      <4> QED BY <4>2, <4>3
    <3>2. CASE ~(i < Len(q)) BY <2>2, <3>2, Renames DEF AnswerAt
    <3> QED BY <3>1, <3>2
  <2>3. Found => AbstractDict!Enumerate(ns)
    BY <1>3, <1>6 DEF GetKeyAt, Called, AbstractDict!Enumerate
  <2>4. CASE Fail
    <3>1. ret' = AbstractDict!No BY <2>4, Renames DEF Fail
    <3> QED BY <2>1, <2>3, <2>4, <3>1, FailRefuses DEF AbstractDict!Refused
  <2>5. CASE /\ CacheAnswers(ns, i) /\ ret' = AnswerAt(caches[ns].keys, i)
             /\ UNCHANGED <<store, used, heapBroken>>
    <3>1. caches[ns].keys \in Seq(Key)
      BY <2>5 DEF CacheAnswers, HasValidCache, KVInv, StoreInv, StoreTypeOK, KeyCache
    <3>2. Found BY <2>2, <2>5, <3>1 DEF CacheAnswers
    <3> QED BY <2>1, <2>3, <2>5, <3>2, StoreShows
  <2>6. CASE \E q \in Orders(LiveKeys(ns)) :
                /\ Erase(ns, gone, [keys |-> q, valid |-> TRUE])
                /\ ret' = AnswerAt(q, i)
    <3>1. PICK q \in Orders(LiveKeys(ns)) :
              /\ Erase(ns, gone, [keys |-> q, valid |-> TRUE])
              /\ ret' = AnswerAt(q, i)
      BY <2>6
    <3>2. q \in Seq(Key) /\ \A j \in DOMAIN q : q[j] \in LiveKeys(ns)
      BY LiveKeysFinite, OrdersVisitOnce
    <3>3. i < Len(q) => Live(ns, q[i + 1]) BY <2>1, <3>2 DEF LiveKeys
    <3>4. Found BY <2>2, <3>1, <3>2, <3>3
    <3>5. UNCHANGED Dict BY <1>2, <2>1, <3>1
    <3> QED BY <2>3, <3>4, <3>5
  <2>7. CASE LiveKeys(ns) = {} /\ Erase(ns, Key, NoCache) /\ ret' = Failed
    <3>1. UNCHANGED Dict BY <2>1, <2>7, EraseShows DEF KVInv
    <3>2. ret' = AbstractDict!No BY <2>7, Renames
    <3> QED BY <2>3, <3>1, <3>2
  <2> QED BY <1>6, <2>4, <2>5, <2>6, <2>7 DEF GetKeyAt
<1> QED BY <1>4, <1>5, <1>6 DEF Enumerate

-----------------------------------------------------------------------------
(* Removals.                                                               *)

LEMMA DeleteRemoves ==
    ASSUME KVInv, NEW ns \in NS, NEW k \in Key, DeleteKey(ns, k)
    PROVE  AbstractDict!Remove(ns, {k})
<1>1. now' = now BY DEF DeleteKey
<1>2. CASE ~Present(ns, k) /\ Fail
  <2>1. {k} \cap AbstractDict!KeysOf(ns) = {}
    BY <1>2, KeysIfLive DEF KVInv, LiveKeys, Live
  <2>2. UNCHANGED Dict /\ ret' = AbstractDict!No
    BY <1>1, <1>2, FailRefuses DEF AbstractDict!Refused
  <2>3. Dict[ns][k] = Missing BY <1>2 DEF Dict, Live
  <2>4. Dict = [Dict EXCEPT ![ns] = AbstractDict!Without(ns, {k})]
    BY <2>3, DictShows DEF AbstractDict!Without, AbstractDict!None, Missing
  <2> QED BY <2>1, <2>2, <2>4 DEF AbstractDict!Remove
<1>3. CASE Erase(ns, {k}, Invalidated(ns)) /\ ret' = Succeeded
  BY <1>1, <1>3, EraseShows, Renames DEF KVInv, AbstractDict!Remove
<1> QED BY <1>2, <1>3 DEF DeleteKey

LEMMA ClearRemoves ==
    ASSUME KVInv, NEW ns \in NS, ClearNamespace(ns)
    PROVE  AbstractDict!Remove(ns, Key)
<1>1. now' = now BY DEF ClearNamespace
<1>2. CASE ns \notin namespaces /\ Fail
  <2>1. \A k \in Key : ~Present(ns, k)
    BY <1>2 DEF KVInv, StoreInv, NoEmptyNamespace, Keys
  <2>2. Key \cap AbstractDict!KeysOf(ns) = {}
    BY <2>1, KeysIfLive DEF KVInv, LiveKeys, Live
  <2>3. UNCHANGED Dict /\ ret' = AbstractDict!No
    BY <1>1, <1>2, FailRefuses DEF AbstractDict!Refused
  <2>4. \A k \in Key : Dict[ns][k] = Missing BY <2>1 DEF Dict, Live
  <2>5. Dict = [Dict EXCEPT ![ns] = AbstractDict!Without(ns, Key)]
    BY <2>4, DictShows DEF AbstractDict!Without, AbstractDict!None, Missing
  <2> QED BY <2>2, <2>3, <2>5 DEF AbstractDict!Remove
<1>3. CASE Erase(ns, Key, NoCache) /\ ret' = Succeeded
  BY <1>1, <1>3, EraseShows, Renames DEF KVInv, AbstractDict!Remove
<1> QED BY <1>2, <1>3 DEF ClearNamespace

\* A step after which every key has its value or none.
LEMMA LeavesSome ==
    ASSUME \A ns \in NS, k \in Key : Dict'[ns][k] \in {Dict[ns][k], Missing}
    PROVE  \A ns \in NS : \E gone \in SUBSET Key : Dict'[ns] = AbstractDict!Without(ns, gone)
<1> SUFFICES ASSUME NEW ns \in NS
             PROVE  \E gone \in SUBSET Key : Dict'[ns] = AbstractDict!Without(ns, gone)
  OBVIOUS
<1> DEFINE gone == {k \in Key : Dict'[ns][k] = Missing}
<1>1. Dict'[ns] = [k \in Key |-> Dict'[ns][k]] BY DictShows
<1>2. Dict'[ns] = AbstractDict!Without(ns, gone)
  BY <1>1 DEF AbstractDict!Without, AbstractDict!None, Missing
<1> QED BY <1>2

LEMMA RestLeaves ==
    ASSUME KVInv, ClearAll \/ HeapAbort \/ SweepMapEnd \/ Tick
    PROVE  AbstractDict!Leave
<1>1. CASE ClearAll \/ HeapAbort
  <2>1. \A ns \in NS, k \in Key : Dict'[ns][k] = Missing
    BY <1>1 DEF ClearAll, HeapAbort, NoEntries, Dict, Live, Present
  <2>2. \A ns \in NS : \E gone \in SUBSET Key : Dict'[ns] = AbstractDict!Without(ns, gone)
    BY <2>1, LeavesSome
  <2> QED BY <1>1, <2>2, Renames DEF ClearAll, HeapAbort, Called, AbstractDict!Leave
<1>2. CASE SweepMapEnd
  <2>1. ASSUME NEW ns \in NS, NEW k \in Key PROVE Dict'[ns][k] \in {Dict[ns][k], Missing}
    <3> DEFINE e == entries[ns][k]
    <3>1. entries'[ns][k] = IF Present(ns, k) /\ ~EndsAtSweep(e, now)
                            THEN AfterSweep(e) ELSE Absent
      BY <1>2 DEF SweepMapEnd
    <3>2. now' = now BY <1>2 DEF SweepMapEnd
    <3>3. CASE Present(ns, k) /\ ~EndsAtSweep(e, now)
      <4>1. e \in Entry BY <3>3, LiveEntry
      <4>2. ~IsExpired(e, now) BY <3>3, <4>1 DEF EndsAtSweep, IsExpired, Entry
      <4>3. Dict[ns][k] = [type |-> e.type, n |-> e.n] BY <3>3, <4>2 DEF Dict, Live
      <4>4. Dict'[ns][k] = Shown(AfterSweep(e), now) BY <3>1, <3>2, <3>3, DictShows
      <4>5. AfterSweep(e).type = e.type /\ AfterSweep(e).n = e.n
        BY <4>1 DEF AfterSweep, Entry
      <4> QED BY <4>3, <4>4, <4>5 DEF Shown
    <3>4. CASE ~(Present(ns, k) /\ ~EndsAtSweep(e, now))
      <4>1. Dict'[ns][k] = Shown(Absent, now) BY <3>1, <3>2, <3>4, DictShows
      <4> QED BY <4>1 DEF Shown
    <3> QED BY <3>3, <3>4
  <2>2. \A ns \in NS : \E gone \in SUBSET Key : Dict'[ns] = AbstractDict!Without(ns, gone)
    BY <2>1, LeavesSome
  <2> QED BY <1>2, <2>2, Renames DEF SweepMapEnd, Called, AbstractDict!Leave
<1>3. CASE Tick
  <2>1. now' = now + 1 /\ now \in Nat /\ UNCHANGED <<kvVars, call, ret>>
    BY <1>3 DEF Tick, AdvanceClock, KVInv, RestTypeOK, EngineTypeOK
  <2>2. ASSUME NEW ns \in NS, NEW k \in Key PROVE Dict'[ns][k] \in {Dict[ns][k], Missing}
    <3>1. Present(ns, k) /\ IsExpired(entries[ns][k], now) => IsExpired(entries[ns][k], now + 1)
      BY <2>1, LiveEntry DEF IsExpired, Entry
    <3>2. Dict'[ns][k] = Shown(entries[ns][k], now + 1)
      BY <2>1, DictShows DEF kvVars
    <3>3. Dict[ns][k] = Shown(entries[ns][k], now) BY DictShows
    <3> QED BY <3>1, <3>2, <3>3 DEF Shown, Present
  <2>3. \A ns \in NS : \E gone \in SUBSET Key : Dict'[ns] = AbstractDict!Without(ns, gone)
    BY <2>2, LeavesSome
  <2> QED BY <2>1, <2>3 DEF AbstractDict!Leave
<1> QED BY <1>1, <1>2, <1>3

LEMMA NextIsAbstract ==
    ASSUME KVInv, [KVNext]_kvSpecVars
    PROVE  [AbstractDict!Next]_AbstractDict!vars
<1>1. ASSUME NEW ns \in NS, NEW k \in Key, Write(ns, k) PROVE AbstractDict!Next
  BY <1>1, WriteWrites DEF AbstractDict!Next
<1>2. ASSUME NEW ns \in NS, NEW k \in Key, Get(ns, k) PROVE AbstractDict!Next
  BY <1>2, GetReads DEF AbstractDict!Next
<1>3. ASSUME NEW ns \in NS, NEW k \in Key, DeleteKey(ns, k) PROVE AbstractDict!Next
  BY <1>3, DeleteRemoves DEF DeleteKey, Called, AbstractDict!Next
<1>4. ASSUME NEW ns \in NS, Enumerate(ns) PROVE AbstractDict!Next
  BY <1>4, EnumerateEnumerates DEF AbstractDict!Next
<1>5. ASSUME NEW ns \in NS, ClearNamespace(ns) PROVE AbstractDict!Next
  BY <1>5, ClearRemoves DEF ClearNamespace, Called, AbstractDict!Next
<1>6. ASSUME NEW a \in LimitArgs, SetLimits(a) PROVE AbstractDict!Next
  <2>1. UNCHANGED Dict BY <1>6, StoreShows DEF SetLimits, kvVars, store
  <2> QED BY <1>6, <2>1, Renames DEF SetLimits, Called, AbstractDict!Configure, AbstractDict!Next
<1>7. CASE ClearAll \/ HeapAbort \/ SweepMapEnd \/ Tick
  BY <1>7, RestLeaves DEF AbstractDict!Next
<1>8. CASE UNCHANGED kvSpecVars
  BY <1>8, StoreShows DEF kvSpecVars, kvVars, store, AbstractDict!vars
<1> QED BY <1>1, <1>2, <1>3, <1>4, <1>5, <1>6, <1>7, <1>8 DEF KVNext

LEMMA InitIsAbstract == KVInit => AbstractDict!Init
BY DEF KVInit, EngineInit, NoEntries, Dict, Live, Present, Missing,
       AbstractDict!Init, AbstractDict!None, AbstractDict!No

\* The key-value store implements the dictionary: whatever sets, refusals,
\* increments, lazy drops, cached key lists, sweeps, flushes and crashes come
\* between, a read answers what was last written, until the entry leaves whole.
THEOREM StoreIsDictionary == KVSpec => ImplementsDictionary
<1>1. KVInit => AbstractDict!Init BY InitIsAbstract
<1>2. KVInv /\ [KVNext]_kvSpecVars => [AbstractDict!Next]_AbstractDict!vars BY NextIsAbstract
<1> QED BY <1>1, <1>2, Inductive, PTL DEF KVSpec, ImplementsDictionary, AbstractDict!Spec

-----------------------------------------------------------------------------
(* The engine implements the leaderboard.                                   *)

\* What the leaderboard lists for what the engine holds at tick t.
Standing(e, t) ==
    IF e = Absent \/ IsExpired(e, t) THEN [listed |-> FALSE, score |-> 0]
    ELSE [listed |-> TRUE, score |-> e.score]

LEMMA TableShows ==
    /\ Table = [ns \in NS |-> [k \in Key |-> Standing(ranks[ns][k], now)]]
    /\ Table' = [ns \in NS |-> [k \in Key |-> Standing(ranks'[ns][k], now')]]
BY DEF Table, Standing, RankLive, Ranked

LEMMA ListedIfLive ==
    ASSUME NEW ns \in NS
    PROVE  /\ AbstractBoard!Listing(ns) = RankLiveKeys(ns)
           /\ \A k \in Key : /\ RankLive(ns, k) => AbstractBoard!Listed(ns, k) = TRUE
                            /\ ~RankLive(ns, k) => AbstractBoard!Listed(ns, k) = FALSE
           /\ \A k \in RankLiveKeys(ns) : AbstractBoard!ScoreOf(ns, k) = ranks[ns][k].score
<1>1. ASSUME NEW k \in Key
      PROVE  /\ RankLive(ns, k) => /\ AbstractBoard!Listed(ns, k) = TRUE
                                  /\ AbstractBoard!ScoreOf(ns, k) = ranks[ns][k].score
             /\ ~RankLive(ns, k) => AbstractBoard!Listed(ns, k) = FALSE
  <2>1. Table[ns][k] = IF RankLive(ns, k) THEN [listed |-> TRUE, score |-> ranks[ns][k].score]
                       ELSE [listed |-> FALSE, score |-> 0]
    BY DEF Table
  <2>2. CASE RankLive(ns, k)
    <3>1. Table[ns][k] = [listed |-> TRUE, score |-> ranks[ns][k].score] BY <2>1, <2>2
    <3> QED BY <2>2, <3>1 DEF AbstractBoard!Listed, AbstractBoard!ScoreOf
  <2>3. CASE ~RankLive(ns, k)
    <3>1. Table[ns][k] = [listed |-> FALSE, score |-> 0] BY <2>1, <2>3
    <3> QED BY <2>3, <3>1 DEF AbstractBoard!Listed
  <2> QED BY <2>2, <2>3
<1>2. \A k \in Key : /\ RankLive(ns, k) => AbstractBoard!Listed(ns, k) = TRUE
                     /\ ~RankLive(ns, k) => AbstractBoard!Listed(ns, k) = FALSE
  BY <1>1
<1>3. \A k \in RankLiveKeys(ns) : AbstractBoard!ScoreOf(ns, k) = ranks[ns][k].score
  BY <1>1 DEF RankLiveKeys
<1>4. AbstractBoard!Listing(ns) = RankLiveKeys(ns)
  BY <1>2 DEF AbstractBoard!Listing, RankLiveKeys
<1> QED BY <1>2, <1>3, <1>4

LEMMA LiveIsListed ==
    ASSUME NEW ns \in NS, NEW k \in Key, RankLive(ns, k)
    PROVE  AbstractBoard!Listed(ns, k) = TRUE
<1>1. Table[ns][k] = [listed |-> TRUE, score |-> ranks[ns][k].score] BY DEF Table
<1> QED BY <1>1 DEF AbstractBoard!Listed

LEMMA SameSize ==
    ASSUME NEW S
    PROVE  AbstractBoard!Cardinality(S) = Cardinality(S)
BY DEF AbstractBoard!Cardinality, Cardinality

\* Nothing changes on the boards while the live entries keep score and number.
LEMMA BoardsShowSame ==
    ASSUME \A ns \in NS, k \in Key :
               /\ RankLive(ns, k)' <=> RankLive(ns, k)
               /\ RankLive(ns, k) => ranks'[ns][k] = ranks[ns][k]
    PROVE  AbstractBoard!Unchanged
<1>1. Table' = [ns \in NS |-> [k \in Key |->
          IF RankLive(ns, k)' THEN [listed |-> TRUE, score |-> ranks'[ns][k].score]
          ELSE [listed |-> FALSE, score |-> 0]]]
  BY DEF Table
<1>2. Table' = Table BY <1>1 DEF Table
<1>3. \A ns \in NS : RankLiveKeys(ns)' = RankLiveKeys(ns) BY DEF RankLiveKeys
<1>4. \A ns \in NS : \A k \in RankLiveKeys(ns) : ranks'[ns][k] = ranks[ns][k]
  BY DEF RankLiveKeys
<1>5. Earlier' = [ns \in NS |-> {p \in RankLiveKeys(ns)' \X RankLiveKeys(ns)' :
                       ranks'[ns][p[1]].sequence < ranks'[ns][p[2]].sequence}]
  BY DEF Earlier
<1>6. Earlier' = Earlier BY <1>3, <1>4, <1>5 DEF Earlier
<1> QED BY <1>2, <1>6 DEF AbstractBoard!Unchanged

\* The position get_pos counts is the place on the abstract board.
LEMMA SamePlace ==
    ASSUME BoardInv, NEW ns \in NS, NEW order \in RankOrder, NEW k \in RankLiveKeys(ns)
    PROVE  AbstractBoard!Place(ns, k, order) = Position(ns, k, order)
<1> DEFINE L == RankLiveKeys(ns)
<1>1. AbstractBoard!Listing(ns) = L BY ListedIfLive
<1>2. ASSUME NEW j \in L
      PROVE  AbstractBoard!Ahead(ns, j, k, order) <=> Before(order, ranks[ns][j], ranks[ns][k])
  <2>1. <<j, k>> \in Earlier[ns] <=> ranks[ns][j].sequence < ranks[ns][k].sequence
    BY DEF Earlier
  <2>2. /\ AbstractBoard!ScoreOf(ns, j) = ranks[ns][j].score
        /\ AbstractBoard!ScoreOf(ns, k) = ranks[ns][k].score
    BY ListedIfLive
  <2> QED BY <2>1, <2>2 DEF AbstractBoard!Ahead, Before
<1>3. ~Before(order, ranks[ns][k], ranks[ns][k])
  <2>1. k \in Key /\ Ranked(ns, k) BY DEF RankLiveKeys, RankLive
  <2>2. ranks[ns][k] \in RankEntry BY <2>1, RankedEntry
  <2>3. ranks[ns][k].score \in Cell /\ ranks[ns][k].sequence \in Nat
    BY <2>2 DEF RankEntry
  <2>4. ranks[ns][k].score \in Int BY <2>3, RankArguments
  <2> QED BY <2>3, <2>4 DEF Before, RankOrder
<1> HIDE DEF L
<1>4. {j \in L : AbstractBoard!Ahead(ns, j, k, order)} =
      {j \in L \ {k} : Before(order, ranks[ns][j], ranks[ns][k])}
  BY <1>2, <1>3
<1> QED BY <1>1, <1>4, SameSize DEF AbstractBoard!Place, Position, L

\* Who among S took the present number before whom.
Elder(S, E) == {p \in S \X S : E[p[1]].sequence < E[p[2]].sequence}

LEMMA EarlierShows ==
    /\ Earlier = [ns \in NS |-> Elder(RankLiveKeys(ns), ranks[ns])]
    /\ Earlier' = [ns \in NS |-> Elder(RankLiveKeys(ns)', ranks'[ns])]
BY DEF Earlier, Elder

\* The key with the next number comes after all others.
LEMMA ElderEnters ==
    ASSUME NEW S, NEW E, NEW F, NEW k, NEW n \in Nat,
           \A j \in S : E[j].sequence \in 1..n,
           \A j \in S \ {k} : F[j] = E[j],
           F[k].sequence = n + 1
    PROVE  Elder(S \cup {k}, F) =
               {p \in Elder(S, E) : k \notin {p[1], p[2]}} \cup ((S \ {k}) \X {k})
<1> DEFINE new == Elder(S \cup {k}, F)
           old == {p \in Elder(S, E) : k \notin {p[1], p[2]}}
           last == (S \ {k}) \X {k}
<1>1. \A j \in S \ {k} : F[j].sequence \in 1..n /\ F[j].sequence = E[j].sequence
  OBVIOUS
<1>2. ASSUME NEW a \in S \cup {k}, NEW b \in S \cup {k}
      PROVE  F[a].sequence < F[b].sequence <=>
                 \/ a # k /\ b # k /\ E[a].sequence < E[b].sequence
                 \/ a # k /\ b = k
  BY <1>1
<1>3. ASSUME NEW p \in new PROVE p \in old \cup last
  <2>1. p = <<p[1], p[2]>> /\ p[1] \in S \cup {k} /\ p[2] \in S \cup {k}
        /\ F[p[1]].sequence < F[p[2]].sequence
    BY <1>3 DEF Elder
  <2> QED BY <1>2, <2>1 DEF Elder
<1>4. ASSUME NEW p \in old PROVE p \in new
  <2>1. p = <<p[1], p[2]>> /\ p[1] \in S \ {k} /\ p[2] \in S \ {k}
        /\ E[p[1]].sequence < E[p[2]].sequence
    BY <1>4 DEF Elder
  <2> QED BY <1>2, <2>1 DEF Elder
<1>5. ASSUME NEW p \in last PROVE p \in new
  <2>1. p = <<p[1], p[2]>> /\ p[1] \in S \ {k} /\ p[2] = k BY <1>5
  <2>2. F[p[1]].sequence < F[p[2]].sequence BY <1>2, <2>1
  <2> QED BY <2>1, <2>2 DEF Elder
<1> HIDE DEF new, old, last
<1>6. new = old \cup last BY <1>3, <1>4, <1>5
<1> QED BY <1>6 DEF new, old, last

LEMMA ElderWithout ==
    ASSUME NEW S, NEW E, NEW F, NEW gone, \A j \in S \ gone : F[j].sequence = E[j].sequence
    PROVE  Elder(S \ gone, F) = {p \in Elder(S, E) : {p[1], p[2]} \cap gone = {}}
<1> DEFINE new == Elder(S \ gone, F)
           old == {p \in Elder(S, E) : {p[1], p[2]} \cap gone = {}}
<1>1. ASSUME NEW p \in new PROVE p \in old
  <2>1. p = <<p[1], p[2]>> /\ p[1] \in S \ gone /\ p[2] \in S \ gone
        /\ F[p[1]].sequence < F[p[2]].sequence
    BY <1>1 DEF Elder
  <2> QED BY <2>1 DEF Elder
<1>2. ASSUME NEW p \in old PROVE p \in new
  <2>1. p = <<p[1], p[2]>> /\ p[1] \in S /\ p[2] \in S
        /\ E[p[1]].sequence < E[p[2]].sequence
    BY <1>2 DEF Elder
  <2>2. p[1] \notin gone /\ p[2] \notin gone BY <1>2
  <2> QED BY <2>1, <2>2 DEF Elder
<1> HIDE DEF new, old
<1>3. new = old BY <1>1, <1>2
<1> QED BY <1>3 DEF new, old

LEMMA PutEnters ==
    ASSUME BoardInv, now' = now, NEW ns \in NS, NEW k \in Key, NEW e \in RankEntry,
           e.sequence = sequence + 1, ~IsExpired(e, now),
           ranks' = [ranks EXCEPT ![ns][k] = e]
    PROVE  AbstractBoard!Enter(ns, k, e.score)
<1> DEFINE L == RankLiveKeys(ns)
<1>1. \A m \in NS, j \in Key :
          ranks'[m][j] = IF m = ns /\ j = k THEN e ELSE ranks[m][j]
  BY DEF BoardInv, BoardTypeOK
<1>2. e # Absent BY RankMarker
<1>3. Standing(e, now) = [listed |-> TRUE, score |-> e.score] BY <1>2 DEF Standing
<1>4. Table' = [Table EXCEPT ![ns][k] = [listed |-> TRUE, score |-> e.score]]
  <2>1. Table' = [m \in NS |-> [j \in Key |->
                    IF m = ns /\ j = k THEN Standing(e, now) ELSE Standing(ranks[m][j], now)]]
    BY <1>1, TableShows
  <2> DEFINE row == [listed |-> TRUE, score |-> e.score]
             S(m, j) == Standing(ranks[m][j], now)
  <2>2. Table = [m \in NS |-> [j \in Key |-> S(m, j)]] BY TableShows
  <2>3. Table' = [m \in NS |-> [j \in Key |-> IF m = ns /\ j = k THEN row ELSE S(m, j)]]
    BY <1>3, <2>1
  <2> HIDE DEF row, S
  <2>4. Table' = [Table EXCEPT ![ns][k] = row] BY <2>2, <2>3
  <2> QED BY <2>4 DEF row
<1>5. \A m \in NS, j \in Key : RankLive(m, j)' <=> RankLive(m, j) \/ (m = ns /\ j = k)
  BY <1>1, <1>2 DEF RankLive, Ranked
<1>6. \A m \in NS : m # ns => RankLiveKeys(m)' = RankLiveKeys(m)
  BY <1>5 DEF RankLiveKeys
<1>7. RankLiveKeys(ns)' = L \cup {k} BY <1>5 DEF RankLiveKeys
<1>8. \A m \in NS : m # ns => ranks'[m] = ranks[m] BY DEF BoardInv, BoardTypeOK
<1>9. Elder(L \cup {k}, ranks'[ns]) =
          {p \in Elder(L, ranks[ns]) : k \notin {p[1], p[2]}} \cup ((L \ {k}) \X {k})
  <2>1. \A j \in L : ranks[ns][j].sequence \in 1..sequence
    BY RankKeysFinite DEF BoardInv, SequencesDistinct
  <2>2. \A j \in L \ {k} : ranks'[ns][j] = ranks[ns][j] BY <1>1 DEF RankLiveKeys
  <2>3. ranks'[ns][k].sequence = sequence + 1 /\ sequence \in Nat
    BY <1>1 DEF BoardInv, BoardTypeOK
  <2> DEFINE E == ranks[ns]
             F == ranks'[ns]
  <2>4. /\ \A j \in L : E[j].sequence \in 1..sequence
        /\ \A j \in L \ {k} : F[j] = E[j]
        /\ F[k].sequence = sequence + 1 /\ sequence \in Nat
    BY <2>1, <2>2, <2>3
  <2> HIDE DEF L, E, F
  <2>5. Elder(L \cup {k}, F) =
            {p \in Elder(L, E) : k \notin {p[1], p[2]}} \cup ((L \ {k}) \X {k})
    BY <2>4, ElderEnters
  <2> QED BY <2>5 DEF E, F
<1>10. Earlier' = [Earlier EXCEPT ![ns] =
            {p \in @ : k \notin {p[1], p[2]}} \cup ((AbstractBoard!Listing(ns) \ {k}) \X {k})]
  <2> DEFINE next == {p \in Elder(L, ranks[ns]) : k \notin {p[1], p[2]}}
                         \cup ((L \ {k}) \X {k})
  <2>1. Earlier' = [m \in NS |-> IF m = ns THEN next ELSE Elder(RankLiveKeys(m), ranks[m])]
    <3>1. \A m \in NS : m # ns =>
              Elder(RankLiveKeys(m)', ranks'[m]) = Elder(RankLiveKeys(m), ranks[m])
      BY <1>6, <1>8
    <3>2. Elder(RankLiveKeys(ns)', ranks'[ns]) = next BY <1>7, <1>9
    <3> HIDE DEF next
    <3> QED BY <3>1, <3>2, EarlierShows
  <2>2. AbstractBoard!Listing(ns) = L BY ListedIfLive
  <2>3. Earlier[ns] = Elder(L, ranks[ns]) BY EarlierShows
  <2> HIDE DEF L
  <2>4. next = {p \in Earlier[ns] : k \notin {p[1], p[2]}}
                   \cup ((AbstractBoard!Listing(ns) \ {k}) \X {k})
    BY <2>2, <2>3
  <2> HIDE DEF next
  <2> QED BY <2>1, <2>4, EarlierShows
<1> QED BY <1>4, <1>10 DEF AbstractBoard!Enter

\* Entries that leave, and others that stay as they are on the board.
LEMMA BoardDrops ==
    ASSUME NEW ns \in NS, NEW gone \in SUBSET Key,
           \A k \in Key : RankLive(ns, k)' <=> RankLive(ns, k) /\ k \notin gone,
           \A k \in RankLiveKeys(ns) \ gone :
               /\ ranks'[ns][k].score = ranks[ns][k].score
               /\ ranks'[ns][k].sequence = ranks[ns][k].sequence
    PROVE  /\ Table'[ns] = AbstractBoard!TableWithout(ns, gone)
           /\ Earlier'[ns] = AbstractBoard!EarlierWithout(ns, gone)
<1>1. ASSUME NEW k \in Key
      PROVE  Table'[ns][k] = IF k \in gone THEN [listed |-> FALSE, score |-> 0]
                             ELSE Table[ns][k]
  <2>1. Table'[ns][k] =
            IF RankLive(ns, k)' THEN [listed |-> TRUE, score |-> ranks'[ns][k].score]
            ELSE [listed |-> FALSE, score |-> 0]
    BY DEF Table
  <2>2. Table[ns][k] =
            IF RankLive(ns, k) THEN [listed |-> TRUE, score |-> ranks[ns][k].score]
            ELSE [listed |-> FALSE, score |-> 0]
    BY DEF Table
  <2>3. RankLive(ns, k)' => k \notin gone /\ RankLive(ns, k) /\ ranks'[ns][k].score = ranks[ns][k].score
    BY DEF RankLiveKeys
  <2>4. CASE RankLive(ns, k)' BY <2>1, <2>2, <2>3, <2>4
  <2>5. CASE ~RankLive(ns, k)'
    <3>1. k \in gone \/ ~RankLive(ns, k) BY <2>5
    <3> QED BY <2>1, <2>2, <2>5, <3>1
  <2> QED BY <2>4, <2>5
<1>2. Table'[ns] = [k \in Key |-> Table'[ns][k]] BY TableShows
<1>3. Table'[ns] = [k \in Key |-> IF k \in gone THEN [listed |-> FALSE, score |-> 0]
                                 ELSE Table[ns][k]]
  BY <1>1, <1>2
<1>4. RankLiveKeys(ns)' = RankLiveKeys(ns) \ gone BY DEF RankLiveKeys
<1>5. Earlier'[ns] = {p \in Earlier[ns] : {p[1], p[2]} \cap gone = {}}
  BY <1>4, EarlierShows, ElderWithout
<1> QED BY <1>3, <1>5
     DEF AbstractBoard!TableWithout, AbstractBoard!Unlisted, AbstractBoard!EarlierWithout

LEMMA EraseDrops ==
    ASSUME BoardInv, now' = now, NEW ns \in NS, NEW gone \in SUBSET Key, RankErase(ns, gone)
    PROVE  /\ AbstractBoard!Drop(ns, gone)
           /\ gone \cap RankLiveKeys(ns) = {} => AbstractBoard!Unchanged
<1>1. \A m \in NS, k \in Key :
          ranks'[m][k] = IF m = ns /\ k \in gone THEN Absent ELSE ranks[m][k]
  BY DEF RankErase, BoardInv, BoardTypeOK
<1>2. \A m \in NS, k \in Key :
          RankLive(m, k)' <=> RankLive(m, k) /\ ~(m = ns /\ k \in gone)
  BY <1>1 DEF RankLive, Ranked
<1>3. AbstractBoard!Drop(ns, gone)
  <2>1. /\ Table'[ns] = AbstractBoard!TableWithout(ns, gone)
        /\ Earlier'[ns] = AbstractBoard!EarlierWithout(ns, gone)
    <3>1. \A k \in RankLiveKeys(ns) \ gone : ranks'[ns][k] = ranks[ns][k]
      BY <1>1 DEF RankLiveKeys
    <3> QED BY <1>2, <3>1, BoardDrops
  <2>2. ASSUME NEW m \in NS, m # ns PROVE Table'[m] = Table[m] /\ Earlier'[m] = Earlier[m]
    <3>1. ranks'[m] = ranks[m] BY <2>2 DEF RankErase, BoardInv, BoardTypeOK
    <3>2. RankLiveKeys(m)' = RankLiveKeys(m) BY <1>2, <2>2 DEF RankLiveKeys
    <3> QED BY <3>1, <3>2, TableShows, EarlierShows
  <2>3. Table' = [m \in NS |-> Table'[m]] /\ Earlier' = [m \in NS |-> Earlier'[m]]
    BY TableShows, EarlierShows
  <2>4. DOMAIN Table = NS /\ Table = [m \in NS |-> Table[m]]
        /\ Earlier = [m \in NS |-> Earlier[m]]
    BY TableShows, EarlierShows
  <2> QED BY <2>1, <2>2, <2>3, <2>4 DEF AbstractBoard!Drop
<1>4. ASSUME gone \cap RankLiveKeys(ns) = {} PROVE AbstractBoard!Unchanged
  <2>1. \A m \in NS, k \in Key : /\ RankLive(m, k)' <=> RankLive(m, k)
                                 /\ RankLive(m, k) => ranks'[m][k] = ranks[m][k]
    BY <1>1, <1>2, <1>4 DEF RankLiveKeys
  <2> QED BY <2>1, BoardsShowSame
<1> QED BY <1>3, <1>4

LEMMA PurgeShowsSame ==
    ASSUME BoardInv, now' = now, NEW ns \in NS, RankPurge(ns)
    PROVE  AbstractBoard!Unchanged
<1> DEFINE gone == RankKeys(ns) \ RankLiveKeys(ns)
<1>1. gone \in SUBSET Key /\ gone \cap RankLiveKeys(ns) = {} /\ RankErase(ns, gone)
  BY DEF RankKeys, RankPurge
<1> HIDE DEF gone
<1> QED BY <1>1, EraseDrops

LEMMA RanksShowSame ==
    ASSUME UNCHANGED <<ranks, now>>
    PROVE  AbstractBoard!Unchanged
<1>1. \A m \in NS, k \in Key : RankLive(m, k)' <=> RankLive(m, k)
  BY DEF RankLive, Ranked
<1> QED BY <1>1, BoardsShowSame

LEMMA RankRenames ==
    /\ Failed = AbstractBoard!No
    /\ Succeeded = AbstractBoard!Yes(0, <<>>)
    /\ \A num, keys : Ret(TRUE, num, keys) = AbstractBoard!Yes(num, keys)
BY DEF Failed, Succeeded, Ret, AbstractBoard!No, AbstractBoard!Yes

\* A score written with a new policy is listed at once.
LEMMA RankRenewedIsLive ==
    ASSUME NEW e \in RankEntry, NEW ex \in Expiration, now \in Nat
    PROVE  ~IsExpired(WithExpiration(e, ex, now), now)
<1> DEFINE f == WithExpiration(e, ex, now)
<1>1. f.policy = ex.policy /\ f.until = Until(ex, now) BY DEF WithExpiration, RankEntry
<1>2. Until(ex, now) \in Int BY UntilSound
<1> HIDE DEF f
<1>3. ~IsExpired(f, now) BY <1>1, <1>2, RenewedIsLive DEF IsExpired
<1> QED BY <1>3 DEF f

-----------------------------------------------------------------------------
(* Writes.                                                                 *)

LEMMA RankPutEnters ==
    ASSUME RankInv, now' = now, NEW ns \in NS, NEW k \in Key, NEW score \in Cell,
           NEW ex \in Expiration, RankPut(ns, k, score, ex)
    PROVE  AbstractBoard!Enter(ns, k, score)
<1> DEFINE r == [score |-> score, sequence |-> sequence + 1,
                 policy |-> "Persistent", until |-> 0]
           e == WithExpiration(r, ex, now)
<1>1. r \in RankEntry /\ r.sequence = sequence + 1 /\ r.score = score
  BY DEF RankEntry, ExpirePolicy, RankInv, BoardInv, BoardTypeOK
<1>2. now \in Nat BY DEF RankInv, EngineTypeOK
<1>3. ranks' = [ranks EXCEPT ![ns][k] = e] BY DEF RankPut
<1> HIDE DEF r
<1>4. e \in RankEntry /\ e.sequence = sequence + 1 /\ e.score = score
  BY <1>1, <1>2, RankExpirationSound
<1>5. ~IsExpired(e, now) BY <1>1, <1>2, RankRenewedIsLive
<1> HIDE DEF e
<1>6. AbstractBoard!Enter(ns, k, e.score) BY <1>3, <1>4, <1>5, PutEnters DEF RankInv
<1> QED BY <1>4, <1>6

LEMMA RankStoreSets ==
    ASSUME RankInv, NEW ns \in NS, NEW k \in Key, NEW score \in Cell,
           NEW ex \in Expiration, NEW result, RankStore(ns, k, score, ex, result)
    PROVE  \/ ret' = AbstractBoard!No /\ ~AbstractBoard!Listed(ns, k) /\ AbstractBoard!Unchanged
           \/ ret' = result /\ AbstractBoard!Enter(ns, k, score)
<1>1. now' = now BY DEF RankStore
<1>2. CASE RankPut(ns, k, score, ex) /\ ret' = result
  BY <1>1, <1>2, RankPutEnters
<1>3. CASE ret' = Failed /\ UNCHANGED ranks /\ (~Ranked(ns, k) \/ ns \notin boards)
  <2>1. ~Ranked(ns, k) BY <1>3 DEF RankInv, BoardInv, NoEmptyBoard, RankKeys
  <2>2. ~AbstractBoard!Listed(ns, k)
    <3>1. ~RankLive(ns, k) BY <2>1 DEF RankLive
    <3> QED BY <3>1, ListedIfLive
  <2> QED BY <1>1, <1>3, <2>2, RanksShowSame, RankRenames
<1> QED BY <1>2, <1>3 DEF RankStore, RankFail

\* A cell is left as it is.
LEMMA WrapCellKeepsCell ==
    ASSUME NEW x \in Cell
    PROVE  WrapCell(x) = x
<1> DEFINE width == CellMax - CellMin + 1
<1>1. \A a \in Nat, b \in Nat \ {0} : a < b => a % b = a OBVIOUS
<1>2. /\ CellMin \in Int /\ CellMax \in Int /\ x \in Int
      /\ x - CellMin \in Nat /\ width \in Nat \ {0} /\ x - CellMin < width
  BY EngineAssumption DEF Cell
<1>3. (x - CellMin) % width = x - CellMin BY <1>1, <1>2
<1> HIDE DEF width
<1>4. ((x - CellMin) % width) + CellMin = x BY <1>2, <1>3
<1> QED BY <1>4 DEF WrapCell, width

LEMMA RescoredRest ==
    ASSUME NEW old \in RankEntry, NEW sum \in Cell, NEW n \in Nat
    PROVE  /\ [old EXCEPT !.score = sum, !.sequence = n].score = sum
           /\ [old EXCEPT !.score = sum, !.sequence = n].policy = old.policy
           /\ [old EXCEPT !.score = sum, !.sequence = n].until = old.until
BY DEF RankEntry

LEMMA RankIncAdds ==
    ASSUME RankInv, NEW ns \in NS, NEW k \in Key, NEW delta \in Deltas,
           NEW ex \in Expiration, RankInc(ns, k, delta, ex)
    PROVE  AbstractBoard!Inc(ns, k, delta)
<1> DEFINE old == IF AbstractBoard!Listed(ns, k) THEN AbstractBoard!ScoreOf(ns, k) ELSE 0
           sum == ((old + delta - CellMin) % (CellMax - CellMin + 1)) + CellMin
           Added == \/ ret' = AbstractBoard!No /\ ~AbstractBoard!Listed(ns, k)
                       /\ AbstractBoard!Unchanged
                    \/ ret' = AbstractBoard!Yes(sum, <<>>) /\ AbstractBoard!Enter(ns, k, sum)
<1> SUFFICES Added
  <2>1. call' = "RankInc" BY DEF RankInc, Called
  <2> QED BY <2>1 DEF AbstractBoard!Inc
<1>1. delta \in Cell /\ delta \in Int /\ now \in Nat
  <2>1. delta \in Cell BY RankArguments
  <2> QED BY <2>1, RankArguments DEF RankInv, EngineTypeOK
<1>2. ASSUME ~RankLive(ns, k) PROVE sum = delta
  <2>1. AbstractBoard!Listed(ns, k) = FALSE BY <1>2, ListedIfLive
  <2>2. old = 0 BY <2>1
  <2>3. 0 + delta - CellMin = delta - CellMin BY <1>1, EngineAssumption
  <2> HIDE DEF old
  <2>4. sum = WrapCell(delta) BY <2>2, <2>3 DEF WrapCell
  <2> QED BY <1>1, <2>4, WrapCellKeepsCell
<1>3. ASSUME RankLive(ns, k) PROVE sum = WrapCell(ranks[ns][k].score + delta)
  <2>1. AbstractBoard!Listed(ns, k) = TRUE BY <1>3, LiveIsListed
  <2>2. AbstractBoard!ScoreOf(ns, k) = ranks[ns][k].score
    BY <1>3, ListedIfLive DEF RankLiveKeys
  <2>3. old = ranks[ns][k].score BY <2>1, <2>2
  <2>4. old \in Int /\ delta \in Int /\ CellMin \in Int
    <3>1. ranks[ns][k].score \in Cell BY <1>3, RankedEntry DEF RankLive, RankEntry, RankInv
    <3> QED BY <1>1, <2>3, <3>1, RankArguments, EngineAssumption
  <2> HIDE DEF old
  <2>5. old + (delta - CellMin) = (old + delta) - CellMin BY <2>4
  <2>6. sum = WrapCell(old + delta) BY <2>5, Zenon DEF WrapCell
  <2> HIDE DEF sum
  <2> QED BY <2>3, <2>6
<1> HIDE DEF sum
<1>4. CASE ~Ranked(ns, k)
  <2>1. RankStore(ns, k, delta, ex, Ret(TRUE, delta, <<>>))
    BY <1>4 DEF RankInc, RankLive
  <2>2. sum = delta BY <1>2, <1>4 DEF RankLive
  <2>3. Ret(TRUE, delta, <<>>) = AbstractBoard!Yes(sum, <<>>) BY <2>2, RankRenames
  <2>4. \/ ret' = AbstractBoard!No /\ ~AbstractBoard!Listed(ns, k) /\ AbstractBoard!Unchanged
        \/ ret' = Ret(TRUE, delta, <<>>) /\ AbstractBoard!Enter(ns, k, delta)
    BY <1>1, <2>1, RankStoreSets
  <2> QED BY <2>2, <2>3, <2>4
<1>5. CASE Ranked(ns, k) /\ ~RankLive(ns, k)
  <2>1. RankPut(ns, k, delta, ex) /\ ret' = Ret(TRUE, delta, <<>>) /\ now' = now
    BY <1>5 DEF RankInc
  <2>2. AbstractBoard!Enter(ns, k, delta) BY <1>1, <2>1, RankPutEnters
  <2>3. ret' = AbstractBoard!Yes(delta, <<>>) BY <2>1, RankRenames
  <2>4. sum = delta BY <1>2, <1>5
  <2> QED BY <2>2, <2>3, <2>4
<1>6. CASE RankLive(ns, k)
  <2> DEFINE e == [ranks[ns][k] EXCEPT !.score = sum, !.sequence = sequence + 1]
             f == IF RenewsExpiry(ex) THEN WithExpiration(e, ex, now) ELSE e
  <2>1. sum = WrapCell(ranks[ns][k].score + delta) BY <1>3, <1>6
  <2>2. /\ ranks' = [ranks EXCEPT ![ns][k] = f]
        /\ ret' = Ret(TRUE, sum, <<>>) /\ now' = now
    BY <2>1, <1>6, Zenon DEF RankInc, RankLive
  <2>3. ranks[ns][k] \in RankEntry /\ sequence + 1 \in Nat
    BY <1>6, RankedEntry DEF RankLive, RankInv, BoardInv, BoardTypeOK
  <2>4. sum \in Cell
    <3>1. ranks[ns][k].score \in Cell BY <2>3 DEF RankEntry
    <3>2. ranks[ns][k].score \in Int BY <3>1, RankArguments
    <3>3. ranks[ns][k].score + delta \in Int BY <1>1, <3>2
    <3> QED BY <1>3, <1>6, <3>3, WrapCellIsCell
  <2>5. sequence + 1 \in Nat BY <2>3
  <2>6. /\ e \in RankEntry /\ e.sequence = sequence + 1 /\ e.score = sum
        /\ e.policy = ranks[ns][k].policy /\ e.until = ranks[ns][k].until
    <3>1. e \in RankEntry /\ e.sequence = sequence + 1
      BY <2>3, <2>4, <2>5, RescoredEntry
    <3>2. e.score = sum BY <2>3, <2>4, <2>5, RescoredRest
    <3>3. e.policy = ranks[ns][k].policy BY <2>3, <2>4, <2>5, RescoredRest
    <3>4. e.until = ranks[ns][k].until BY <2>3, <2>4, <2>5, RescoredRest
    <3> QED BY <3>1, <3>2, <3>3, <3>4
  <2> HIDE DEF e
  <2>7. ~IsExpired(e, now) BY <1>6, <2>6 DEF RankLive, IsExpired
  <2>8. /\ f \in RankEntry /\ f.sequence = sequence + 1 /\ f.score = sum
        /\ ~IsExpired(f, now)
    BY <1>1, <2>6, <2>7, RankExpirationSound, RankRenewedIsLive
  <2> HIDE DEF f
  <2>9. AbstractBoard!Enter(ns, k, f.score) BY <2>2, <2>8, PutEnters DEF RankInv
  <2>10. ret' = AbstractBoard!Yes(sum, <<>>) BY <2>2, RankRenames
  <2>11. AbstractBoard!Enter(ns, k, sum) BY <2>8, <2>9
  <2> QED BY <2>10, <2>11
<1> HIDE DEF Added
<1> QED BY <1>4, <1>5, <1>6

LEMMA RankWriteWrites ==
    ASSUME RankInv, NEW ns \in NS, NEW k \in Key, RankWrite(ns, k)
    PROVE  AbstractBoard!Next
<1>1. ASSUME NEW ex \in Expirations, NEW score \in Scores, RankSet(ns, k, score, ex)
      PROVE  AbstractBoard!Next
  <2>1. \/ ret' = AbstractBoard!No /\ AbstractBoard!Unchanged
        \/ ret' = Succeeded /\ AbstractBoard!Enter(ns, k, score)
    BY <1>1, RankArguments, RankStoreSets DEF RankSet
  <2>2. AbstractBoard!Set(ns, k, score)
    BY <1>1, <2>1, RankRenames DEF RankSet, Called, AbstractBoard!Set
  <2> QED BY <2>2 DEF AbstractBoard!Next
<1>2. ASSUME NEW ex \in Expirations, NEW delta \in Deltas, RankInc(ns, k, delta, ex)
      PROVE  AbstractBoard!Next
  <2>1. AbstractBoard!Inc(ns, k, delta) BY <1>2, RankArguments, RankIncAdds
  <2> QED BY <2>1 DEF AbstractBoard!Next
<1> QED BY <1>1, <1>2 DEF RankWrite

-----------------------------------------------------------------------------
(* Answers.                                                                *)

LEMMA LookupAnswers ==
    ASSUME RankInv, NEW ns \in NS, NEW k \in Key, NEW answer,
           RankLookup(ns, k, answer)
    PROVE  /\ AbstractBoard!Unchanged
           /\ RankLive(ns, k) => ret' = answer
           /\ ~RankLive(ns, k) => ret' = AbstractBoard!No
<1>1. now' = now BY DEF RankLookup
<1>2. CASE RankLive(ns, k)
  <2>1. ret' = answer /\ UNCHANGED ranks BY <1>2 DEF RankLookup, RankLive
  <2> QED BY <1>1, <1>2, <2>1, RanksShowSame
<1>3. CASE ~RankLive(ns, k)
  <2>1. CASE ~Ranked(ns, k) /\ RankFail(Failed)
    BY <1>1, <1>3, <2>1, RanksShowSame, RankRenames DEF RankFail
  <2>2. CASE RankErase(ns, {k}) /\ ret' = Failed
    <3>1. {k} \cap RankLiveKeys(ns) = {} BY <1>3 DEF RankLiveKeys
    <3> QED BY <1>1, <1>3, <2>2, <3>1, EraseDrops, RankRenames DEF RankInv
  <2> QED BY <1>3, <2>1, <2>2 DEF RankLookup
<1> QED BY <1>2, <1>3

LEMMA ListedDecides ==
    ASSUME NEW ns \in NS, NEW k \in Key, NEW x, NEW y, NEW z,
           RankLive(ns, k) => x = y, ~RankLive(ns, k) => x = z
    PROVE  x = IF AbstractBoard!Listed(ns, k) THEN y ELSE z
<1>1. CASE RankLive(ns, k)
  <2>1. AbstractBoard!Listed(ns, k) = TRUE BY <1>1, LiveIsListed
  <2> QED BY <1>1, <2>1
<1>2. CASE ~RankLive(ns, k)
  <2>1. AbstractBoard!Listed(ns, k) = FALSE BY <1>2, ListedIfLive
  <2> QED BY <1>2, <2>1
<1> QED BY <1>1, <1>2

LEMMA PositionAnswers ==
    ASSUME RankInv, NEW ns \in NS, NEW k \in Key, NEW order \in RankOrder,
           RankGetPosition(ns, k, order)
    PROVE  AbstractBoard!Answer(ns) /\ AbstractBoard!Unchanged
<1>1. now' = now /\ call' = "RankGetPosition" BY DEF RankGetPosition, Called
<1>2. /\ AbstractBoard!Unchanged
      /\ RankLive(ns, k) => ret' = AbstractBoard!Yes(AbstractBoard!Place(ns, k, order), <<>>)
      /\ ~RankLive(ns, k) => ret' = AbstractBoard!No
  <2>1. CASE RankLive(ns, k)
    <3>1. ret' = Ret(TRUE, Position(ns, k, order), <<>>) /\ RankPurge(ns)
      BY <2>1 DEF RankGetPosition, RankLive
    <3>2. AbstractBoard!Place(ns, k, order) = Position(ns, k, order)
      BY <2>1, SamePlace DEF RankInv, RankLiveKeys
    <3> QED BY <1>1, <2>1, <3>1, <3>2, PurgeShowsSame, RankRenames DEF RankInv
  <2>2. CASE ~RankLive(ns, k)
    <3>1. RankLookup(ns, k, Failed) BY <2>2 DEF RankGetPosition, RankLookup
    <3> QED BY <2>2, <3>1, LookupAnswers
  <2> QED BY <2>1, <2>2
<1>3. order \in AbstractBoard!Order BY DEF RankOrder, AbstractBoard!Order
<1>4. ret' = IF AbstractBoard!Listed(ns, k)
             THEN AbstractBoard!Yes(AbstractBoard!Place(ns, k, order), <<>>)
             ELSE AbstractBoard!No
  BY <1>2, ListedDecides
<1> QED BY <1>1, <1>2, <1>3, <1>4 DEF AbstractBoard!Answer

LEMMA TopAnswers ==
    ASSUME RankInv, NEW ns \in NS, NEW pos \in Positions, NEW order \in RankOrder,
           RankGetTop(ns, pos, order)
    PROVE  AbstractBoard!Answer(ns) /\ AbstractBoard!Unchanged
<1> DEFINE Found == \E k \in AbstractBoard!Listing(ns) :
                        /\ AbstractBoard!Place(ns, k, order) = pos
                        /\ ret' = AbstractBoard!Yes(AbstractBoard!ScoreOf(ns, k), <<k>>)
<1>1. now' = now /\ call' = "RankGetTop" /\ pos \in Int
  BY RankArguments DEF RankGetTop, Called
<1>2. AbstractBoard!Size(ns) = Cardinality(RankLiveKeys(ns))
      /\ Cardinality(RankLiveKeys(ns)) \in Nat
  BY ListedIfLive, SameSize, RankKeysFinite DEF AbstractBoard!Size
<1>3. AbstractBoard!Unchanged
  BY <1>1, PurgeShowsSame, RanksShowSame DEF RankGetTop, RankFail, RankInv
<1>4. (pos \notin 1..AbstractBoard!Size(ns) /\ ret' = AbstractBoard!No) \/ Found
  <2>1. CASE ret' = Failed /\ (pos < 1 \/ pos > Cardinality(RankLiveKeys(ns)))
    BY <1>1, <1>2, <2>1, RankRenames
  <2>2. ASSUME NEW q \in Sorted(ns, order), pos \in 1..Cardinality(RankLiveKeys(ns)),
               ret' = Ret(TRUE, ranks[ns][q[pos]].score, <<q[pos]>>)
        PROVE  Found
    <3>1. pos \in DOMAIN q /\ q[pos] \in RankLiveKeys(ns) BY <2>2, SortedKeys
    <3>2. Position(ns, q[pos], order) = pos BY <3>1, SortedPlace DEF RankInv
    <3>3. AbstractBoard!Place(ns, q[pos], order) = pos
      BY <3>1, <3>2, SamePlace DEF RankInv
    <3>4. ret' = AbstractBoard!Yes(AbstractBoard!ScoreOf(ns, q[pos]), <<q[pos]>>)
      BY <2>2, <3>1, ListedIfLive, RankRenames
    <3> QED BY <3>1, <3>3, <3>4, ListedIfLive
  <2> QED BY <2>1, <2>2 DEF RankGetTop, RankFail
<1>5. order \in AbstractBoard!Order BY DEF RankOrder, AbstractBoard!Order
<1> QED BY <1>1, <1>3, <1>4, <1>5 DEF AbstractBoard!Answer

LEMMA SliceLength ==
    ASSUME NEW q \in Seq(Key), NEW start \in Int, NEW count \in Nat, start >= 1
    PROVE  LET beyond == Len(q) - start + 1
               n == IF count < beyond THEN count ELSE beyond
           IN  Len(SubSeq(q, start, Lesser(start - 1 + count, Len(q)))) =
                   IF n >= 1 THEN n ELSE 0
<1> DEFINE hi == Lesser(start - 1 + count, Len(q))
<1>1. Len(q) \in Nat /\ hi \in Int /\ hi <= Len(q) /\ hi <= start - 1 + count
      /\ (hi = Len(q) \/ hi = start - 1 + count)
  BY DEF Lesser
<1> HIDE DEF hi
<1>2. \A i \in start..hi : q[i] \in Key BY <1>1
<1>3. Len(SubSeq(q, start, hi)) = IF start <= hi THEN hi - start + 1 ELSE 0
  BY <1>1, <1>2, SubSeqProperties
<1> QED BY <1>1, <1>3 DEF hi

LEMMA RangeAnswers ==
    ASSUME RankInv, NEW ns \in NS, NEW start \in Positions, NEW count \in Counts,
           NEW order \in RankOrder, RankGetRange(ns, start, count, order)
    PROVE  AbstractBoard!Answer(ns) /\ AbstractBoard!Unchanged
<1> DEFINE size == Cardinality(RankLiveKeys(ns))
           beyond == AbstractBoard!Size(ns) - start + 1
           n == IF count < beyond THEN count ELSE beyond
           slice(q) == SubSeq(q, start, Lesser(start - 1 + count, Len(q)))
           Found == \/ (start < 1 \/ n < 1) /\ ret' = AbstractBoard!No
                    \/ /\ start >= 1 /\ n >= 1
                       /\ ret' = AbstractBoard!Yes(n, ret'.keys) /\ Len(ret'.keys) = n
                       /\ \A i \in 1..n :
                             /\ ret'.keys[i] \in AbstractBoard!Listing(ns)
                             /\ AbstractBoard!Place(ns, ret'.keys[i], order) = start + i - 1
<1>1. now' = now /\ call' = "RankGetRange" BY DEF RankGetRange, Called
<1>2. start \in Int /\ count \in Nat BY RankArguments
<1>3. AbstractBoard!Size(ns) = size /\ size \in Nat
  BY ListedIfLive, SameSize, RankKeysFinite DEF AbstractBoard!Size
<1>4. AbstractBoard!Unchanged
  BY <1>1, PurgeShowsSame, RanksShowSame DEF RankGetRange, RankFail, RankInv
<1>5. beyond = size - start + 1 BY <1>3
<1> HIDE DEF size, beyond
<1>6. ASSUME start < 1 \/ count = 0, ret' = Failed PROVE Found
  <2>1. start < 1 \/ n < 1 BY <1>2, <1>3, <1>5, <1>6
  <2> HIDE DEF n
  <2> QED BY <1>6, <2>1, RankRenames
<1>7. ASSUME start >= 1, count > 0, NEW q \in Sorted(ns, order),
             ret' = Ret(slice(q) # <<>>, Len(slice(q)), slice(q))
      PROVE  Found
  <2>1. /\ q \in Seq(Key) /\ Len(q) = size /\ DOMAIN q = 1..size
        /\ \A p \in DOMAIN q : q[p] \in RankLiveKeys(ns)
    BY <1>3, SortedKeys DEF size
  <2>2. /\ slice(q) \in Seq(Key) /\ Len(slice(q)) \in Nat
        /\ \A i \in 1..count : /\ i <= Len(slice(q)) <=> start - 1 + i <= Len(q)
                               /\ i <= Len(slice(q)) => slice(q)[i] = q[start - 1 + i]
    BY <1>2, <1>7, <2>1, SliceOfSorted
  <2>3. Len(slice(q)) = IF n >= 1 THEN n ELSE 0
    BY <1>2, <1>3, <1>5, <1>7, <2>1, SliceLength
  <2>4. ret'.keys = slice(q) /\ ret'.num = Len(slice(q)) BY <1>7 DEF Ret
  <2>5. n \in Int /\ n <= count BY <1>2, <1>3, <1>5
  <2> HIDE DEF slice, n
  <2>6. CASE n >= 1
    <3>1. slice(q) # <<>> BY <2>3, <2>5, <2>6
    <3>2. (slice(q) # <<>>) = TRUE BY <3>1
    <3>3. ret' = Ret(TRUE, n, slice(q)) BY <1>7, <2>3, <2>6, <3>2
    <3>4. ret' = AbstractBoard!Yes(n, ret'.keys) /\ Len(ret'.keys) = n
      BY <2>3, <2>4, <2>6, <3>3, RankRenames
    <3>5. ASSUME NEW i \in 1..n
          PROVE  /\ ret'.keys[i] \in AbstractBoard!Listing(ns)
                 /\ AbstractBoard!Place(ns, ret'.keys[i], order) = start + i - 1
      <4>1. i \in 1..count /\ i <= Len(slice(q)) BY <1>2, <2>3, <2>5, <2>6
      <4>2. slice(q)[i] = q[start - 1 + i] /\ start - 1 + i <= Len(q) BY <2>2, <4>1
      <4>3. start - 1 + i \in DOMAIN q BY <1>2, <1>3, <1>7, <2>1, <4>2
      <4>4. Position(ns, q[start - 1 + i], order) = start - 1 + i
        BY <4>3, SortedPlace DEF RankInv
      <4>5. q[start - 1 + i] \in RankLiveKeys(ns) BY <2>1, <4>3
      <4>6. AbstractBoard!Place(ns, q[start - 1 + i], order) = start - 1 + i
        BY <4>4, <4>5, SamePlace DEF RankInv
      <4>7. start - 1 + i = start + i - 1 BY <1>2
      <4> QED BY <2>4, <4>2, <4>5, <4>6, <4>7, ListedIfLive
    <3> QED BY <1>7, <2>6, <3>4, <3>5
  <2>7. CASE n < 1
    <3>1. slice(q) = <<>> BY <2>2, <2>3, <2>5, <2>7
    <3>2. (slice(q) # <<>>) = FALSE /\ Len(slice(q)) = 0 BY <2>3, <2>5, <2>7, <3>1
    <3>3. ret' = Failed BY <1>7, <3>1, <3>2 DEF Failed
    <3> QED BY <2>7, <3>3, RankRenames
  <2> QED BY <2>5, <2>6, <2>7
<1>8. Found
  <2> HIDE DEF n
  <2>1. (start < 1 \/ count = 0) /\ RankFail(Failed) => Found BY <1>6 DEF RankFail
  <2> HIDE DEF Found
  <2>2. start >= 1 /\ count > 0 /\ (\E q \in Sorted(ns, order) :
            ret' = Ret(slice(q) # <<>>, Len(slice(q)), slice(q))) => Found
    BY <1>7
  <2> QED BY <2>1, <2>2, Zenon DEF RankGetRange
<1>9. order \in AbstractBoard!Order BY DEF RankOrder, AbstractBoard!Order
<1> QED BY <1>1, <1>4, <1>8, <1>9, Zenon DEF AbstractBoard!Answer, beyond

\* Every query answers from the board and leaves it as it was.
LEMMA RankQueryAnswers ==
    ASSUME RankInv, NEW ns \in NS, RankQuery(ns)
    PROVE  AbstractBoard!Answer(ns) /\ AbstractBoard!Unchanged
<1>1. ASSUME NEW k \in Key, RankGetScore(ns, k)
      PROVE  AbstractBoard!Answer(ns) /\ AbstractBoard!Unchanged
  <2>1. call' = "RankGetScore" /\ RankLookup(ns, k, Ret(TRUE, ranks[ns][k].score, <<>>))
    BY <1>1 DEF RankGetScore, Called
  <2>2. /\ AbstractBoard!Unchanged
        /\ RankLive(ns, k) => ret' = Ret(TRUE, ranks[ns][k].score, <<>>)
        /\ ~RankLive(ns, k) => ret' = AbstractBoard!No
    BY <2>1, LookupAnswers
  <2>3. RankLive(ns, k) => ret' = AbstractBoard!Yes(AbstractBoard!ScoreOf(ns, k), <<>>)
    BY <2>2, ListedIfLive, RankRenames DEF RankLiveKeys
  <2>4. ret' = IF AbstractBoard!Listed(ns, k)
               THEN AbstractBoard!Yes(AbstractBoard!ScoreOf(ns, k), <<>>)
               ELSE AbstractBoard!No
    BY <2>2, <2>3, ListedDecides
  <2> QED BY <2>1, <2>2, <2>4, Zenon DEF AbstractBoard!Answer
<1>2. ASSUME NEW k \in Key, RankExists(ns, k)
      PROVE  AbstractBoard!Answer(ns) /\ AbstractBoard!Unchanged
  <2>1. call' = "RankExists" /\ RankLookup(ns, k, Succeeded)
    BY <1>2 DEF RankExists, Called
  <2>2. /\ AbstractBoard!Unchanged
        /\ RankLive(ns, k) => ret' = AbstractBoard!Yes(0, <<>>)
        /\ ~RankLive(ns, k) => ret' = AbstractBoard!No
    BY <2>1, LookupAnswers, RankRenames
  <2>3. ret' = IF AbstractBoard!Listed(ns, k) THEN AbstractBoard!Yes(0, <<>>)
               ELSE AbstractBoard!No
    BY <2>2, ListedDecides
  <2> QED BY <2>1, <2>2, <2>3, Zenon DEF AbstractBoard!Answer
<1>3. ASSUME RankGetCount(ns)
      PROVE  AbstractBoard!Answer(ns) /\ AbstractBoard!Unchanged
  <2>1. /\ call' = "RankGetCount" /\ now' = now /\ RankPurge(ns)
        /\ ret' = Ret(TRUE, Cardinality(RankLiveKeys(ns)), <<>>)
    BY <1>3 DEF RankGetCount, Called
  <2>2. AbstractBoard!Size(ns) = Cardinality(RankLiveKeys(ns))
    BY ListedIfLive, SameSize DEF AbstractBoard!Size
  <2>3. ret' = AbstractBoard!Yes(AbstractBoard!Size(ns), <<>>)
    BY <2>1, <2>2, RankRenames
  <2>4. AbstractBoard!Unchanged BY <2>1, PurgeShowsSame DEF RankInv
  <2> QED BY <2>1, <2>3, <2>4 DEF AbstractBoard!Answer
<1> QED BY <1>1, <1>2, <1>3, PositionAnswers, TopAnswers, RangeAnswers DEF RankQuery

LEMMA NoneDropped ==
    ASSUME BoardInv, NEW ns \in NS, NEW gone \in SUBSET Key, UNCHANGED <<ranks, now>>,
           gone \cap AbstractBoard!Listing(ns) = {}
    PROVE  AbstractBoard!Drop(ns, gone)
<1>1. \A m \in NS, k \in Key : RankLive(m, k)' <=> RankLive(m, k)
  BY DEF RankLive, Ranked
<1>2. AbstractBoard!Unchanged BY RanksShowSame
<1>3. /\ Table'[ns] = AbstractBoard!TableWithout(ns, gone)
      /\ Earlier'[ns] = AbstractBoard!EarlierWithout(ns, gone)
  <2>1. \A k \in Key : RankLive(ns, k)' <=> RankLive(ns, k) /\ k \notin gone
    BY <1>1, ListedIfLive DEF RankLiveKeys
  <2> QED BY <2>1, BoardDrops
<1>4. Table' = Table /\ Earlier' = Earlier BY <1>2 DEF AbstractBoard!Unchanged
<1>5. DOMAIN Table = NS /\ Table = [m \in NS |-> Table[m]]
      /\ DOMAIN Earlier = NS /\ Earlier = [m \in NS |-> Earlier[m]]
  BY TableShows, EarlierShows
<1> QED BY <1>3, <1>4, <1>5 DEF AbstractBoard!Drop

LEMMA SweptScore ==
    ASSUME NEW e \in RankEntry
    PROVE  AfterSweep(e).score = e.score /\ AfterSweep(e).sequence = e.sequence
BY DEF AfterSweep, RankEntry

LEMMA RankRemoves ==
    ASSUME RankInv, NEW ns \in NS, RankClear(ns) \/ (\E k \in Key : RankDelete(ns, k))
    PROVE  AbstractBoard!Next
<1>1. ASSUME NEW k \in Key, RankDelete(ns, k)
      PROVE  AbstractBoard!Remove(ns, {k})
  <2>1. now' = now BY <1>1 DEF RankDelete
  <2>2. CASE ~Ranked(ns, k) /\ RankFail(Failed)
    <3>1. {k} \cap AbstractBoard!Listing(ns) = {}
      BY <2>2, ListedIfLive DEF RankLiveKeys, RankLive
    <3>2. AbstractBoard!Drop(ns, {k})
      BY <2>1, <2>2, <3>1, NoneDropped DEF RankFail, RankInv
    <3> QED BY <2>2, <3>1, <3>2, RankRenames DEF AbstractBoard!Remove, RankFail
  <2>3. CASE RankErase(ns, {k}) /\ ret' = Succeeded
    <3>1. AbstractBoard!Drop(ns, {k}) BY <2>1, <2>3, EraseDrops DEF RankInv
    <3> QED BY <2>3, <3>1, RankRenames DEF AbstractBoard!Remove
  <2> QED BY <1>1, <2>2, <2>3 DEF RankDelete
<1>2. ASSUME RankClear(ns)
      PROVE  AbstractBoard!Remove(ns, Key)
  <2>1. now' = now BY <1>2 DEF RankClear
  <2>2. CASE ns \notin boards /\ RankFail(Failed)
    <3>1. Key \cap AbstractBoard!Listing(ns) = {}
      BY <2>2, ListedIfLive
         DEF RankLiveKeys, RankLive, RankInv, BoardInv, NoEmptyBoard, RankKeys
    <3>2. AbstractBoard!Drop(ns, Key)
      BY <2>1, <2>2, <3>1, NoneDropped DEF RankFail, RankInv
    <3> QED BY <2>2, <3>1, <3>2, RankRenames DEF AbstractBoard!Remove, RankFail
  <2>3. CASE RankErase(ns, Key) /\ ret' = Succeeded
    <3>1. AbstractBoard!Drop(ns, Key) BY <2>1, <2>3, EraseDrops DEF RankInv
    <3> QED BY <2>3, <3>1, RankRenames DEF AbstractBoard!Remove
  <2> QED BY <1>2, <2>2, <2>3 DEF RankClear
<1>3. \A k \in Key : RankDelete(ns, k) => call' = "RankDelete" BY DEF RankDelete, Called
<1>4. RankClear(ns) => call' = "RankClear" BY DEF RankClear, Called
<1> QED BY <1>1, <1>2, <1>3, <1>4 DEF AbstractBoard!Next

\* A sweep, a clearing or the clock: entries leave, the others stay as they are.
LEMMA RanksLeave ==
    ASSUME RankInv,
           \A ns \in NS, k \in Key : RankLive(ns, k)' =>
               /\ RankLive(ns, k)
               /\ ranks'[ns][k].score = ranks[ns][k].score
               /\ ranks'[ns][k].sequence = ranks[ns][k].sequence
    PROVE  \A ns \in NS : \E gone \in SUBSET Key :
               /\ Table'[ns] = AbstractBoard!TableWithout(ns, gone)
               /\ Earlier'[ns] = AbstractBoard!EarlierWithout(ns, gone)
<1> TAKE ns \in NS
<1> DEFINE gone == {k \in Key : ~RankLive(ns, k)'}
<1>1. \A k \in Key : RankLive(ns, k)' <=> RankLive(ns, k) /\ k \notin gone OBVIOUS
<1>2. \A k \in RankLiveKeys(ns) \ gone :
          /\ ranks'[ns][k].score = ranks[ns][k].score
          /\ ranks'[ns][k].sequence = ranks[ns][k].sequence
  BY DEF RankLiveKeys
<1>3. gone \in SUBSET Key OBVIOUS
<1> HIDE DEF gone
<1> QED BY <1>1, <1>2, <1>3, BoardDrops

LEMMA SweptStaysLive ==
    ASSUME RankInv, RankSweep, now' = now, NEW ns \in NS, NEW k \in Key, RankLive(ns, k)'
    PROVE  /\ RankLive(ns, k)
           /\ ranks'[ns][k].score = ranks[ns][k].score
           /\ ranks'[ns][k].sequence = ranks[ns][k].sequence
<1>1. ranks'[ns][k] = IF Ranked(ns, k) /\ ~EndsAtSweep(ranks[ns][k], now)
                      THEN AfterSweep(ranks[ns][k]) ELSE Absent
  BY DEF RankSweep
<1>2. Ranked(ns, k) /\ ~EndsAtSweep(ranks[ns][k], now)
      /\ ranks'[ns][k] = AfterSweep(ranks[ns][k])
  BY <1>1 DEF RankLive, Ranked
<1>3. ranks[ns][k] \in RankEntry BY <1>2, RankedEntry DEF RankInv
<1>4. ~IsExpired(ranks[ns][k], now)
  <2>1. ranks[ns][k].until \in Int BY <1>3 DEF RankEntry
  <2> QED BY <1>2, <2>1 DEF EndsAtSweep, IsExpired
<1>5. /\ AfterSweep(ranks[ns][k]).score = ranks[ns][k].score
      /\ AfterSweep(ranks[ns][k]).sequence = ranks[ns][k].sequence
  BY <1>3, SweptScore
<1> QED BY <1>2, <1>4, <1>5 DEF RankLive

LEMMA TimeOnlyEnds ==
    ASSUME RankInv, AdvanceClock, ranks' = ranks, NEW ns \in NS, NEW k \in Key, RankLive(ns, k)'
    PROVE  RankLive(ns, k)
<1>1. Ranked(ns, k) /\ ~IsExpired(ranks[ns][k], now') BY DEF RankLive, Ranked
<1>2. ranks[ns][k] \in RankEntry BY <1>1, RankedEntry DEF RankInv
<1>3. ranks[ns][k].until \in Int BY <1>2 DEF RankEntry
<1>4. now \in Nat /\ now' \in Nat /\ now <= now'
  BY DEF AdvanceClock, RankInv, EngineTypeOK
<1>5. ~IsExpired(ranks[ns][k], now) BY <1>1, <1>3, <1>4 DEF IsExpired
<1> QED BY <1>1, <1>5 DEF RankLive

LEMMA BoardStart ==
    ASSUME RankInit
    PROVE  AbstractBoard!Init
<1>1. \A ns \in NS, k \in Key : ~RankLive(ns, k)
  BY DEF RankInit, RankLive, Ranked, NoRanks
<1>2. Table = [ns \in NS |-> [k \in Key |-> [listed |-> FALSE, score |-> 0]]]
  BY <1>1 DEF Table
<1>3. \A ns \in NS : RankLiveKeys(ns) = {} BY <1>1 DEF RankLiveKeys
<1>4. Earlier = [ns \in NS |-> {}] BY <1>3 DEF Earlier
<1>5. call = "MemStoreManager" /\ ret = Failed BY DEF RankInit, EngineInit, Failed, Ret
<1> QED BY <1>2, <1>4, <1>5, RankRenames DEF AbstractBoard!Init, AbstractBoard!Unlisted

\* Every step of the engine is one of the leaderboard, or changes nothing there.
LEMMA BoardStep ==
    ASSUME RankInv, [RankNext]_rankSpecVars
    PROVE  [AbstractBoard!Next]_(AbstractBoard!vars)
<1>1. CASE RankCall
  <2>1. ASSUME NEW ns \in NS, RankQuery(ns) PROVE AbstractBoard!Next
    BY <2>1, RankQueryAnswers DEF AbstractBoard!Next
  <2> QED BY <1>1, <2>1, RankWriteWrites, RankRemoves DEF RankCall
<1>2. CASE Called("SweepMapEnd") /\ RankSweep /\ ret' = Succeeded /\ UNCHANGED <<limits, now>>
  <2>1. AbstractBoard!Leave
    BY <1>2, SweptStaysLive, RanksLeave, RankRenames DEF AbstractBoard!Leave, Called
  <2> QED BY <2>1 DEF AbstractBoard!Next
<1>3. CASE Called("ClearAll") /\ RankClearAll /\ ret' = Succeeded /\ UNCHANGED <<limits, now>>
  <2>1. \A ns \in NS, k \in Key : ~RankLive(ns, k)'
    BY <1>3 DEF RankClearAll, RankLive, Ranked, NoRanks
  <2>2. AbstractBoard!Leave
    BY <1>3, <2>1, RanksLeave, RankRenames DEF AbstractBoard!Leave, Called
  <2> QED BY <2>2 DEF AbstractBoard!Next
<1>4. CASE \E a \in LimitArgs : /\ Called("SetLimits") /\ UpdateLimits(a)
                                /\ ret' = Succeeded /\ UNCHANGED <<rankVars, now>>
  <2>1. AbstractBoard!Unchanged BY <1>4, RanksShowSame DEF rankVars
  <2>2. AbstractBoard!Configure
    BY <1>4, <2>1, RankRenames DEF AbstractBoard!Configure, Called
  <2> QED BY <2>2 DEF AbstractBoard!Next
<1>5. CASE AdvanceClock /\ UNCHANGED <<rankVars, limits, call, ret>>
  <2>1. AbstractBoard!Leave
    BY <1>5, TimeOnlyEnds, RanksLeave DEF AbstractBoard!Leave, rankVars
  <2> QED BY <2>1 DEF AbstractBoard!Next
<1>6. CASE UNCHANGED rankSpecVars
  <2>1. UNCHANGED <<ranks, now, call, ret>> BY <1>6 DEF rankSpecVars, rankVars
  <2>2. AbstractBoard!Unchanged BY <2>1, RanksShowSame
  <2> QED BY <2>1, <2>2 DEF AbstractBoard!Unchanged, AbstractBoard!vars
<1> QED BY <1>1, <1>2, <1>3, <1>4, <1>5, <1>6 DEF RankNext

\* The leaderboards show what the rank natives promise: for any number of keys,
\* scores, ties and expired entries, and any order of writes, sweeps, counter
\* resets and the clock, each call answers as a table of scores with "who was
\* first" would.
THEOREM BoardIsLeaderboard == RankSpec => ImplementsLeaderboard
<1>1. RankInit => AbstractBoard!Init BY BoardStart
<1>2. RankInv /\ [RankNext]_rankSpecVars => [AbstractBoard!Next]_(AbstractBoard!vars)
  BY BoardStep
<1> QED BY <1>1, <1>2, RankInductive, PTL
     DEF RankSpec, ImplementsLeaderboard, AbstractBoard!Spec
=============================================================================
