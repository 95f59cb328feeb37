---------------------------- MODULE KVStepProofs ----------------------------
(***************************************************************************)
(* What no step of the key-value store does, proved from its inductive     *)
(* invariant.  Every step either adds at most one key that the limits      *)
(* admit, or drops only expired keys, or is a removal the caller asked     *)
(* for; and the account moves with the payload, within the quota.          *)
(***************************************************************************)
EXTENDS KVStoreProofs

\* The step adds at most the key k of ns, and was allowed to.
Grows(ns, k) ==
    /\ Present(ns, k) \/ MayHold(ns, k)
    /\ namespaces' = namespaces \cup {ns}
    /\ \A m \in NS, j \in Key : Present(m, j)' <=> Present(m, j) \/ (m = ns /\ j = k)

Shrinks ==
    /\ namespaces' \subseteq namespaces
    /\ \A m \in NS, j \in Key : Present(m, j)' => Present(m, j)

\* The step leaves every live entry as it is.
SparesLive == \A m \in NS, j \in Key : Live(m, j) => Same(m, j)

Removal ==
    \/ ClearAll \/ HeapAbort \/ SweepMapEnd
    \/ \E ns \in NS : ClearNamespace(ns) \/ \E k \in Key : DeleteKey(ns, k)

LEMMA PutGrows ==
    ASSUME StoreInv, NEW ns \in NS, NEW k \in Key, NEW e \in Entry,
           Put(ns, k, e), Present(ns, k) \/ MayHold(ns, k)
    PROVE  Grows(ns, k)
<1>1. \A m \in NS, j \in Key :
          entries'[m][j] = IF m = ns /\ j = k THEN e ELSE entries[m][j]
  BY DEF Put, StoreInv, StoreTypeOK
<1>2. e # Absent BY KVMarkers
<1> QED BY <1>1, <1>2 DEF Grows, Present, Put

LEMMA EraseShrinks ==
    ASSUME StoreInv, NEW ns \in NS, NEW gone \in SUBSET Key, NEW cache,
           Erase(ns, gone, cache)
    PROVE  Shrinks /\ (gone \cap LiveKeys(ns) = {} => SparesLive)
<1>1. \A m \in NS, j \in Key :
          entries'[m][j] = IF m = ns /\ j \in gone THEN Absent ELSE entries[m][j]
  BY DEF Erase, StoreInv, StoreTypeOK
<1>2. namespaces' \subseteq namespaces BY DEF Erase
<1> QED BY <1>1, <1>2 DEF Shrinks, SparesLive, Same, Present, Live, LiveKeys

LEMMA StoreSpared ==
    ASSUME UNCHANGED store
    PROVE  Shrinks /\ SparesLive
BY DEF store, Shrinks, SparesLive, Same, Present, Live

LEMMA SetScalarGrows ==
    ASSUME KVInv, NEW ns \in NS, NEW k \in Key,
           NEW type \in {"Int", "Float"}, NEW n \in Int, NEW ex \in Expiration,
           NEW result, SetScalar(ns, k, type, n, ex, result)
    PROVE  Grows(ns, k) \/ (Shrinks /\ SparesLive)
<1>1. CASE Fail BY <1>1, StoreSpared DEF Fail
<1>2. CASE ~Fail
  <2>1. MayHold(ns, k) /\ Put(ns, k, NewEntry(type, n, ex)) BY <1>2 DEF SetScalar
  <2>2. NewEntry(type, n, ex) \in Entry
    BY NewEntrySound DEF EntryType, KVInv, RestTypeOK, EngineTypeOK
  <2> QED BY <2>1, <2>2, PutGrows DEF KVInv
<1> QED BY <1>1, <1>2

LEMMA SetDynamicGrows ==
    ASSUME KVInv, NEW ns \in NS, NEW k \in Key,
           NEW type \in {"String", "Array"}, NEW n \in Int, NEW ex \in Expiration,
           SetDynamic(ns, k, type, n, ex)
    PROVE  Grows(ns, k) \/ (Shrinks /\ SparesLive)
<1>1. CASE Fail BY <1>1, StoreSpared DEF Fail
<1>2. CASE ~Fail
  <2>1. PICK e \in {Current(ns, k), NewEntry(type, n, ex)} :
            MayHold(ns, k) /\ Put(ns, k, e)
    BY <1>2 DEF SetDynamic
  <2>2. NewEntry(type, n, ex) \in Entry
    BY NewEntrySound DEF EntryType, KVInv, RestTypeOK, EngineTypeOK
  <2>3. Current(ns, k) \in Entry BY CurrentSound DEF KVInv
  <2> QED BY <2>1, <2>2, <2>3, PutGrows DEF KVInv
<1> QED BY <1>1, <1>2

LEMMA IncrementGrows ==
    ASSUME KVInv, NEW ns \in NS, NEW k \in Key,
           NEW type \in {"Int", "Float"}, NEW delta \in Int, NEW sum \in Int,
           NEW ex \in Expiration, Increment(ns, k, type, delta, sum, ex)
    PROVE  Grows(ns, k) \/ (Shrinks /\ SparesLive)
<1>1. now \in Nat BY DEF KVInv, RestTypeOK, EngineTypeOK
<1>2. CASE SetScalar(ns, k, type, delta, ex, Ret(TRUE, delta, <<>>))
  BY <1>2, SetScalarGrows
<1>3. CASE Expired(ns, k) /\ Put(ns, k, NewEntry(type, delta, ex))
  <2>1. NewEntry(type, delta, ex) \in Entry BY <1>1, NewEntrySound DEF EntryType
  <2> QED BY <1>3, <2>1, PutGrows DEF Expired, KVInv
<1>4. CASE Fail BY <1>4, StoreSpared DEF Fail
<1>5. CASE /\ Live(ns, k)
           /\ LET e == [entries[ns][k] EXCEPT !.n = sum]
              IN  Put(ns, k, IF RenewsExpiry(ex) THEN WithExpiration(e, ex, now) ELSE e)
  <2> DEFINE e == [entries[ns][k] EXCEPT !.n = sum]
             f == IF RenewsExpiry(ex) THEN WithExpiration(e, ex, now) ELSE e
  <2>1. Present(ns, k) /\ entries[ns][k] \in Entry BY <1>5, LiveEntry DEF Live
  <2>2. e \in Entry BY <2>1 DEF Entry
  <2> HIDE DEF e
  <2>3. f \in Entry BY <1>1, <2>2, ExpirationSound
  <2>4. Put(ns, k, f) BY <1>5 DEF e
  <2> HIDE DEF f
  <2> QED BY <2>1, <2>3, <2>4, PutGrows DEF KVInv
<1> QED BY <1>2, <1>3, <1>4, <1>5 DEF Increment

LEMMA WriteGrows ==
    ASSUME KVInv, NEW ns \in NS, NEW k \in Key, Write(ns, k)
    PROVE  Grows(ns, k) \/ (Shrinks /\ SparesLive)
<1>1. PICK ex \in Expirations :
          \/ \E v \in Cells : SetInt(ns, k, v, ex)
          \/ SetFloat(ns, k, ex)
          \/ \E len \in Lengths : SetString(ns, k, len, ex)
          \/ \E size \in Sizes : SetArray(ns, k, size, ex)
          \/ \E d \in Deltas : IncInt(ns, k, d, ex)
          \/ IncFloat(ns, k, ex)
          \/ SetExpire(ns, k, ex)
  BY DEF Write
<1>2. ex \in Expiration BY Arguments
<1>3. limits.maxString \in Int /\ limits.maxArray \in Int /\ now \in Nat
  BY DEF KVInv, RestTypeOK, EngineTypeOK, Limits
<1>4. CASE \E v \in Cells : SetInt(ns, k, v, ex)
  BY <1>2, <1>4, Arguments, SetScalarGrows DEF SetInt
<1>5. CASE SetFloat(ns, k, ex)
  BY <1>2, <1>5, SetScalarGrows DEF SetFloat
<1>6. CASE \E len \in Lengths : SetString(ns, k, len, ex)
  <2>1. PICK len \in Lengths : SetString(ns, k, len, ex) BY <1>6
  <2>2. Lesser(len, limits.maxString) \in Int BY <1>3, Arguments DEF Lesser
  <2> QED BY <1>2, <2>1, <2>2, SetDynamicGrows DEF SetString
<1>7. CASE \E size \in Sizes : SetArray(ns, k, size, ex)
  <2>1. PICK size \in Sizes : SetArray(ns, k, size, ex) BY <1>7
  <2>2. Lesser(size, limits.maxArray) \in Int BY <1>3, Arguments DEF Lesser
  <2> QED BY <1>2, <2>1, <2>2, SetDynamicGrows DEF SetArray
<1>8. CASE \E d \in Deltas : IncInt(ns, k, d, ex)
  <2>1. PICK d \in Deltas : IncInt(ns, k, d, ex) BY <1>8
  <2>2. Current(ns, k) \in Entry BY CurrentSound DEF KVInv
  <2>3. Current(ns, k).n + d \in Int BY <2>2, Arguments DEF Entry
  <2>4. WrapCell(Current(ns, k).n + d) \in Int BY <2>3, WrapCellIsCell
  <2> QED BY <1>2, <2>1, <2>4, Arguments, IncrementGrows DEF IncInt
<1>9. CASE IncFloat(ns, k, ex)
  BY <1>2, <1>9, IncrementGrows DEF IncFloat
<1>10. CASE SetExpire(ns, k, ex)
  <2>1. CASE Fail BY <2>1, StoreSpared DEF Fail
  <2>2. CASE ~Fail
    <3>1. Present(ns, k) /\ Put(ns, k, WithExpiration(entries[ns][k], ex, now))
      BY <1>10, <2>2 DEF SetExpire
    <3>2. WithExpiration(entries[ns][k], ex, now) \in Entry
      BY <1>2, <1>3, <3>1, LiveEntry, ExpirationSound
    <3> QED BY <3>1, <3>2, PutGrows DEF KVInv
  <2> QED BY <2>1, <2>2
<1> QED BY <1>1, <1>4, <1>5, <1>6, <1>7, <1>8, <1>9, <1>10

LEMMA ReadShrinks ==
    ASSUME KVInv, NEW ns \in NS, NEW k \in Key, NEW reclaims, NEW answer,
           Read(ns, k, reclaims, answer)
    PROVE  Shrinks /\ SparesLive
<1>1. CASE UNCHANGED store BY <1>1, StoreSpared
<1>2. CASE Expired(ns, k) /\ Erase(ns, {k}, Invalidated(ns))
  <2>1. {k} \cap LiveKeys(ns) = {} BY <1>2 DEF Expired, LiveKeys, Live
  <2> QED BY <1>2, <2>1, EraseShrinks DEF KVInv
<1> QED BY <1>1, <1>2 DEF Read, Fail

LEMMA GetShrinks ==
    ASSUME KVInv, NEW ns \in NS, NEW k \in Key, Get(ns, k)
    PROVE  Shrinks /\ SparesLive
<1>1. CASE GetTTL(ns, k) BY <1>1, StoreSpared DEF GetTTL
<1>2. CASE ~GetTTL(ns, k)
  BY <1>2, ReadShrinks
     DEF Get, GetInt, GetFloat, GetString, GetArray, GetArraySize, GetKeyType, KeyExists
<1> QED BY <1>1, <1>2

LEMMA EnumerateShrinks ==
    ASSUME KVInv, NEW ns \in NS, Enumerate(ns)
    PROVE  Shrinks /\ SparesLive
<1> DEFINE gone == Keys(ns) \ LiveKeys(ns)
<1>1. gone \in SUBSET Key /\ gone \cap LiveKeys(ns) = {} BY DEF Keys
<1>2. ASSUME NEW cache, Erase(ns, gone, cache) PROVE Shrinks /\ SparesLive
  <2> HIDE DEF gone
  <2> QED BY <1>1, <1>2, EraseShrinks DEF KVInv
<1>3. CASE UNCHANGED store BY <1>3, StoreSpared
<1>4. CASE GetNamespaceCount(ns)
  BY <1>2, <1>3, <1>4 DEF GetNamespaceCount
<1>5. CASE GetActiveKeys(ns)
  BY <1>2, <1>3, <1>5 DEF GetActiveKeys
<1>6. ASSUME NEW i \in Indexes, GetKeyAt(ns, i) PROVE Shrinks /\ SparesLive
  <2>1. CASE LiveKeys(ns) = {} /\ Erase(ns, Key, NoCache)
    BY <2>1, EraseShrinks DEF KVInv
  <2> QED BY <1>2, <1>3, <1>6, <2>1 DEF GetKeyAt, Fail
<1> QED BY <1>4, <1>5, <1>6 DEF Enumerate

\* One map change adds nothing.
LEMMA SweepRemoves ==
    ASSUME KVInv, SweepMapEnd, NEW ns \in NS, NEW k \in Key, Present(ns, k)'
    PROVE  Present(ns, k)
BY DEF SweepMapEnd, Present

LEMMA RemovalShrinks ==
    ASSUME KVInv, Removal
    PROVE  Shrinks
<1>1. CASE ClearAll \/ HeapAbort
  BY <1>1 DEF ClearAll, HeapAbort, Shrinks, Present, NoEntries
<1>2. CASE SweepMapEnd
  <2>1. namespaces' \subseteq namespaces BY <1>2 DEF SweepMapEnd
  <2> QED BY <1>2, <2>1, SweepRemoves DEF Shrinks
<1>3. ASSUME NEW ns \in NS, ClearNamespace(ns) PROVE Shrinks
  BY <1>3, EraseShrinks, StoreSpared DEF ClearNamespace, Fail, KVInv
<1>4. ASSUME NEW ns \in NS, NEW k \in Key, DeleteKey(ns, k) PROVE Shrinks
  BY <1>4, EraseShrinks, StoreSpared DEF DeleteKey, Fail, KVInv
<1> QED BY <1>1, <1>2, <1>3, <1>4 DEF Removal

\* Every step is one of three kinds.
LEMMA StepKinds ==
    ASSUME KVInv, [KVNext]_kvSpecVars
    PROVE  \/ \E ns \in NS, k \in Key : Grows(ns, k)
           \/ Shrinks /\ SparesLive
           \/ Shrinks /\ Removal
<1>1. ASSUME NEW ns \in NS, NEW k \in Key, Write(ns, k)
      PROVE  Grows(ns, k) \/ (Shrinks /\ SparesLive)
  BY <1>1, WriteGrows
<1>2. ASSUME NEW ns \in NS, NEW k \in Key, Get(ns, k) PROVE Shrinks /\ SparesLive
  BY <1>2, GetShrinks
<1>3. ASSUME NEW ns \in NS, Enumerate(ns) PROVE Shrinks /\ SparesLive
  BY <1>3, EnumerateShrinks
<1>4. ASSUME Removal PROVE Shrinks BY <1>4, RemovalShrinks
<1>5. CASE (\E a \in LimitArgs : SetLimits(a)) \/ Tick \/ UNCHANGED kvSpecVars
  <2>1. UNCHANGED store BY <1>5 DEF SetLimits, Tick, kvSpecVars, kvVars, store
  <2> QED BY <2>1, StoreSpared
<1> QED BY <1>1, <1>2, <1>3, <1>4, <1>5 DEF KVNext, Removal

LEMMA GrowsWithinLimits ==
    ASSUME KVInv, NEW ns \in NS, NEW k \in Key, Grows(ns, k)
    PROVE  /\ Cardinality(namespaces') > Cardinality(namespaces) =>
                  Cardinality(namespaces') <= limits.maxNs
           /\ \A m \in NS : Cardinality(Keys(m)') > Cardinality(Keys(m)) =>
                  Cardinality(Keys(m)') <= limits.maxKeys
<1>1. IsFiniteSet(namespaces) /\ Cardinality(namespaces) \in Nat
  BY EngineAssumption, FS_Subset, FS_CardinalityType DEF KVInv, StoreInv, StoreTypeOK
<1>2. IsFiniteSet(Keys(ns)) /\ Cardinality(Keys(ns)) \in Nat
  <2>1. Keys(ns) \in SUBSET Key BY DEF Keys
  <2> QED BY <2>1, EngineAssumption, FS_Subset, FS_CardinalityType
<1>3. limits.maxNs \in Nat \ {0} /\ limits.maxKeys \in Nat \ {0}
  BY DEF KVInv, RestTypeOK, EngineTypeOK, Limits
<1>4. ns \notin namespaces => Keys(ns) = {}
  BY DEF KVInv, StoreInv, NoEmptyNamespace
<1>5. Cardinality({}) = 0 BY FS_EmptySet
<1>6. Cardinality(namespaces') > Cardinality(namespaces) =>
          Cardinality(namespaces') <= limits.maxNs
  <2>1. Cardinality(namespaces') =
            IF ns \in namespaces THEN Cardinality(namespaces) ELSE Cardinality(namespaces) + 1
    BY <1>1, FS_AddElement DEF Grows
  <2>2. ns \notin namespaces => Cardinality(namespaces) < limits.maxNs
    BY <1>4 DEF Grows, MayHold, Keys
  <2> QED BY <1>1, <1>3, <2>1, <2>2
<1>7. ASSUME NEW m \in NS, Cardinality(Keys(m)') > Cardinality(Keys(m))
      PROVE  Cardinality(Keys(m)') <= limits.maxKeys
  <2>1. Keys(m)' = IF m = ns THEN Keys(ns) \cup {k} ELSE Keys(m)
    BY DEF Grows, Keys
  <2>2. CASE m # ns
    <3>1. Cardinality(Keys(m)) \in Nat
      <4>1. Keys(m) \in SUBSET Key BY DEF Keys
      <4> QED BY <4>1, EngineAssumption, FS_Subset, FS_CardinalityType
    <3> QED BY <1>7, <2>1, <2>2, <3>1
  <2>3. CASE m = ns
    <3>1. Cardinality(Keys(m)') =
              IF k \in Keys(ns) THEN Cardinality(Keys(ns)) ELSE Cardinality(Keys(ns)) + 1
      BY <1>2, <2>1, <2>3, FS_AddElement
    <3>2. ~Present(ns, k)
      BY <1>2, <1>7, <2>3, <3>1 DEF Keys
    <3>3. CASE ns \in namespaces
      <4>1. Cardinality(Keys(ns)) < limits.maxKeys BY <3>2, <3>3 DEF Grows, MayHold
      <4> QED BY <1>2, <1>3, <3>1, <4>1
    <3>4. CASE ns \notin namespaces
      BY <1>3, <1>4, <1>5, <3>1, <3>4
    <3> QED BY <3>3, <3>4
  <2> QED BY <2>2, <2>3
<1> QED BY <1>6, <1>7

LEMMA ShrinksWithinLimits ==
    ASSUME KVInv, Shrinks
    PROVE  /\ ~(Cardinality(namespaces') > Cardinality(namespaces))
           /\ \A m \in NS : ~(Cardinality(Keys(m)') > Cardinality(Keys(m)))
<1>1. /\ IsFiniteSet(namespaces) /\ Cardinality(namespaces) \in Nat
      /\ namespaces' \in SUBSET namespaces
  BY EngineAssumption, FS_Subset, FS_CardinalityType
     DEF Shrinks, KVInv, StoreInv, StoreTypeOK
<1>2. Cardinality(namespaces') \in Nat /\ Cardinality(namespaces') <= Cardinality(namespaces)
  BY <1>1, FS_Subset, FS_CardinalityType
<1>3. ASSUME NEW m \in NS PROVE ~(Cardinality(Keys(m)') > Cardinality(Keys(m)))
  <2>1. Keys(m) \in SUBSET Key /\ Keys(m)' \in SUBSET Keys(m) BY DEF Keys, Shrinks
  <2>2. IsFiniteSet(Keys(m)) /\ Cardinality(Keys(m)) \in Nat
    BY <2>1, EngineAssumption, FS_Subset, FS_CardinalityType
  <2>3. Cardinality(Keys(m)') \in Nat /\ Cardinality(Keys(m)') <= Cardinality(Keys(m))
    BY <2>1, <2>2, FS_Subset, FS_CardinalityType
  <2> QED BY <2>2, <2>3
<1> QED BY <1>1, <1>2, <1>3

-----------------------------------------------------------------------------
(* The memory account.  A payload weighs its bytes; the account covers the  *)
(* weight of the whole store, and neither it nor a quota exceeds top.       *)

Places == NS \X Key

Weight(E) ==
    [s \in Places |-> IF E[s[1]][s[2]] = Absent THEN 0 ELSE Bytes(E[s[1]][s[2]])]

Total(E) == Sum(Weight(E), Places)

\* Only an integer may be negative.
Sized(e) == e.type \in {"String", "Array"} => e.n \in Nat

AccountInv(top) ==
    /\ \A ns \in NS, k \in Key : Present(ns, k) => Sized(entries[ns][k])
    /\ Total(entries) <= used
    /\ used <= top /\ limits.maxMem <= top

\* A step that keeps the invariant and does not grow the account past the quota.
AccountKept(top) == AccountInv(top)' /\ (used' > used => used' <= limits.maxMem)

LEMMA BytesNat ==
    ASSUME NEW e \in Entry, Sized(e)
    PROVE  Bytes(e) \in Nat
<1>1. e.n \in Nat => e.n * CellBytes \in Nat BY KVAssumption
<1> QED BY <1>1 DEF Bytes, Sized

LEMMA PlacesFinite == IsFiniteSet(Places)
BY EngineAssumption, FS_Product DEF Places

LEMMA WeightAt ==
    ASSUME NEW E, NEW ns \in NS, NEW k \in Key
    PROVE  /\ <<ns, k>> \in Places
           /\ Weight(E)[<<ns, k>>] = IF E[ns][k] = Absent THEN 0 ELSE Bytes(E[ns][k])
BY DEF Weight, Places

LEMMA WeightsNat ==
    ASSUME NEW E \in [NS -> [Key -> Entry \cup {Absent}]],
           \A ns \in NS, k \in Key : E[ns][k] # Absent => Sized(E[ns][k])
    PROVE  /\ \A s \in Places : Weight(E)[s] \in Nat
           /\ Total(E) \in Nat
<1>1. ASSUME NEW ns \in NS, NEW k \in Key PROVE Weight(E)[<<ns, k>>] \in Nat
  <2>1. E[ns][k] # Absent => Bytes(E[ns][k]) \in Nat
    <3>1. E[ns][k] \in Entry \cup {Absent} OBVIOUS
    <3> QED BY <3>1, BytesNat
  <2> QED BY <2>1, WeightAt
<1>2. \A s \in Places : Weight(E)[s] \in Nat
  <2> SUFFICES ASSUME NEW s \in Places PROVE Weight(E)[s] \in Nat OBVIOUS
  <2>1. PICK ns \in NS, k \in Key : s = <<ns, k>> BY DEF Places
  <2> QED BY <1>1, <2>1
<1> QED BY <1>2, PlacesFinite, BytesOfFinite DEF Total

\* What the account weighs is what the invariant weighs.
LEMMA BytesAtSum ==
    ASSUME NEW S \in SUBSET Places, \A s \in S : Present(s[1], s[2])
    PROVE  BytesAt(S) = Sum(Weight(entries), S)
<1>1. \A s \in S : Weight(entries)[s] = Bytes(entries[s[1]][s[2]])
  BY DEF Weight, Present
<1>2. PayloadAt(S) = BytesOf(Weight(entries), S)
  <2>1. \A x : x \in PayloadAt(S) <=> \E s \in S : \E i \in 1..Bytes(entries[s[1]][s[2]]) : x = <<s, i>>
    BY DEF PayloadAt
  <2>2. \A x : x \in PayloadAt(S) <=> x \in BytesOf(Weight(entries), S)
    BY <1>1, <2>1, InBytesOf
  <2> QED BY <2>2
<1> QED BY <1>2 DEF BytesAt, Sum

LEMMA AccountCovers ==
    ASSUME KVInv, NEW top, AccountInv(top)
    PROVE  UsedCoversPayload
<1> DEFINE S == {s \in NS \X Key : Present(s[1], s[2])}
<1>1. S \in SUBSET Places /\ \A s \in S : Present(s[1], s[2]) BY DEF Places
<1>2. \A s \in Places : Weight(entries)[s] \in Nat
  BY WeightsNat DEF KVInv, StoreInv, StoreTypeOK, AccountInv, Present
<1> HIDE DEF S
<1>3. BytesAt(S) = Sum(Weight(entries), S) BY <1>1, BytesAtSum
<1>4. \A s \in S : Weight(entries)[s] \in Nat /\ Weight(entries)[s] <= Weight(entries)[s]
  BY <1>1, <1>2
<1>5. Sum(Weight(entries), S) <= Total(entries)
  BY <1>1, <1>2, <1>4, PlacesFinite, SumMonotone DEF Total
<1>6. Sum(Weight(entries), S) \in Nat /\ Total(entries) \in Nat
  <2>1. IsFiniteSet(S) BY <1>1, PlacesFinite, FS_Subset
  <2> QED BY <2>1, <1>2, <1>4, PlacesFinite, BytesOfFinite DEF Total
<1>7. used \in Int /\ Total(entries) <= used
  BY EngineAssumption DEF KVInv, RestTypeOK, AccountInv
<1>8. BytesAt(S) <= used BY <1>3, <1>5, <1>6, <1>7
<1> QED BY <1>8 DEF S, UsedCoversPayload

\* Giving back bytes the account holds is exact.
LEMMA Released ==
    ASSUME used \in 0..(SizeMod - 1), NEW old \in 0..used
    PROVE  Account(old, 0) = used - old
<1>1. used \in Nat /\ old \in Nat /\ SizeMod \in Nat \ {0} /\ used - old \in 0..(SizeMod - 1)
  BY EngineAssumption
<1>2. \A x \in Nat, m \in Nat \ {0} : x < m => x % m = x OBVIOUS
<1>3. Monus(used, old) = used - old BY DEF Monus
<1>4. Account(old, 0) = (used - old) % SizeMod BY <1>1, <1>3 DEF Account
<1> QED BY <1>1, <1>2, <1>4

\* The payload a setter replaces.
LEMMA CurrentWeight ==
    ASSUME KVInv, NEW top \in Nat, AccountInv(top), NEW ns \in NS, NEW k \in Key
    PROVE  /\ Current(ns, k) \in Entry /\ Sized(Current(ns, k))
           /\ Bytes(Current(ns, k)) = Weight(entries)[<<ns, k>>]
           /\ Bytes(Current(ns, k)) \in 0..used
           /\ used \in Nat /\ used < SizeMod
<1>1. used \in Nat /\ used < SizeMod BY EngineAssumption DEF KVInv, RestTypeOK
<1>2. Sized(Current(ns, k)) BY DEF Current, FreshEntry, Sized, AccountInv
<1>3. Bytes(Current(ns, k)) = Weight(entries)[<<ns, k>>]
  BY WeightAt DEF Current, Present, FreshEntry, Bytes
<1>4. /\ \A s \in Places : Weight(entries)[s] \in Nat
      /\ Total(entries) \in Nat
  BY WeightsNat DEF KVInv, StoreInv, StoreTypeOK, AccountInv, Present
<1>5. <<ns, k>> \in Places BY WeightAt
<1>6. Weight(entries)[<<ns, k>>] <= Total(entries)
  <2> DEFINE w == Weight(entries)
  <2>1. \A s \in Places \ {<<ns, k>>} : w[s] = w[s] OBVIOUS
  <2> HIDE DEF w
  <2>2. \A s \in Places : w[s] \in Nat BY <1>4 DEF w
  <2>3. w[<<ns, k>>] <= Sum(w, Places) BY <1>5, <2>1, <2>2, PlacesFinite, SumChange
  <2> QED BY <2>3 DEF w, Total
<1>7. Weight(entries)[<<ns, k>>] \in Nat BY <1>4, <1>5
<1>8. Bytes(Current(ns, k)) \in 0..used BY <1>1, <1>3, <1>4, <1>6, <1>7 DEF AccountInv
<1>9. Current(ns, k) \in Entry BY CurrentSound DEF KVInv
<1> QED BY <1>1, <1>2, <1>3, <1>8, <1>9

\* An entry is written and the account moves by the difference in bytes.
LEMMA PutAccount ==
    ASSUME KVInv, NEW top \in Nat, AccountInv(top), NEW ns \in NS, NEW k \in Key,
           NEW e \in Entry, Sized(e), Put(ns, k, e), limits' = limits,
           used' = used - Bytes(Current(ns, k)) + Bytes(e), used' <= top
    PROVE  AccountInv(top)'
<1>1. entries \in [NS -> [Key -> Entry \cup {Absent}]]
  BY DEF KVInv, StoreInv, StoreTypeOK
<1>2. entries' = [entries EXCEPT ![ns][k] = e] BY DEF Put
<1>3. \A m \in NS, j \in Key :
          entries'[m][j] = IF m = ns /\ j = k THEN e ELSE entries[m][j]
  BY <1>1, <1>2
<1>4. entries' \in [NS -> [Key -> Entry \cup {Absent}]] BY <1>1, <1>2
<1>5. e # Absent BY KVMarkers
<1>6. \A m \in NS, j \in Key : Present(m, j)' => Sized(entries'[m][j])
  BY <1>3 DEF AccountInv, Present
<1> DEFINE w == Weight(entries)
           v == Weight(entries')
           z == <<ns, k>>
<1>7. z \in Places /\ v[z] = Bytes(e) /\ w[z] = Bytes(Current(ns, k))
  BY <1>3, <1>5, WeightAt, CurrentWeight
<1>8. (\A s \in Places : w[s] \in Nat) /\ Total(entries) \in Nat
  BY <1>1, WeightsNat DEF AccountInv, Present
<1>9. (\A s \in Places : v[s] \in Nat) /\ Total(entries') \in Nat
  BY <1>4, <1>6, WeightsNat DEF Present
<1>10. ASSUME NEW s \in Places \ {z} PROVE v[s] = w[s]
  <2>1. PICK m \in NS, j \in Key : s = <<m, j>> BY DEF Places
  <2>2. entries'[m][j] = entries[m][j] BY <1>3, <2>1
  <2> QED BY <2>1, <2>2, WeightAt
<1> HIDE DEF w, v, z
<1>11. Sum(v, Places) = Sum(w, Places) - w[z] + v[z]
  BY <1>7, <1>8, <1>9, <1>10, PlacesFinite, SumChange
<1>12. Total(entries') = Total(entries) - Bytes(Current(ns, k)) + Bytes(e)
  BY <1>7, <1>11 DEF Total, w, v
<1>13. Bytes(e) \in Nat /\ Bytes(Current(ns, k)) \in Nat /\ used \in Nat
  BY BytesNat, CurrentWeight
<1>14. Total(entries') <= used' BY <1>8, <1>12, <1>13 DEF AccountInv
<1> QED BY <1>6, <1>14 DEF AccountInv

\* Entries go, and the account gives back their bytes or none.
LEMMA DropAccount ==
    ASSUME KVInv, NEW top \in Nat, AccountInv(top), NEW G \in SUBSET Places,
           entries' \in [NS -> [Key -> Entry \cup {Absent}]],
           \A ns \in NS, k \in Key : Present(ns, k)' => Sized(entries'[ns][k]),
           \A ns \in NS, k \in Key :
               Weight(entries')[<<ns, k>>] =
                   IF <<ns, k>> \in G THEN 0 ELSE Weight(entries)[<<ns, k>>],
           used' \in {used, Account(Sum(Weight(entries), G), 0)},
           limits' = limits
    PROVE  AccountKept(top)
<1> DEFINE w == Weight(entries)
           v == Weight(entries')
<1>1. (\A s \in Places : w[s] \in Nat) /\ Total(entries) \in Nat
  BY WeightsNat DEF AccountInv, Present, KVInv, StoreInv, StoreTypeOK
<1>2. ASSUME NEW s \in Places PROVE v[s] = IF s \in G THEN 0 ELSE w[s]
  <2>1. PICK m \in NS, j \in Key : s = <<m, j>> BY DEF Places
  <2> QED BY <2>1
<1> HIDE DEF w, v
<1>3. /\ Sum(v, Places) = Sum(w, Places) - Sum(w, G)
      /\ Sum(w, G) <= Sum(w, Places) /\ Sum(w, G) \in Nat
  BY <1>1, <1>2, PlacesFinite, SumRelease
<1>4. used \in 0..(SizeMod - 1) /\ used \in Nat
  BY EngineAssumption DEF KVInv, RestTypeOK
<1>5. Sum(w, G) \in 0..used BY <1>1, <1>3, <1>4 DEF AccountInv, Total, w
<1>6. Account(Sum(w, G), 0) = used - Sum(w, G) BY <1>4, <1>5, Released
<1>7. used' \in {used, used - Sum(w, G)} BY <1>6 DEF w
<1>8. Total(entries') = Total(entries) - Sum(w, G) BY <1>3 DEF Total, w, v
<1>9. used' <= used /\ used' \in Int BY <1>3, <1>4, <1>7
<1>10. Total(entries') <= used' BY <1>1, <1>3, <1>4, <1>7, <1>8 DEF AccountInv
<1>11. used' <= top BY <1>4, <1>9 DEF AccountInv
<1> QED BY <1>4, <1>9, <1>10, <1>11 DEF AccountInv, AccountKept

LEMMA EraseAccount ==
    ASSUME KVInv, NEW top \in Nat, AccountInv(top),
           NEW ns \in NS, NEW gone \in SUBSET Key, NEW cache, Erase(ns, gone, cache),
           limits' = limits,
           used' \in {used, Account(Sum(Weight(entries), {ns} \X (gone \cap Keys(ns))), 0)}
    PROVE  AccountKept(top)
<1> DEFINE G == {ns} \X (gone \cap Keys(ns))
<1>1. entries \in [NS -> [Key -> Entry \cup {Absent}]]
  BY DEF KVInv, StoreInv, StoreTypeOK
<1>2. entries' = [entries EXCEPT ![ns] =
                     [k \in Key |-> IF k \in gone THEN Absent ELSE @[k]]]
  BY DEF Erase
<1>3. \A m \in NS, j \in Key :
          entries'[m][j] = IF m = ns /\ j \in gone THEN Absent ELSE entries[m][j]
  BY <1>1, <1>2
<1>4. entries' \in [NS -> [Key -> Entry \cup {Absent}]] BY <1>1, <1>2
<1>5. G \in SUBSET Places BY DEF Places
<1>6. \A m \in NS, j \in Key : Present(m, j)' => Sized(entries'[m][j])
  BY <1>3 DEF AccountInv, Present
<1>7. ASSUME NEW m \in NS, NEW j \in Key
      PROVE  Weight(entries')[<<m, j>>] =
                 IF <<m, j>> \in G THEN 0 ELSE Weight(entries)[<<m, j>>]
  <2>1. <<m, j>> \in G <=> m = ns /\ j \in gone /\ entries[m][j] # Absent
    BY DEF Keys, Present
  <2> HIDE DEF G
  <2> QED BY <1>3, <2>1, WeightAt
<1> HIDE DEF G
<1>8. used' \in {used, Account(Sum(Weight(entries), G), 0)} BY DEF G
<1> QED BY <1>4, <1>5, <1>6, <1>7, <1>8, DropAccount

\* One key goes.
LEMMA EraseKeyAccount ==
    ASSUME KVInv, NEW top \in Nat, AccountInv(top),
           NEW ns \in NS, NEW k \in Key, Present(ns, k), NEW cache, Erase(ns, {k}, cache),
           limits' = limits,
           used' \in {used, Account(Bytes(entries[ns][k]), 0)}
    PROVE  AccountKept(top)
<1>1. {ns} \X ({k} \cap Keys(ns)) = {<<ns, k>>} BY DEF Keys
<1>2. Weight(entries)[<<ns, k>>] = Bytes(entries[ns][k]) BY WeightAt DEF Present
<1>3. Weight(entries)[<<ns, k>>] \in Nat
  BY CurrentWeight DEF Current
<1>4. Sum(Weight(entries), {<<ns, k>>}) = Bytes(entries[ns][k]) BY <1>2, <1>3, SumOne
<1>5. used' \in {used, Account(Sum(Weight(entries), {ns} \X ({k} \cap Keys(ns))), 0)}
  BY <1>1, <1>4
<1> QED BY <1>5, EraseAccount

LEMMA StillAccount ==
    ASSUME KVInv, NEW top \in Nat, AccountInv(top), entries' = entries, used' = used,
           limits'.maxMem <= top
    PROVE  AccountKept(top)
<1>1. used \in Int BY EngineAssumption DEF KVInv, RestTypeOK
<1> QED BY <1>1 DEF AccountInv, AccountKept, Present

\* A write that needs no new bytes.
LEMMA ScalarAccount ==
    ASSUME KVInv, NEW top \in Nat, AccountInv(top), NEW ns \in NS, NEW k \in Key,
           NEW e \in Entry, Sized(e), Put(ns, k, e), limits' = limits,
           \/ Bytes(e) = 0 /\ used' = Account(Bytes(Current(ns, k)), 0)
           \/ Bytes(e) = Bytes(Current(ns, k)) /\ used' = used
    PROVE  AccountKept(top)
<1> DEFINE old == Bytes(Current(ns, k))
<1>1. used \in Nat /\ old \in 0..used BY CurrentWeight
<1>2. Account(old, 0) = used - old BY CurrentWeight, Released DEF KVInv, RestTypeOK
<1>3. used' = used - old + Bytes(e) /\ used' <= used
  <2> HIDE DEF old
  <2>1. CASE Bytes(e) = 0 /\ used' = Account(old, 0) BY <1>1, <1>2, <2>1
  <2>2. CASE Bytes(e) = old /\ used' = used BY <1>1, <2>2
  <2> QED BY <2>1, <2>2 DEF old
<1>4. used <= top /\ used' \in Int
  BY <1>1, <1>3, BytesNat DEF AccountInv
<1>5. used' <= top
  <2> HIDE DEF old
  <2> QED BY <1>1, <1>3, <1>4
<1>6. AccountInv(top)' BY <1>3, <1>5, PutAccount
<1>7. ~(used' > used)
  <2> HIDE DEF old
  <2> QED BY <1>1, <1>3, <1>4
<1> QED BY <1>6, <1>7 DEF AccountKept

\* A payload the quota admits: it fits on top of what the others weigh.
LEMMA DynamicAccount ==
    ASSUME KVInv, NEW top \in Nat, AccountInv(top), NEW ns \in NS, NEW k \in Key,
           NEW type \in {"String", "Array"}, NEW n \in Nat, NEW ex \in Expiration,
           SetDynamic(ns, k, type, n, ex),
           top + Bytes(NewEntry(type, n, ex)) < SizeMod
    PROVE  AccountKept(top)
<1> DEFINE e == NewEntry(type, n, ex)
           old == Bytes(Current(ns, k))
<1>1. limits' = limits /\ limits.maxMem <= top BY DEF SetDynamic, AccountInv
<1>2. e \in Entry /\ e.n = n /\ Sized(e)
  BY NewEntrySound DEF EntryType, NewEntry, Sized, KVInv, RestTypeOK, EngineTypeOK
<1>3. Bytes(e) \in Nat BY <1>2, BytesNat
<1>4. old \in 0..used /\ used \in Nat /\ used <= top BY CurrentWeight DEF AccountInv
<1>5. limits.maxMem \in Nat /\ SizeMod \in Nat \ {0}
  BY EngineAssumption DEF KVInv, RestTypeOK, EngineTypeOK, Limits
<1>6. CASE Fail
  BY <1>1, <1>6, StillAccount DEF Fail, store
<1>7. CASE Put(ns, k, Current(ns, k)) /\ UNCHANGED <<caches, used>>
  BY <1>1, <1>7, CurrentWeight, ScalarAccount
<1>8. CASE ~OverQuota(old, Bytes(e)) /\ Put(ns, k, e) /\ used' = Account(old, Bytes(e))
  <2> HIDE DEF e, old
  <2>1. \A x \in Nat, m \in Nat \ {0} : x < m => x % m = x OBVIOUS
  <2>2. /\ used - old + Bytes(e) \in Nat /\ used + Bytes(e) - old \in Nat
        /\ used - old + Bytes(e) = used + Bytes(e) - old
        /\ used + Bytes(e) - old < SizeMod
    BY <1>3, <1>4, <1>5 DEF e
  <2>3. (used + Bytes(e) - old) % SizeMod = used + Bytes(e) - old BY <1>5, <2>1, <2>2
  <2>4. used + Bytes(e) - old <= limits.maxMem BY <1>5, <1>8, <2>2, <2>3 DEF OverQuota
  <2>5. Monus(used, old) = used - old BY <1>4 DEF Monus
  <2>6. used' = used - old + Bytes(e) BY <1>8, <2>2, <2>3, <2>5 DEF Account
  <2>7. used' <= limits.maxMem /\ used' <= top BY <1>1, <1>5, <2>2, <2>4, <2>6
  <2>8. AccountInv(top)' BY <1>1, <1>2, <1>8, <2>6, <2>7, PutAccount DEF old
  <2> QED BY <2>7, <2>8 DEF AccountKept
<1> QED BY <1>6, <1>7, <1>8 DEF SetDynamic

LEMMA SetScalarAccount ==
    ASSUME KVInv, NEW top \in Nat, AccountInv(top), NEW ns \in NS, NEW k \in Key,
           NEW type \in {"Int", "Float"}, NEW n \in Int, NEW ex \in Expiration,
           NEW result, SetScalar(ns, k, type, n, ex, result)
    PROVE  AccountKept(top)
<1> DEFINE e == NewEntry(type, n, ex)
<1>1. limits' = limits /\ limits.maxMem <= top BY DEF SetScalar, AccountInv
<1>2. e \in Entry /\ Sized(e) /\ Bytes(e) = 0
  BY NewEntrySound
     DEF EntryType, NewEntry, Sized, Bytes, KVInv, RestTypeOK, EngineTypeOK
<1>3. CASE Fail BY <1>1, <1>3, StillAccount DEF Fail, store
<1>4. CASE Put(ns, k, e) /\ used' = Account(Bytes(Current(ns, k)), 0)
  <2> HIDE DEF e
  <2> QED BY <1>1, <1>2, <1>4, ScalarAccount
<1> QED BY <1>3, <1>4 DEF SetScalar

LEMMA IncrementAccount ==
    ASSUME KVInv, NEW top \in Nat, AccountInv(top), NEW ns \in NS, NEW k \in Key,
           NEW type \in {"Int", "Float"}, NEW delta \in Int, NEW sum \in Int,
           NEW ex \in Expiration, Increment(ns, k, type, delta, sum, ex)
    PROVE  AccountKept(top)
<1>1. now \in Nat /\ limits.maxMem <= top
  BY DEF KVInv, RestTypeOK, EngineTypeOK, AccountInv
<1>2. CASE SetScalar(ns, k, type, delta, ex, Ret(TRUE, delta, <<>>))
  BY <1>2, SetScalarAccount
<1>3. CASE /\ Expired(ns, k) /\ Put(ns, k, NewEntry(type, delta, ex))
           /\ used' = Account(Bytes(entries[ns][k]), 0) /\ limits' = limits
  <2> DEFINE e == NewEntry(type, delta, ex)
  <2>1. e \in Entry /\ Sized(e) /\ Bytes(e) = 0
    BY <1>1, NewEntrySound DEF EntryType, NewEntry, Sized, Bytes
  <2>2. Current(ns, k) = entries[ns][k] BY <1>3 DEF Expired, Current
  <2> HIDE DEF e
  <2>3. Put(ns, k, e) BY <1>3 DEF e
  <2> QED BY <1>3, <2>1, <2>2, <2>3, ScalarAccount
<1>4. CASE Fail /\ limits' = limits BY <1>1, <1>4, StillAccount DEF Fail, store
<1>5. CASE /\ Live(ns, k) /\ entries[ns][k].type = type
           /\ LET e == [entries[ns][k] EXCEPT !.n = sum]
              IN  Put(ns, k, IF RenewsExpiry(ex) THEN WithExpiration(e, ex, now) ELSE e)
           /\ used' = used /\ limits' = limits
  <2> DEFINE e == [entries[ns][k] EXCEPT !.n = sum]
             f == IF RenewsExpiry(ex) THEN WithExpiration(e, ex, now) ELSE e
  <2>1. Present(ns, k) /\ entries[ns][k] \in Entry BY <1>5, LiveEntry DEF Live
  <2>2. e \in Entry /\ e.type = type BY <1>5, <2>1 DEF Entry
  <2> HIDE DEF e
  <2>3. f \in Entry /\ f.type = type BY <1>1, <2>2, ExpirationSound
  <2>4. Put(ns, k, f) BY <1>5 DEF e
  <2> HIDE DEF f
  <2>5. Sized(f) /\ Bytes(f) = 0 BY <2>3 DEF Sized, Bytes
  <2>6. Bytes(Current(ns, k)) = 0 BY <1>5, <2>1 DEF Current, Bytes
  <2> QED BY <1>5, <2>3, <2>4, <2>5, <2>6, ScalarAccount
<1> QED BY <1>2, <1>3, <1>4, <1>5 DEF Increment

LEMMA SetExpireAccount ==
    ASSUME KVInv, NEW top \in Nat, AccountInv(top), NEW ns \in NS, NEW k \in Key,
           NEW ex \in Expiration, SetExpire(ns, k, ex)
    PROVE  AccountKept(top)
<1>1. limits' = limits /\ limits.maxMem <= top /\ now \in Nat
  BY DEF SetExpire, AccountInv, KVInv, RestTypeOK, EngineTypeOK
<1>2. CASE Fail BY <1>1, <1>2, StillAccount DEF Fail, store
<1>3. CASE /\ Present(ns, k) /\ Put(ns, k, WithExpiration(entries[ns][k], ex, now))
           /\ used' = used
  <2> DEFINE e == entries[ns][k]
             f == WithExpiration(e, ex, now)
  <2>1. e \in Entry /\ Sized(e) BY <1>3, LiveEntry DEF AccountInv
  <2>2. f \in Entry /\ f.type = e.type BY <1>1, <2>1, ExpirationSound
  <2>3. f.n = e.n BY <2>1 DEF WithExpiration, Entry
  <2>4. Current(ns, k) = e BY <1>3 DEF Current
  <2>5. Put(ns, k, f) BY <1>3
  <2> HIDE DEF e, f
  <2>6. Sized(f) /\ Bytes(f) = Bytes(e) BY <2>1, <2>2, <2>3 DEF Sized, Bytes
  <2> QED BY <1>1, <1>3, <2>2, <2>4, <2>5, <2>6, ScalarAccount
<1> QED BY <1>2, <1>3 DEF SetExpire

LEMMA WriteAccount ==
    ASSUME KVInv, NEW top \in Nat, QuotasFit(top), AccountInv(top),
           NEW ns \in NS, NEW k \in Key, Write(ns, k)
    PROVE  AccountKept(top)
<1>1. PICK ex \in Expirations :
          \/ \E v \in Cells : SetInt(ns, k, v, ex)
          \/ SetFloat(ns, k, ex)
          \/ \E len \in Lengths : SetString(ns, k, len, ex)
          \/ \E size \in Sizes : SetArray(ns, k, size, ex)
          \/ \E d \in Deltas : IncInt(ns, k, d, ex)
          \/ IncFloat(ns, k, ex)
          \/ SetExpire(ns, k, ex)
  BY DEF Write
<1>2. ex \in Expiration BY Arguments
<1>3. limits.maxString \in Nat /\ limits.maxArray \in Nat
  BY DEF KVInv, RestTypeOK, EngineTypeOK, Limits
<1>4. \A a \in Nat, b \in Nat : Lesser(a, b) \in Nat /\ Lesser(a, b) <= a BY DEF Lesser
<1>5. CASE \E v \in Cells : SetInt(ns, k, v, ex)
  BY <1>2, <1>5, Arguments, SetScalarAccount DEF SetInt
<1>6. CASE SetFloat(ns, k, ex)
  BY <1>2, <1>6, SetScalarAccount DEF SetFloat
<1>7. CASE \E len \in Lengths : SetString(ns, k, len, ex)
  <2>1. PICK len \in Lengths : SetString(ns, k, len, ex) BY <1>7
  <2> DEFINE n == Lesser(len, limits.maxString)
  <2>2. len \in Nat /\ n \in Nat /\ n <= len BY <1>3, <1>4, Arguments
  <2>3. SetDynamic(ns, k, "String", n, ex) BY <2>1 DEF SetString
  <2>4. top + len < SizeMod BY DEF QuotasFit
  <2> HIDE DEF n
  <2>5. Bytes(NewEntry("String", n, ex)) = n BY DEF Bytes, NewEntry
  <2>6. top + n < SizeMod BY <2>2, <2>4, EngineAssumption
  <2> QED BY <1>2, <2>2, <2>3, <2>5, <2>6, DynamicAccount
<1>8. CASE \E size \in Sizes : SetArray(ns, k, size, ex)
  <2>1. PICK size \in Sizes : SetArray(ns, k, size, ex) BY <1>8
  <2> DEFINE n == Lesser(size, limits.maxArray)
  <2>2. size \in Nat /\ n \in Nat /\ n <= size BY <1>3, <1>4, Arguments
  <2>3. SetDynamic(ns, k, "Array", n, ex) BY <2>1 DEF SetArray
  <2>4. top + size * CellBytes < SizeMod BY DEF QuotasFit
  <2> HIDE DEF n
  <2>5. Bytes(NewEntry("Array", n, ex)) = n * CellBytes BY DEF Bytes, NewEntry
  <2>6. \A a \in Nat, b \in Nat, c \in Nat :
            a <= b => a * c \in Nat /\ b * c \in Nat /\ a * c <= b * c
    OBVIOUS
  <2>7. n * CellBytes \in Nat /\ size * CellBytes \in Nat /\ n * CellBytes <= size * CellBytes
    BY <2>2, <2>6, KVAssumption
  <2>8. top + Bytes(NewEntry("Array", n, ex)) < SizeMod
    BY <2>4, <2>5, <2>7, EngineAssumption
  <2> QED BY <1>2, <2>2, <2>3, <2>8, DynamicAccount
<1>9. CASE \E d \in Deltas : IncInt(ns, k, d, ex)
  <2>1. PICK d \in Deltas : IncInt(ns, k, d, ex) BY <1>9
  <2>2. Current(ns, k) \in Entry BY CurrentSound DEF KVInv
  <2>3. Current(ns, k).n + d \in Int BY <2>2, Arguments DEF Entry
  <2>4. WrapCell(Current(ns, k).n + d) \in Int BY <2>3, WrapCellIsCell
  <2> QED BY <1>2, <2>1, <2>4, Arguments, IncrementAccount DEF IncInt
<1>10. CASE IncFloat(ns, k, ex)
  BY <1>2, <1>10, IncrementAccount DEF IncFloat
<1>11. CASE SetExpire(ns, k, ex) BY <1>2, <1>11, SetExpireAccount
<1> QED BY <1>1, <1>5, <1>6, <1>7, <1>8, <1>9, <1>10, <1>11

LEMMA ReadAccount ==
    ASSUME KVInv, NEW top \in Nat, AccountInv(top), NEW ns \in NS, NEW k \in Key,
           NEW reclaims, NEW answer, Read(ns, k, reclaims, answer)
    PROVE  AccountKept(top)
<1>1. limits' = limits /\ limits.maxMem <= top BY DEF Read, AccountInv
<1>2. CASE UNCHANGED <<store, used>> BY <1>1, <1>2, StillAccount DEF store
<1>3. CASE /\ Expired(ns, k) /\ Erase(ns, {k}, Invalidated(ns))
           /\ used' \in {used, Account(Bytes(entries[ns][k]), 0)}
  BY <1>1, <1>3, EraseKeyAccount DEF Expired
<1> QED BY <1>2, <1>3 DEF Read, Fail

LEMMA GetAccount ==
    ASSUME KVInv, NEW top \in Nat, AccountInv(top), NEW ns \in NS, NEW k \in Key,
           Get(ns, k)
    PROVE  AccountKept(top)
<1>1. CASE GetTTL(ns, k) BY <1>1, StillAccount DEF GetTTL, AccountInv, store
<1>2. CASE ~GetTTL(ns, k)
  BY <1>2, ReadAccount
     DEF Get, GetInt, GetFloat, GetString, GetArray, GetArraySize, GetKeyType, KeyExists
<1> QED BY <1>1, <1>2

\* Counting and enumerating give no bytes back, so the account drifts above.
LEMMA EnumerateAccount ==
    ASSUME KVInv, NEW top \in Nat, AccountInv(top), NEW ns \in NS, Enumerate(ns)
    PROVE  AccountKept(top)
<1> DEFINE gone == Keys(ns) \ LiveKeys(ns)
<1>1. limits' = limits /\ limits.maxMem <= top /\ used' = used
  BY DEF Enumerate, GetNamespaceCount, GetActiveKeys, GetKeyAt, Fail, AccountInv
<1>2. gone \in SUBSET Key BY DEF Keys
<1> HIDE DEF gone
<1>3. ASSUME NEW cache, Erase(ns, gone, cache) PROVE AccountKept(top)
  BY <1>1, <1>2, <1>3, EraseAccount
<1>4. CASE UNCHANGED store BY <1>1, <1>4, StillAccount DEF store
<1>5. CASE Erase(ns, Key, NoCache) BY <1>1, <1>5, EraseAccount
<1> QED
  BY <1>3, <1>4, <1>5 DEF gone, Enumerate, GetNamespaceCount, GetActiveKeys, GetKeyAt, Fail

LEMMA RemovalAccount ==
    ASSUME KVInv, NEW top \in Nat, QuotasFit(top), AccountInv(top), Removal
    PROVE  AccountKept(top)
<1>1. used \in Nat BY EngineAssumption DEF KVInv, RestTypeOK
<1>2. CASE ClearAll \/ HeapAbort
  <2>1. entries' = NoEntries /\ used' = 0 /\ limits'.maxMem <= top
    BY <1>2 DEF ClearAll, HeapAbort, AccountInv, QuotasFit
  <2>2. \A ns \in NS, k \in Key : entries'[ns][k] = Absent BY <2>1 DEF NoEntries
  <2>3. Total(entries') = 0
    <3>1. \A s \in Places : Weight(entries')[s] = 0 BY <2>2 DEF Weight, Places
    <3>2. \A x : x \notin BytesOf(Weight(entries'), Places) BY <3>1, InBytesOf
    <3>3. BytesOf(Weight(entries'), Places) = {} BY <3>2
    <3> QED BY <3>3, FS_EmptySet DEF Total, Sum
  <2> QED BY <1>1, <2>1, <2>2, <2>3 DEF AccountKept, AccountInv, Present
<1>3. ASSUME NEW ns \in NS, ClearNamespace(ns) PROVE AccountKept(top)
  <2>1. limits' = limits /\ limits.maxMem <= top BY <1>3 DEF ClearNamespace, AccountInv
  <2>2. CASE Fail BY <2>1, <2>2, StillAccount DEF Fail, store
  <2>3. CASE used' = Account(BytesAt({ns} \X Keys(ns)), 0) /\ Erase(ns, Key, NoCache)
    <3>1. {ns} \X Keys(ns) \in SUBSET Places BY DEF Places, Keys
    <3>2. \A s \in {ns} \X Keys(ns) : Present(s[1], s[2]) BY DEF Keys
    <3>3. BytesAt({ns} \X Keys(ns)) = Sum(Weight(entries), {ns} \X Keys(ns))
      BY <3>1, <3>2, BytesAtSum
    <3>4. Key \cap Keys(ns) = Keys(ns) BY DEF Keys
    <3> QED BY <2>1, <2>3, <3>3, <3>4, EraseAccount
  <2> QED BY <1>3, <2>2, <2>3 DEF ClearNamespace
<1>4. ASSUME NEW ns \in NS, NEW k \in Key, DeleteKey(ns, k) PROVE AccountKept(top)
  <2>1. limits' = limits /\ limits.maxMem <= top BY <1>4 DEF DeleteKey, AccountInv
  <2>2. CASE Fail BY <2>1, <2>2, StillAccount DEF Fail, store
  <2>3. CASE ~Fail BY <1>4, <2>1, <2>3, EraseKeyAccount DEF DeleteKey
  <2> QED BY <2>2, <2>3
<1>5. CASE SweepMapEnd
  <2> DEFINE slots == {s \in NS \X Key : Present(s[1], s[2])}
             G == {s \in slots : EndsAtSweep(entries[s[1]][s[2]], now)}
  <2>1. /\ entries' = [ns \in NS |-> [k \in Key |->
                          IF <<ns, k>> \in slots \ G
                          THEN AfterSweep(entries[ns][k]) ELSE Absent]]
        /\ used' = Account(BytesAt(G), 0) /\ limits' = limits
    BY <1>5 DEF SweepMapEnd
  <2>2. G \in SUBSET Places /\ \A s \in G : Present(s[1], s[2]) BY DEF Places
  <2>3. \A ns \in NS, k \in Key :
            /\ <<ns, k>> \in slots <=> Present(ns, k)
            /\ <<ns, k>> \in G => Present(ns, k)
    OBVIOUS
  <2> HIDE DEF slots, G
  <2>4. BytesAt(G) = Sum(Weight(entries), G) BY <2>2, BytesAtSum
  <2>5. ASSUME NEW ns \in NS, NEW k \in Key, Present(ns, k)
        PROVE  /\ AfterSweep(entries[ns][k]) \in Entry
               /\ Sized(AfterSweep(entries[ns][k]))
               /\ Bytes(AfterSweep(entries[ns][k])) = Bytes(entries[ns][k])
    <3> DEFINE e == entries[ns][k]
    <3>1. e \in Entry /\ Sized(e) BY <2>5, LiveEntry DEF AccountInv
    <3> HIDE DEF e
    <3>2. AfterSweep(e) \in Entry /\ AfterSweep(e).n = e.n /\ AfterSweep(e).type = e.type
      BY <3>1 DEF AfterSweep, Entry
    <3>3. Sized(AfterSweep(e)) /\ Bytes(AfterSweep(e)) = Bytes(e)
      BY <3>1, <3>2 DEF Sized, Bytes
    <3> QED BY <3>2, <3>3 DEF e
  <2>6. \A ns \in NS, k \in Key :
            entries'[ns][k] = IF Present(ns, k) /\ <<ns, k>> \notin G
                              THEN AfterSweep(entries[ns][k]) ELSE Absent
    BY <2>1, <2>3
  <2>7. entries' \in [NS -> [Key -> Entry \cup {Absent}]] BY <2>1, <2>3, <2>5
  <2>8. \A ns \in NS, k \in Key : Present(ns, k)' => Sized(entries'[ns][k])
    BY <2>5, <2>6 DEF Present
  <2>9. ASSUME NEW ns \in NS, NEW k \in Key
        PROVE  Weight(entries')[<<ns, k>>] =
                   IF <<ns, k>> \in G THEN 0 ELSE Weight(entries)[<<ns, k>>]
    <3>1. Present(ns, k) => AfterSweep(entries[ns][k]) # Absent BY <2>5, KVMarkers
    <3> QED BY <2>5, <2>6, <3>1, WeightAt DEF Present
  <2>10. used' \in {used, Account(Sum(Weight(entries), G), 0)} BY <2>1, <2>4
  <2> QED BY <2>1, <2>2, <2>7, <2>8, <2>9, <2>10, DropAccount
<1> QED BY <1>2, <1>3, <1>4, <1>5 DEF Removal

LEMMA NextAccount ==
    ASSUME KVInv, NEW top \in Nat, QuotasFit(top), AccountInv(top), [KVNext]_kvSpecVars
    PROVE  AccountKept(top)
<1>1. ASSUME NEW ns \in NS, NEW k \in Key, Write(ns, k) PROVE AccountKept(top)
  BY <1>1, WriteAccount
<1>2. ASSUME NEW ns \in NS, NEW k \in Key, Get(ns, k) PROVE AccountKept(top)
  BY <1>2, GetAccount
<1>3. ASSUME NEW ns \in NS, Enumerate(ns) PROVE AccountKept(top)
  BY <1>3, EnumerateAccount
<1>4. CASE Removal BY <1>4, RemovalAccount
<1>5. ASSUME NEW a \in LimitArgs, SetLimits(a) PROVE AccountKept(top)
  <2>1. entries' = entries /\ used' = used BY <1>5 DEF SetLimits, kvVars
  <2>2. limits'.maxMem <= top
    BY <1>5 DEF SetLimits, UpdateLimits, QuotasFit, AccountInv
  <2> QED BY <2>1, <2>2, StillAccount
<1>6. CASE Tick \/ UNCHANGED kvSpecVars
  BY <1>6, StillAccount DEF Tick, kvSpecVars, kvVars, AccountInv
<1> QED BY <1>1, <1>2, <1>3, <1>4, <1>5, <1>6 DEF KVNext, Removal

LEMMA InitAccount ==
    ASSUME NEW top \in Nat, QuotasFit(top), KVInit
    PROVE  AccountInv(top)
<1>1. entries = NoEntries /\ used = 0 /\ limits = InitLimits BY DEF KVInit, EngineInit
<1>2. \A ns \in NS, k \in Key : entries[ns][k] = Absent BY <1>1 DEF NoEntries
<1>3. Total(entries) = 0
  <2>1. \A s \in Places : Weight(entries)[s] = 0 BY <1>2 DEF Weight, Places
  <2>2. \A x : x \notin BytesOf(Weight(entries), Places) BY <2>1, InBytesOf
  <2>3. BytesOf(Weight(entries), Places) = {} BY <2>2
  <2> QED BY <2>3, FS_EmptySet DEF Total, Sum
<1> QED BY <1>1, <1>2, <1>3 DEF AccountInv, Present, QuotasFit

-----------------------------------------------------------------------------
(* The theorems.                                                           *)

\* No call adds a namespace or a key at or over the limit then in force,
\* whichever of the setters, inc natives or refused setters makes it.
THEOREM LimitsAreRespected == KVSpec => LimitsRespected
<1> DEFINE Within ==
      /\ Cardinality(namespaces') > Cardinality(namespaces) =>
             Cardinality(namespaces') <= limits.maxNs
      /\ \A ns \in NS : Cardinality(Keys(ns)') > Cardinality(Keys(ns)) =>
             Cardinality(Keys(ns)') <= limits.maxKeys
<1>1. ASSUME KVInv, [KVNext]_kvSpecVars PROVE Within
  <2>1. CASE \E ns \in NS, k \in Key : Grows(ns, k)
    BY <1>1, <2>1, GrowsWithinLimits
  <2>2. CASE Shrinks
    BY <1>1, <2>2, ShrinksWithinLimits
  <2> QED BY <1>1, <2>1, <2>2, StepKinds
<1>2. KVInv /\ [KVNext]_kvSpecVars => [Within]_kvSpecVars BY <1>1
<1> QED BY <1>2, Inductive, PTL DEF KVSpec, LimitsRespected

\* A write changes no entry but the one it names.
LEMMA WriteTouchesOne ==
    ASSUME StoreInv, NEW m \in NS, NEW j \in Key, Write(m, j),
           NEW ns \in NS, NEW k \in Key, ~(ns = m /\ k = j)
    PROVE  Same(ns, k)
<1>1. ASSUME NEW e, Put(m, j, e) PROVE Same(ns, k)
  BY <1>1 DEF Put, Same, StoreInv, StoreTypeOK
<1>2. ASSUME Fail PROVE Same(ns, k) BY <1>2 DEF Fail, store, Same
<1>3. ASSUME NEW type, NEW n, NEW ex, NEW result, SetScalar(m, j, type, n, ex, result)
      PROVE  Same(ns, k)
  BY <1>1, <1>2, <1>3 DEF SetScalar
<1>4. ASSUME NEW type, NEW n, NEW ex, SetDynamic(m, j, type, n, ex)
      PROVE  Same(ns, k)
  BY <1>1, <1>2, <1>4 DEF SetDynamic
<1>5. ASSUME NEW type, NEW delta, NEW sum, NEW ex, Increment(m, j, type, delta, sum, ex)
      PROVE  Same(ns, k)
  BY <1>1, <1>2, <1>3, <1>5 DEF Increment
<1>6. ASSUME NEW ex, SetExpire(m, j, ex) PROVE Same(ns, k)
  BY <1>1, <1>2, <1>6 DEF SetExpire
<1> QED
  BY <1>3, <1>4, <1>5, <1>6 DEF Write, SetInt, SetFloat, SetString, SetArray, IncInt, IncFloat

\* A removal takes nothing but what it names.
LEMMA RemovalTouchesNamed ==
    ASSUME StoreInv, NEW ns \in NS, NEW k \in Key, NEW m \in NS,
           \/ ClearNamespace(m) /\ m # ns
           \/ \E j \in Key : DeleteKey(m, j) /\ ~(m = ns /\ j = k)
    PROVE  Same(ns, k)
<1>1. ASSUME Fail PROVE Same(ns, k) BY <1>1 DEF Fail, store, Same
<1>2. ASSUME NEW gone, NEW cache, Erase(m, gone, cache), m # ns \/ k \notin gone
      PROVE  Same(ns, k)
  BY <1>2 DEF Erase, Same, StoreInv, StoreTypeOK
<1>3. CASE ClearNamespace(m) /\ m # ns
  BY <1>1, <1>2, <1>3 DEF ClearNamespace
<1>4. ASSUME NEW j \in Key, DeleteKey(m, j), ~(m = ns /\ j = k) PROVE Same(ns, k)
  <2>1. CASE Fail BY <1>1, <2>1
  <2>2. CASE Erase(m, {j}, Invalidated(m))
    <3>1. m # ns \/ k \notin {j} BY <1>4
    <3> QED BY <1>2, <2>2, <3>1
  <2> QED BY <1>4, <2>1, <2>2 DEF DeleteKey
<1> QED BY <1>3, <1>4

\* What is not asked for and no map change spares every live entry.
LEMMA KeptUnlessAsked ==
    ASSUME KVInv, KVNext \/ UNCHANGED store, NEW ns \in NS, NEW k \in Key, Live(ns, k)
    PROVE  Same(ns, k) \/ AskedFor(ns, k) \/ SweepMapEnd
<1>1. ASSUME SparesLive PROVE Same(ns, k) BY <1>1 DEF SparesLive
<1>2. CASE UNCHANGED store BY <1>2 DEF store, Same
<1>3. ASSUME NEW m \in NS, NEW j \in Key, Write(m, j)
      PROVE  Same(ns, k) \/ AskedFor(ns, k)
  BY <1>3, WriteTouchesOne DEF AskedFor, KVInv
<1>4. ASSUME NEW m \in NS, NEW j \in Key, Get(m, j) PROVE Same(ns, k)
  BY <1>1, <1>4, GetShrinks
<1>5. ASSUME NEW m \in NS, Enumerate(m) PROVE Same(ns, k)
  BY <1>1, <1>5, EnumerateShrinks
<1>6. ASSUME NEW m \in NS, ClearNamespace(m) \/ \E j \in Key : DeleteKey(m, j)
      PROVE  Same(ns, k) \/ AskedFor(ns, k)
  BY <1>6, RemovalTouchesNamed DEF AskedFor, KVInv
<1>7. CASE (\E a \in LimitArgs : SetLimits(a)) \/ Tick
  BY <1>7 DEF SetLimits, Tick, kvVars, Same
<1>8. CASE ClearAll \/ HeapAbort BY <1>8 DEF AskedFor
<1> QED BY <1>2, <1>3, <1>4, <1>5, <1>6, <1>7, <1>8 DEF KVNext

\* A map change ends an entry when its policy says so, and no map later.
LEMMA SweepAges ==
    ASSUME KVInv, SweepMapEnd, NEW ns \in NS, NEW k \in Key, Present(ns, k)
    PROVE  OneMapOlder(entries[ns][k], entries'[ns][k])
<1> DEFINE e == entries[ns][k]
<1>1. entries'[ns][k] = IF ~EndsAtSweep(e, now) THEN AfterSweep(e) ELSE Absent
  BY DEF SweepMapEnd
<1>2. e \in Entry BY LiveEntry
<1>3. e.until \in Int BY <1>2 DEF Entry
<1>4. e.until - 1 <= 0 <=> e.until <= 1 BY <1>3
<1>5. e = [e EXCEPT !.until = e.until] BY <1>2 DEF Entry
<1> HIDE DEF e
<1> QED BY <1>1, <1>4, <1>5 DEF OneMapOlder, EndsAtSweep, AfterSweep, e

\* A live entry is only ever changed or lost by a call that names it, a flush
\* or a map change, and a map change does to it what its policy says: no read,
\* count, enumeration, write of another key or limit change touches it.
THEOREM LiveEntriesKept == KVSpec => LiveEntryKept
<1> DEFINE Kept ==
      \A ns \in NS, k \in Key :
          /\ Live(ns, k) => Same(ns, k) \/ AskedFor(ns, k) \/ SweepMapEnd
          /\ Present(ns, k) /\ SweepMapEnd =>
                 OneMapOlder(entries[ns][k], entries'[ns][k])
<1>1. KVInv /\ [KVNext]_kvSpecVars => [Kept]_kvSpecVars
  BY KeptUnlessAsked, SweepAges
<1> QED BY <1>1, Inductive, PTL DEF KVSpec, LiveEntryKept

\* get_key_at never returns a key that is not live when it returns, though its
\* cache may list keys long expired, dropped or deleted and set again.
THEOREM KeysAtAreLive == KVSpec => KeyAtIsLive
<1> DEFINE AnsweredLive ==
      \A ns \in NS, i \in Indexes : GetKeyAt(ns, i) /\ ret'.ok =>
          \E k \in Key : ret'.keys = <<k>> /\ Live(ns, k)'
<1>1. ASSUME KVInv PROVE AnsweredLive
  <2> SUFFICES ASSUME NEW ns \in NS, NEW i \in Indexes, GetKeyAt(ns, i), ret'.ok
               PROVE  \E k \in Key : ret'.keys = <<k>> /\ Live(ns, k)'
    OBVIOUS
  <2>1. i \in Nat /\ now' = now BY KVAssumption DEF GetKeyAt
  <2>2. ~Failed.ok BY DEF Failed, Ret
  <2>3. ASSUME NEW q \in Seq(Key), ret' = AnswerAt(q, i)
        PROVE  i + 1 \in DOMAIN q /\ ret'.keys = <<q[i + 1]>> /\ q[i + 1] \in Key
    <3>1. i < Len(q) BY <2>2, <2>3 DEF AnswerAt
    <3>2. ret'.keys = <<q[i + 1]>> BY <2>3, <3>1 DEF AnswerAt, Ret
    <3> QED BY <2>1, <3>1, <3>2
  <2>4. CASE /\ CacheAnswers(ns, i) /\ ret' = AnswerAt(caches[ns].keys, i)
             /\ UNCHANGED <<store, used, heapBroken>>
    <3> DEFINE q == caches[ns].keys
    <3>1. q \in Seq(Key)
      BY <1>1, <2>4 DEF CacheAnswers, HasValidCache, KVInv, StoreInv, StoreTypeOK, KeyCache
    <3>2. i + 1 \in DOMAIN q /\ ret'.keys = <<q[i + 1]>> /\ q[i + 1] \in Key
      BY <2>3, <2>4, <3>1
    <3>3. Live(ns, q[i + 1]) BY <2>1, <2>4, <3>1, <3>2 DEF CacheAnswers
    <3>4. PICK k \in Key : k = q[i + 1] BY <3>2
    <3>5. Live(ns, k)' BY <2>1, <2>4, <3>3, <3>4 DEF Live, Present, store
    <3> QED BY <3>2, <3>4, <3>5
  <2>5. CASE \E q \in Orders(LiveKeys(ns)) :
                /\ Erase(ns, Keys(ns) \ LiveKeys(ns), [keys |-> q, valid |-> TRUE])
                /\ ret' = AnswerAt(q, i)
    <3>1. PICK q \in Orders(LiveKeys(ns)) :
              /\ Erase(ns, Keys(ns) \ LiveKeys(ns), [keys |-> q, valid |-> TRUE])
              /\ ret' = AnswerAt(q, i)
      BY <2>5
    <3>2. q \in Seq(Key) /\ \A j \in DOMAIN q : q[j] \in LiveKeys(ns)
      BY LiveKeysFinite, OrdersVisitOnce
    <3>3. i + 1 \in DOMAIN q /\ ret'.keys = <<q[i + 1]>> /\ q[i + 1] \in Key
      BY <2>3, <3>1, <3>2
    <3>4. PICK k \in Key : k = q[i + 1] BY <3>3
    <3>5. k \in LiveKeys(ns) BY <3>2, <3>3, <3>4
    <3>6. entries'[ns][k] = entries[ns][k]
      BY <1>1, <3>1, <3>5 DEF Erase, KVInv, StoreInv, StoreTypeOK
    <3>7. Live(ns, k)' BY <2>1, <3>5, <3>6 DEF LiveKeys, Live, Present
    <3> QED BY <3>3, <3>4, <3>7
  <2>6. CASE ret' = Failed BY <2>2, <2>6
  <2> QED BY <2>4, <2>5, <2>6 DEF GetKeyAt, Fail
<1>2. KVInv /\ [KVNext]_kvSpecVars => [AnsweredLive]_kvSpecVars BY <1>1
<1> QED BY <1>2, Inductive, PTL DEF KVSpec, KeyAtIsLive

\* The account never falls below what the stored payloads weigh, though six
\* methods drop entries without giving their bytes back and every setter takes
\* the old payload off first, as long as the quotas fit the size_t.
THEOREM AccountCoversPayload ==
    ASSUME NEW top \in Nat, QuotasFit(top)
    PROVE  KVSpec => []UsedCoversPayload
<1>1. KVInit => KVInv /\ AccountInv(top) BY InitHolds, InitAccount
<1>2. KVInv /\ AccountInv(top) /\ [KVNext]_kvSpecVars => KVInv' /\ AccountInv(top)'
  BY NextKeeps, NextAccount DEF AccountKept
<1>3. KVInv /\ AccountInv(top) => UsedCoversPayload BY AccountCovers
<1> QED BY <1>1, <1>2, <1>3, PTL DEF KVSpec

\* No call grows the account past the quota then in force: the sum the quota
\* test compares never wraps, below zero or above the size_t.
THEOREM QuotaIsRespected ==
    ASSUME NEW top \in Nat, QuotasFit(top)
    PROVE  KVSpec => QuotaRespected
<1>1. KVInit => KVInv /\ AccountInv(top) BY InitHolds, InitAccount
<1>2. KVInv /\ AccountInv(top) /\ [KVNext]_kvSpecVars => KVInv' /\ AccountInv(top)'
  BY NextKeeps, NextAccount DEF AccountKept
<1>3. KVInv /\ AccountInv(top) /\ [KVNext]_kvSpecVars =>
          [used' > used => used' <= limits.maxMem]_kvSpecVars
  BY NextAccount DEF AccountKept
<1> QED BY <1>1, <1>2, <1>3, PTL DEF KVSpec, QuotaRespected
=============================================================================
