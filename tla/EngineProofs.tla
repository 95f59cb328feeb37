---------------------------- MODULE EngineProofs ----------------------------
(***************************************************************************)
(* Lemmas about expiry, limits and cells that the proofs of both halves of *)
(* the engine rest on.                                                     *)
(***************************************************************************)
EXTENDS Engine, FiniteSetTheorems, TLAPS

\* A TTL is at least a second and never more than the cap.
LEMMA TtlSecondsRange ==
    ASSUME NEW extra \in Int
    PROVE  TtlSeconds(extra) \in 1..MaxTtl
BY ExpiryAssumption DEF TtlSeconds, Lesser

\* What ApplyExpiration writes is sound at the tick it is written.
LEMMA UntilSound ==
    ASSUME NEW ex \in Expiration, NEW t \in Nat
    PROVE  /\ Until(ex, t) \in Int
           /\ ex.policy = "MapCount" => Until(ex, t) >= 1
           /\ ex.policy = "TTL" => Until(ex, t) - t <= MaxTtl * TicksPerSecond
<1> DEFINE ticks == TtlSeconds(ex.extra) * TicksPerSecond
<1>1. ex.extra \in Int /\ ex.policy \in ExpirePolicy BY DEF Expiration
<1>2. TtlSeconds(ex.extra) \in 1..MaxTtl BY <1>1, TtlSecondsRange
<1>3. ticks \in Int /\ ticks <= MaxTtl * TicksPerSecond
  <2>1. \A a \in Nat, b \in Nat, c \in Nat : a <= b => a * c <= b * c
    OBVIOUS
  <2> QED BY <1>2, <2>1, ExpiryAssumption
<1>4. Until(ex, t) \in {t + ticks, 0, 1, ex.extra} BY DEF Until
<1>5. ex.policy = "MapCount" => Until(ex, t) >= 1 BY <1>1 DEF Until
<1>6. ex.policy = "TTL" => Until(ex, t) = t + ticks BY DEF Until
<1> HIDE DEF ticks
<1>7. (t + ticks) - t <= MaxTtl * TicksPerSecond BY <1>3, ExpiryAssumption
<1> QED BY <1>1, <1>3, <1>4, <1>5, <1>6, <1>7

\* What a method may answer.
Answer == [ok : BOOLEAN, num : Int, keys : Seq(Key)]

LEMMA Answers ==
    /\ \A ok \in BOOLEAN, num \in Int, keys \in Seq(Key) : Ret(ok, num, keys) \in Answer
    /\ \A ok \in BOOLEAN, num \in Int : Ret(ok, num, <<>>) \in Answer
    /\ Failed \in Answer /\ Succeeded \in Answer
<1>1. <<>> \in Seq(Key) OBVIOUS
<1> QED BY <1>1 DEF Answer, Ret, Failed, Succeeded

\* The engine starts well typed.
LEMMA EngineStarts == EngineInit => EngineTypeOK
<1> SUFFICES ASSUME EngineInit PROVE EngineTypeOK OBVIOUS
<1>1. InitLimits \in Limits BY EngineAssumption
<1>2. ret = Failed /\ limits = InitLimits /\ now = 0 /\ call = "MemStoreManager"
  BY DEF EngineInit, Failed, Ret
<1>3. ret \in Answer BY <1>2, Answers
<1> QED BY <1>1, <1>2, <1>3 DEF EngineTypeOK, Answer, Method

\* No set_limits call makes a limit 0, except the memory quota.
LEMMA LimitsUpdated ==
    ASSUME limits \in Limits, NEW a \in LimitArgs, UpdateLimits(a)
    PROVE  limits' \in Limits
<1>1. a \in LimitCall BY EngineAssumption
<1>2. \A new \in Nat, old \in Nat \ {0} : Updated(new, old) \in Nat \ {0}
  BY DEF Updated
<1>3. (IF a.mb > 0 THEN (a.mb * BytesPerMb) % SizeMod ELSE limits.maxMem) \in 0..(SizeMod - 1)
  <2>1. a.mb * BytesPerMb \in Int BY <1>1, EngineAssumption DEF LimitCall
  <2>2. (a.mb * BytesPerMb) % SizeMod \in 0..(SizeMod - 1) BY <2>1, EngineAssumption
  <2> QED BY <2>2 DEF Limits
<1> QED BY <1>1, <1>2, <1>3 DEF UpdateLimits, Limits, LimitCall

\* A sum that overflows is wrapped into a cell again.
LEMMA WrapCellIsCell ==
    ASSUME NEW x \in Int
    PROVE  WrapCell(x) \in Cell /\ WrapCell(x) \in Int
<1> DEFINE width == CellMax - CellMin + 1
<1>1. CellMin \in Int /\ CellMax \in Int /\ width \in Nat \ {0}
  BY EngineAssumption DEF Cell
<1>2. \A a \in Int, b \in Nat \ {0} : a % b \in 0..(b - 1) OBVIOUS
<1>3. (x - CellMin) % width \in 0..(width - 1) BY <1>1, <1>2
<1> QED BY <1>1, <1>3 DEF WrapCell, Cell

-----------------------------------------------------------------------------
(* Sums.  The bytes of payloads of w[s] bytes at the members s of S are     *)
(* counted one by one, so that a sum is a cardinality.                      *)

BytesOf(w, S) == UNION {{s} \X (1..w[s]) : s \in S}

Sum(w, S) == Cardinality(BytesOf(w, S))

LEMMA InBytesOf ==
    ASSUME NEW w, NEW S, NEW x
    PROVE  x \in BytesOf(w, S) <=> \E s \in S : \E i \in 1..w[s] : x = <<s, i>>
BY DEF BytesOf

LEMMA BytesOfFinite ==
    ASSUME NEW S, IsFiniteSet(S), NEW w, \A s \in S : w[s] \in Nat
    PROVE  IsFiniteSet(BytesOf(w, S)) /\ Sum(w, S) \in Nat
<1> DEFINE T == {{s} \X (1..w[s]) : s \in S}
           f == [s \in S |-> {s} \X (1..w[s])]
<1>1. f \in Surjection(S, T) BY DEF Surjection
<1>2. IsFiniteSet(T)
  <2> HIDE DEF T, f
  <2> QED BY <1>1, FS_Surjection
<1>3. ASSUME NEW t \in T PROVE IsFiniteSet(t)
  <2>1. PICK s \in S : t = {s} \X (1..w[s]) OBVIOUS
  <2>2. IsFiniteSet({s}) BY FS_Singleton
  <2>3. IsFiniteSet(1..w[s]) BY FS_Interval
  <2>4. IsFiniteSet({s} \X (1..w[s])) BY <2>2, <2>3, FS_Product
  <2> QED BY <2>1, <2>4
<1>4. IsFiniteSet(UNION T)
  <2> HIDE DEF T
  <2> QED BY <1>2, <1>3, FS_UNION
<1>5. IsFiniteSet(BytesOf(w, S)) BY <1>4 DEF BytesOf
<1> QED BY <1>5, FS_CardinalityType DEF Sum

\* Only what w says of the members of S counts.
LEMMA SumAgrees ==
    ASSUME NEW S, NEW w, NEW v, \A s \in S : w[s] = v[s]
    PROVE  Sum(w, S) = Sum(v, S)
<1>1. \A x : x \in BytesOf(w, S) <=> x \in BytesOf(v, S) BY InBytesOf
<1>2. BytesOf(w, S) = BytesOf(v, S) BY <1>1
<1> QED BY <1>2 DEF Sum

LEMMA SumOne ==
    ASSUME NEW s, NEW w, w[s] \in Nat
    PROVE  Sum(w, {s}) = w[s]
<1>1. BytesOf(w, {s}) = {s} \X (1..w[s]) BY DEF BytesOf
<1>2. IsFiniteSet({s}) /\ Cardinality({s}) = 1 BY FS_Singleton
<1>3. IsFiniteSet(1..w[s]) /\ Cardinality(1..w[s]) = w[s] BY FS_Interval
<1>4. Cardinality({s} \X (1..w[s])) = Cardinality({s}) * Cardinality(1..w[s])
  BY <1>2, <1>3, FS_Product
<1>5. Cardinality({s}) * Cardinality(1..w[s]) = w[s] BY <1>2, <1>3
<1>6. Sum(w, {s}) = Cardinality({s} \X (1..w[s])) BY <1>1 DEF Sum
<1> QED BY <1>4, <1>5, <1>6

\* A sum over disjoint sets.
LEMMA SumDisjoint ==
    ASSUME NEW S, IsFiniteSet(S), NEW T, IsFiniteSet(T), S \cap T = {},
           NEW w, \A s \in S \cup T : w[s] \in Nat
    PROVE  Sum(w, S \cup T) = Sum(w, S) + Sum(w, T)
<1>1. BytesOf(w, S \cup T) = BytesOf(w, S) \cup BytesOf(w, T)
  <2>1. \A x : x \in BytesOf(w, S \cup T) <=> x \in BytesOf(w, S) \/ x \in BytesOf(w, T)
    BY InBytesOf
  <2> QED BY <2>1
<1>2. BytesOf(w, S) \cap BytesOf(w, T) = {}
  <2>1. ASSUME NEW x, x \in BytesOf(w, S), x \in BytesOf(w, T) PROVE FALSE
    BY <2>1, InBytesOf
  <2> QED BY <2>1
<1>3. IsFiniteSet(BytesOf(w, S)) /\ IsFiniteSet(BytesOf(w, T)) BY BytesOfFinite
<1>4. Sum(w, S) \in Nat /\ Sum(w, T) \in Nat BY BytesOfFinite
<1>5. Cardinality(BytesOf(w, S) \cup BytesOf(w, T)) = Sum(w, S) + Sum(w, T) - Cardinality({})
  BY <1>2, <1>3, FS_Union DEF Sum
<1>6. Cardinality({}) = 0 BY FS_EmptySet
<1>7. Sum(w, S \cup T) = Cardinality(BytesOf(w, S) \cup BytesOf(w, T)) BY <1>1 DEF Sum
<1> QED BY <1>4, <1>5, <1>6, <1>7

\* A sum grows with the set it is over and with every summand.
LEMMA SumMonotone ==
    ASSUME NEW S, NEW T, IsFiniteSet(T), S \subseteq T,
           NEW w, NEW v, \A s \in T : v[s] \in Nat,
           \A s \in S : w[s] \in Nat /\ w[s] <= v[s]
    PROVE  Sum(w, S) <= Sum(v, T)
<1>1. BytesOf(w, S) \in SUBSET BytesOf(v, T)
  <2>1. ASSUME NEW x, x \in BytesOf(w, S) PROVE x \in BytesOf(v, T)
    <3>1. PICK s \in S : \E i \in 1..w[s] : x = <<s, i>> BY <2>1, InBytesOf
    <3>2. \E i \in 1..v[s] : x = <<s, i>> BY <3>1
    <3> QED BY <3>2, InBytesOf
  <2> QED BY <2>1
<1>2. IsFiniteSet(BytesOf(v, T)) BY BytesOfFinite
<1> QED BY <1>1, <1>2, FS_Subset DEF Sum

\* Changing one summand.
LEMMA SumChange ==
    ASSUME NEW S, IsFiniteSet(S), NEW z \in S,
           NEW w, \A s \in S : w[s] \in Nat,
           NEW v, \A s \in S : v[s] \in Nat,
           \A s \in S \ {z} : v[s] = w[s]
    PROVE  /\ Sum(v, S) = Sum(w, S) - w[z] + v[z]
           /\ w[z] <= Sum(w, S) /\ Sum(w, S) \in Nat
<1> DEFINE R == S \ {z}
<1>1. R \cap {z} = {} /\ R \cup {z} = S OBVIOUS
<1>2. IsFiniteSet(R) /\ IsFiniteSet({z}) BY FS_RemoveElement, FS_Singleton
<1>3. \A s \in R \cup {z} : w[s] \in Nat /\ v[s] \in Nat OBVIOUS
<1>4. Sum(w, R) = Sum(v, R) BY SumAgrees
<1>5. Sum(w, R) \in Nat BY <1>2, BytesOfFinite
<1> HIDE DEF R
<1>6. Sum(w, S) = Sum(w, R) + Sum(w, {z}) BY <1>1, <1>2, <1>3, SumDisjoint
<1>7. Sum(v, S) = Sum(v, R) + Sum(v, {z}) BY <1>1, <1>2, <1>3, SumDisjoint
<1>8. Sum(w, {z}) = w[z] /\ Sum(v, {z}) = v[z] BY SumOne
<1> QED BY <1>4, <1>5, <1>6, <1>7, <1>8

\* Taking the summands of G away.
LEMMA SumRelease ==
    ASSUME NEW S, IsFiniteSet(S), NEW G, G \subseteq S,
           NEW w, \A s \in S : w[s] \in Nat,
           NEW v, \A s \in S : v[s] = IF s \in G THEN 0 ELSE w[s]
    PROVE  /\ Sum(v, S) = Sum(w, S) - Sum(w, G)
           /\ Sum(w, G) <= Sum(w, S) /\ Sum(w, G) \in Nat /\ Sum(w, S) \in Nat
<1> DEFINE R == S \ G
<1>1. IsFiniteSet(R) /\ IsFiniteSet(G) BY FS_Subset
<1>2. R \cap G = {} /\ R \cup G = S OBVIOUS
<1>3. \A s \in R \cup G : w[s] \in Nat /\ v[s] \in Nat OBVIOUS
<1>4. Sum(w, R) = Sum(v, R) BY SumAgrees
<1>5. Sum(v, G) = 0
  <2>1. \A x : x \notin BytesOf(v, G)
    <3>1. \A s \in G : v[s] = 0 OBVIOUS
    <3> QED BY <3>1, InBytesOf
  <2>2. BytesOf(v, G) = {} BY <2>1
  <2> QED BY <2>2, FS_EmptySet DEF Sum
<1> HIDE DEF R
<1>6. Sum(w, R) \in Nat /\ Sum(w, G) \in Nat BY <1>1, <1>3, BytesOfFinite
<1>7. Sum(w, S) = Sum(w, R) + Sum(w, G) BY <1>1, <1>2, <1>3, SumDisjoint
<1>8. Sum(v, S) = Sum(v, R) + Sum(v, G) BY <1>1, <1>2, <1>3, SumDisjoint
<1> QED BY <1>4, <1>5, <1>6, <1>7, <1>8
=============================================================================
