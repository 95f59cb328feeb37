-------------------------- MODULE AmxxModuleProofs --------------------------
(***************************************************************************)
(* The module, its plugins and its host: what an attach that fails half    *)
(* way, a detach, a crash and a second load leave behind, for every host   *)
(* and whatever the plugins do in between; and that the natives, with any  *)
(* arguments, keep to the calls the store is specified for, so that what   *)
(* the store keeps alone it keeps in the module.                           *)
(***************************************************************************)
EXTENDS AmxxModule, MemStoreProofs, SequenceTheorems

\* Before the attach the host lists no native, and it lists them only when
\* every function it was asked for is bound.
HostInv ==
    /\ nativesAdded => bound = HostFunctions
    /\ phase \in {"Down", "Loaded", "Queried", "Refused"} => ~nativesAdded

\* Every function a native or a hook calls is one that AMXX_Attach asks for.
LEMMA CalledAreRequested ==
    CalledByHooks \cup CalledByNatives \subseteq HostFunctions
<1>1. DOMAIN Requested = 1..12 BY DEF Requested
<1>2. \A i \in 1..12 : Requested[i] \in HostFunctions BY <1>1 DEF HostFunctions
<1>3. /\ Requested[1] = "Log" /\ Requested[2] = "LogError"
      /\ Requested[3] = "SetAmxString" /\ Requested[4] = "GetAmxString"
      /\ Requested[5] = "GetAmxAddr" /\ Requested[6] = "AddNatives"
      /\ Requested[7] = "RegisterSPForwardByName"
      /\ Requested[8] = "UnregisterSPForward" /\ Requested[9] = "ExecuteForward"
      /\ Requested[11] = "CellToReal" /\ Requested[12] = "RealToCell"
  BY DEF Requested
<1> QED BY <1>2, <1>3 DEF CalledByHooks, CalledByNatives

LEMMA HostNextKeeps ==
    ASSUME HostInv, [ModuleNext]_moduleVars
    PROVE  HostInv'
<1>1. CASE Load BY <1>1 DEF Load, HostInv
<1>2. ASSUME NEW version \in HostVersions, AMXX_Query(version)
      PROVE  HostInv'
  BY <1>2 DEF AMXX_Query, HostInv
<1>3. CASE AMXX_Attach BY <1>3 DEF AMXX_Attach, OnAmxxAttach, HostInv
<1>4. CASE Unload BY <1>4 DEF Unload, HostInv
<1>5. CASE AMXX_PluginsLoaded BY <1>5 DEF AMXX_PluginsLoaded, HostInv
<1>6. CASE AMXX_PluginsUnloading BY <1>6 DEF AMXX_PluginsUnloading, HostInv
<1>7. CASE AMXX_PluginsUnloaded BY <1>7 DEF AMXX_PluginsUnloaded, HostInv
<1>8. CASE AMXX_Detach BY <1>8 DEF AMXX_Detach, HostInv
<1>9. CASE PluginsRun BY <1>9 DEF PluginsRun, hostVars, HostInv
<1>10. CASE ServerDies BY <1>10 DEF ServerDies, HostInv
<1>11. CASE UNCHANGED moduleVars BY <1>11 DEF moduleVars, hostVars, HostInv
<1> QED BY <1>1, <1>2, <1>3, <1>4, <1>5, <1>6, <1>7, <1>8, <1>9, <1>10, <1>11
        DEF ModuleNext

\* AMXX_Attach adds the natives only after the last pointer is bound, and each
\* way out of an attachment takes them away with the pointers: no host that
\* lacks a function, no crash and no second load has a null pointer called.
THEOREM NeverNullCalls == ModuleSpec => []NoNullCalls
<1>1. ModuleInit => HostInv BY DEF ModuleInit, HostInv
<1>2. HostInv => NoNullCalls BY CalledAreRequested DEF HostInv, NoNullCalls
<1> QED BY <1>1, <1>2, HostNextKeeps, PTL DEF ModuleSpec

-----------------------------------------------------------------------------

LEMMA DetachedNextKeeps ==
    ASSUME DetachedIsEmpty, [ModuleNext]_moduleVars
    PROVE  DetachedIsEmpty'
<1> DEFINE Bare == namespaces = {} /\ boards = {} /\ used = 0 /\ sequence = 0
           Kept == UNCHANGED <<namespaces, boards, used, sequence>>
           Detached == phase \in {"Down", "Loaded", "Queried", "Refused"}
<1>1. CASE Kept /\ (Detached' => Detached) BY <1>1 DEF DetachedIsEmpty
<1>2. CASE Bare' BY <1>2 DEF DetachedIsEmpty
<1>3. CASE ~Detached' BY <1>3 DEF DetachedIsEmpty
<1>4. CASE Load BY <1>2, <1>4 DEF Load, Construct, store
<1>5. ASSUME UNCHANGED iterSpecVars PROVE Kept
  BY <1>5 DEF iterSpecVars, nativeVars, memSpecVars, memVars, kvVars, rankVars
<1>6. ASSUME NEW version \in HostVersions, AMXX_Query(version)
      PROVE  DetachedIsEmpty'
  BY <1>1, <1>5, <1>6 DEF AMXX_Query
<1>7. CASE AMXX_Attach BY <1>1, <1>5, <1>7 DEF AMXX_Attach
<1>8. CASE Unload BY <1>1, <1>5, <1>8 DEF Unload
<1>9. CASE AMXX_PluginsLoaded BY <1>3, <1>9 DEF AMXX_PluginsLoaded
<1>10. CASE AMXX_PluginsUnloading BY <1>3, <1>10 DEF AMXX_PluginsUnloading
<1>11. CASE AMXX_PluginsUnloaded BY <1>3, <1>11 DEF AMXX_PluginsUnloaded
<1>12. CASE AMXX_Detach
  BY <1>2, <1>12 DEF AMXX_Detach, Hook, ClearBoth, ClearAll, RankClearAll
<1>13. CASE PluginsRun BY <1>3, <1>13 DEF PluginsRun, hostVars
<1>14. CASE ServerDies
  BY <1>2, <1>14 DEF ServerDies, Abort, HeapAbort, RankClearAll
<1>15. CASE UNCHANGED moduleVars
  BY <1>1, <1>5, <1>15 DEF moduleVars, hostVars
<1> QED BY <1>4, <1>6, <1>7, <1>8, <1>9, <1>10, <1>11, <1>12, <1>13, <1>14, <1>15
        DEF ModuleNext

\* What plugins stored, however they got there, is gone with the detach or the
\* crash: the next load starts with no key, no score, no byte counted and the
\* first sequence number.
THEOREM DetachedIsAlwaysEmpty == ModuleSpec => []DetachedIsEmpty
<1>1. ModuleInit => DetachedIsEmpty
  BY DEF ModuleInit, IterationInit, NativesInit, MemInit, KVInit, RankInit, DetachedIsEmpty
<1> QED BY <1>1, DetachedNextKeeps, PTL DEF ModuleSpec

-----------------------------------------------------------------------------

\* What the sweep does to an entry that a map change does not end.
LEMMA SweepSpares ==
    ASSUME NEW e, Stays(e), ~IsExpired(e, now)
    PROVE  ~EndsAtSweep(e, now) /\ AfterSweep(e) = e
BY DEF Stays, IsExpired, EndsAtSweep, AfterSweep

\* A map change, seen from the host: the plugins are unloaded, the entries that
\* the change ends are swept, the next plugins are loaded.  Every other live key
\* and score comes through with its value, policy and time left.
THEOREM MapChangesKeep == ModuleSpec => MapChangeKeeps
<1> DEFINE Keep == \A ns \in NS, k \in Key :
              /\ Live(ns, k) /\ Stays(entries[ns][k]) => Same(ns, k)
              /\ RankLive(ns, k) /\ Stays(ranks[ns][k]) => RankSame(ns, k)
           Moves == /\ phase \in {"Attached", "Plugins", "Unloading"}
                    /\ phase' \notin {phase, "Down"}
<1>1. ASSUME UNCHANGED iterSpecVars PROVE Keep
  BY <1>1 DEF iterSpecVars, nativeVars, memSpecVars, memVars, kvVars, rankVars, store,
              Same, RankSame
<1>2. ASSUME SweepBoth PROVE Keep
  <2>1. ASSUME NEW ns \in NS, NEW k \in Key, Live(ns, k), Stays(entries[ns][k])
        PROVE  Same(ns, k)
    <3>1. ~EndsAtSweep(entries[ns][k], now) /\ AfterSweep(entries[ns][k]) = entries[ns][k]
      BY <2>1, SweepSpares DEF Live
    <3>2. Present(ns, k) BY <2>1 DEF Live
    <3> QED BY <1>2, <3>1, <3>2 DEF SweepBoth, SweepMapEnd, Same
  <2>2. ASSUME NEW ns \in NS, NEW k \in Key, RankLive(ns, k), Stays(ranks[ns][k])
        PROVE  RankSame(ns, k)
    <3>1. ~EndsAtSweep(ranks[ns][k], now) /\ AfterSweep(ranks[ns][k]) = ranks[ns][k]
      BY <2>2, SweepSpares DEF RankLive
    <3>2. Ranked(ns, k) BY <2>2 DEF RankLive
    <3> QED BY <1>2, <3>1, <3>2 DEF SweepBoth, RankSweep, RankSame
  <2> QED BY <2>1, <2>2
<1>3. ASSUME [ModuleNext]_moduleVars, Moves PROVE Keep
  <2> HIDE DEF Keep
  <2>1. CASE Load BY <1>3, <2>1 DEF Load
  <2>2. ASSUME NEW version \in HostVersions, AMXX_Query(version) PROVE Keep
    BY <1>1, <2>2 DEF AMXX_Query
  <2>3. CASE AMXX_Attach BY <1>1, <2>3 DEF AMXX_Attach
  <2>4. CASE Unload BY <1>1, <2>4 DEF Unload
  <2>5. CASE AMXX_PluginsLoaded BY <1>1, <2>5 DEF AMXX_PluginsLoaded
  <2>6. CASE AMXX_PluginsUnloading BY <1>1, <2>6 DEF AMXX_PluginsUnloading
  <2>7. CASE AMXX_PluginsUnloaded BY <1>2, <2>7 DEF AMXX_PluginsUnloaded, Hook
  <2>8. CASE AMXX_Detach BY <1>3, <2>8 DEF AMXX_Detach, ReloadOnMapChange
  <2>9. CASE PluginsRun BY <1>3, <2>9 DEF PluginsRun, hostVars
  <2>10. CASE ServerDies BY <1>3, <2>10 DEF ServerDies
  <2>11. CASE UNCHANGED moduleVars BY <1>1, <2>11 DEF moduleVars
  <2> QED BY <1>3, <2>1, <2>2, <2>3, <2>4, <2>5, <2>6, <2>7, <2>8, <2>9, <2>10, <2>11
          DEF ModuleNext
<1>4. [ModuleNext]_moduleVars => [Moves => Keep]_moduleVars BY <1>3
<1> QED BY <1>4, PTL DEF ModuleSpec, MapChangeKeeps

-----------------------------------------------------------------------------
(* The natives.                                                            *)

\* What follows the first two of a sequence.
LEMMA AfterTwo ==
    ASSUME NEW S, NEW a, NEW b, NEW tail \in Seq(S)
    PROVE  LET q == <<a, b>> \o tail
           IN  /\ Len(q) = Len(tail) + 2 /\ q[1] = a
               /\ SubSeq(q, 3, Len(q)) = tail
<1> DEFINE T == S \cup {a, b}
           q == <<a, b>> \o tail
<1>1. <<a, b>> \in Seq(T) /\ tail \in Seq(T) /\ Len(tail) \in Nat OBVIOUS
<1>2. /\ q \in Seq(T) /\ Len(q) = Len(tail) + 2
      /\ \A i \in 1..Len(q) : q[i] = IF i <= 2 THEN <<a, b>>[i] ELSE tail[i - 2]
  BY <1>1, ConcatProperties
<1> HIDE DEF q
<1>3. /\ SubSeq(q, 3, Len(q)) \in Seq(T)
      /\ Len(SubSeq(q, 3, Len(q))) = Len(tail)
      /\ \A i \in 1..Len(tail) : SubSeq(q, 3, Len(q))[i] = q[i + 2]
  <2>1. \A i \in 3..Len(q) : q[i] \in T BY <1>2
  <2>2. CASE Len(tail) = 0 BY <1>2, <2>2
  <2>3. CASE Len(tail) # 0
    <3>1. 3 <= Len(q) BY <1>1, <1>2, <2>3
    <3> QED BY <1>1, <1>2, <2>1, <3>1, SubSeqProperties
  <2> QED BY <2>2, <2>3
<1>4. \A i \in 1..Len(tail) : q[i + 2] = tail[i]
  <2>1. \A i \in 1..Len(tail) : i + 2 \in 1..Len(q) /\ ~(i + 2 <= 2) /\ i + 2 - 2 = i
    BY <1>1, <1>2
  <2> QED BY <1>2, <2>1
<1>5. SubSeq(q, 3, Len(q)) = tail BY <1>1, <1>3, <1>4, SeqEqual
<1> QED BY <1>2, <1>5, <1>1 DEF q

\* A pair of names a native is called with is a slot of the store or is refused.
Named(ns, k) == Nameless({ns, k}) \/ (ns \in NS /\ k \in Key)

LEMMA SlotsNamed ==
    /\ \A slot \in Slots : Named(slot[1], slot[2])
    /\ \A ns \in Names : Nameless({ns}) \/ ns \in NS
BY DEF Slots, Names, Nameless, Named

\* The calls of the store that may change a live value, a native's answer to
\* them being what they return; those that only ask; those over all of it.
Changing ==
    \/ \E ns \in NS, k \in Key : OnKeys(Write(ns, k)) \/ OnKeys(DeleteKey(ns, k))
    \/ \E ns \in NS : OnKeys(ClearNamespace(ns))
    \/ \E ns \in NS, k \in Key : sequence < MaxSequence /\ OnRanks(RankWrite(ns, k))
    \/ \E ns \in NS, k \in Key : OnRanks(RankDelete(ns, k))
    \/ \E ns \in NS : OnRanks(RankClear(ns))

Questioning ==
    \/ \E ns \in NS, k \in Key : OnKeys(Get(ns, k))
    \/ \E ns \in NS : OnKeys(Enumerate(ns)) \/ OnRanks(RankQuery(ns))
    \/ GetMemoryStats

Managing == ClearBoth \/ \E a \in LimitArgs : Configure(a)

\* What one native does to the store.
Effect ==
    \/ UNCHANGED memSpecVars
    \/ Changing /\ (answer'.result <= 0 => ~ret'.ok)
    \/ Questioning
    \/ Managing /\ answer'.result = 1

LEMMA EffectIsCall == Effect => MemNext \/ UNCHANGED memSpecVars
<1>1. Changing => MemNext BY DEF Changing, MemNext, OnKeys, OnRanks, KVCall, RankCall
<1>2. Questioning => MemNext
  BY DEF Questioning, MemNext, OnKeys, OnRanks, KVCall, RankCall
<1>3. Managing => MemNext BY DEF Managing, MemNext
<1> QED BY <1>1, <1>2, <1>3 DEF Effect

\* The optional arguments of an increment are a delta, or its default, and an
\* expiry as the setters take it.
LEMMA IncrementArguments ==
    ASSUME StoreTakesArguments, NEW opt \in IncArgs
    PROVE  /\ Optional(opt, 1, 1) \in Deltas
           /\ SubSeq(opt, 3, Len(opt)) \in ExpiryArgs \cup {<<>>}
<1>1. CASE opt = <<>>
  <2>1. Len(opt) = 0 /\ SubSeq(opt, 3, Len(opt)) = <<>> BY <1>1
  <2> QED BY <2>1 DEF Optional, StoreTakesArguments
<1>2. ASSUME NEW d \in Deltas, opt = <<d>>
      PROVE  Optional(opt, 1, 1) \in Deltas /\ SubSeq(opt, 3, Len(opt)) = <<>>
  <2>1. Len(opt) = 1 /\ opt[1] = d BY <1>2
  <2>2. SubSeq(opt, 3, Len(opt)) = <<>> BY <1>2, <2>1
  <2> QED BY <2>1, <2>2 DEF Optional
<1>3. ASSUME NEW d \in Deltas, NEW tail \in ExpiryArgs, opt = IncWith(d, tail)
      PROVE  Optional(opt, 1, 1) \in Deltas /\ SubSeq(opt, 3, Len(opt)) = tail
  <2>1. tail \in Seq(Int) /\ Len(tail) \in Nat BY NativesAssumption
  <2>2. /\ Len(opt) = Len(tail) + 2 /\ opt[1] = d
        /\ SubSeq(opt, 3, Len(opt)) = tail
    BY <1>3, <2>1, AfterTwo DEF IncWith
  <2>3. Optional(opt, 1, 1) \in Deltas BY <2>1, <2>2 DEF Optional
  <2> QED BY <2>2, <2>3
<1>4. \/ opt = <<>>
      \/ \E d \in Deltas : opt = <<d>>
      \/ \E d \in Deltas, tail \in ExpiryArgs : opt = IncWith(d, tail)
  <2>1. \/ opt \in {<<>>} \cup {<<d>> : d \in Deltas}
        \/ opt \in {IncWith(d, tail) : d \in Deltas, tail \in ExpiryArgs}
    BY DEF IncArgs
  <2>2. opt \in {<<>>} \cup {<<d>> : d \in Deltas} =>
            opt = <<>> \/ \E d \in Deltas : opt = <<d>>
    OBVIOUS
  <2>3. opt \in {IncWith(d, tail) : d \in Deltas, tail \in ExpiryArgs} =>
            \E d \in Deltas, tail \in ExpiryArgs : opt = IncWith(d, tail)
    OBVIOUS
  <2> QED BY <2>1, <2>2, <2>3
<1>5. ASSUME NEW d \in Deltas, opt = <<d>>
      PROVE  /\ Optional(opt, 1, 1) \in Deltas
             /\ SubSeq(opt, 3, Len(opt)) \in ExpiryArgs \cup {<<>>}
  BY <1>2, <1>5
<1>6. ASSUME NEW d \in Deltas, NEW tail \in ExpiryArgs, opt = IncWith(d, tail)
      PROVE  /\ Optional(opt, 1, 1) \in Deltas
             /\ SubSeq(opt, 3, Len(opt)) \in ExpiryArgs \cup {<<>>}
  <2>1. SubSeq(opt, 3, Len(opt)) = tail /\ Optional(opt, 1, 1) \in Deltas BY <1>3, <1>6
  <2> QED BY <2>1
<1> QED BY <1>1, <1>4, <1>5, <1>6

\* A policy code that passes the check is a policy of the enum.
LEMMA PolicyIsTaken ==
    ASSUME StoreTakesArguments, NEW opt \in ExpiryArgs \cup {<<>>},
           ValidPolicy(PolicyCode(opt))
    PROVE  ExpirationOf(opt) \in Expirations
<1>1. ExpirationOf(opt).policy = PolicyOf(PolicyCode(opt)) BY DEF ExpirationOf
<1>2. \A code \in 0..3 : PolicyOf(code) \in ExpirePolicy BY DEF PolicyOf, ExpirePolicy
<1> QED BY <1>1, <1>2 DEF ValidPolicy, StoreTakesArguments

LEMMA StoringCalls ==
    ASSUME StoreTakesArguments, NEW ns, NEW k, Named(ns, k), StoringNative(ns, k)
    PROVE  Effect
<1>1. ASSUME NEW opt \in ExpiryArgs \cup {<<>>}, ValidPolicy(PolicyCode(opt))
      PROVE  ExpirationOf(opt) \in Expirations
  BY <1>1, PolicyIsTaken
<1> USE DEF Effect, Changing, Named, Storing, Keyed, Refuse, Return, Flag, Write,
            RankWrite, OnKeys, OnRanks
<1>2. ASSUME NEW opt \in ExpiryArgs, NEW val \in Cells, mem_set_int(ns, k, val, opt)
      PROVE  Effect
  BY <1>1, <1>2 DEF mem_set_int
<1>3. ASSUME NEW opt \in ExpiryArgs, mem_set_float(ns, k, opt) PROVE Effect
  BY <1>1, <1>3 DEF mem_set_float
<1>4. ASSUME NEW opt \in ExpiryArgs, NEW len \in Lengths, mem_set_string(ns, k, len, opt)
      PROVE  Effect
  BY <1>1, <1>4 DEF mem_set_string
<1>5. ASSUME NEW opt \in ExpiryArgs, NEW size \in Amounts, NEW array \in BOOLEAN,
             mem_set_array(ns, k, array, size, opt)
      PROVE  Effect
  <2>1. size > 0 => size \in Sizes BY DEF StoreTakesArguments
  <2> QED BY <1>1, <1>5, <2>1 DEF mem_set_array
<1>6. ASSUME NEW opt \in ExpiryArgs, opt # <<>>, mem_set_expire(ns, k, Head(opt), Tail(opt))
      PROVE  Effect
  <2>1. <<Head(opt)>> \o Tail(opt) = opt BY <1>6, NativesAssumption
  <2>2. \/ UNCHANGED memSpecVars
        \/ /\ ns \in NS /\ k \in Key /\ ValidPolicy(PolicyCode(opt))
           /\ OnKeys(SetExpire(ns, k, ExpirationOf(opt)))
           /\ Return(Flag(ret'.ok), <<>>)
    BY <1>6, <2>1 DEF mem_set_expire
  <2> QED BY <1>1, <2>2
<1>7. ASSUME NEW opt \in ExpiryArgs, sequence < MaxSequence, NEW score \in Scores,
             mem_rank_set(ns, k, score, opt)
      PROVE  Effect
  BY <1>1, <1>7 DEF mem_rank_set
<1> QED BY <1>2, <1>3, <1>4, <1>5, <1>6, <1>7 DEF StoringNative

LEMMA IncrementingCalls ==
    ASSUME StoreTakesArguments, NEW ns, NEW k, Named(ns, k), IncrementingNative(ns, k)
    PROVE  Effect
<1>1. ASSUME NEW opt \in IncArgs,
             LET tail == SubSeq(opt, 3, Len(opt))
             IN  ValidPolicy(PolicyCode(tail)) => ExpirationOf(tail) \in Expirations,
             Optional(opt, 1, 1) \in Deltas
      PROVE  /\ mem_inc_int(ns, k, opt) => Effect
             /\ mem_inc_float(ns, k, opt) => Effect
             /\ sequence < MaxSequence /\ mem_rank_inc(ns, k, opt) => Effect
  <2> DEFINE tail == SubSeq(opt, 3, Len(opt))
             ex == ExpirationOf(tail)
             delta == Optional(opt, 1, 1)
             Answered == \E wrote : Return(Flag(ret'.ok), wrote)
             Passed(method) ==
                \/ UNCHANGED memSpecVars
                \/ /\ ns \in NS /\ k \in Key /\ ex \in Expirations
                   /\ method
                   /\ Answered
  <2>1. mem_inc_int(ns, k, opt) => Passed(OnKeys(IncInt(ns, k, delta, ex)))
    BY <1>1
    DEF mem_inc_int, Incrementing, Keyed, Named, Refuse
  <2>2. mem_inc_float(ns, k, opt) => Passed(OnKeys(IncFloat(ns, k, ex)))
    BY <1>1
    DEF mem_inc_float, Incrementing, Keyed, Named, Refuse
  <2>3. mem_rank_inc(ns, k, opt) => Passed(OnRanks(RankInc(ns, k, delta, ex)))
    BY <1>1
    DEF mem_rank_inc, Incrementing, Keyed, Named, Refuse
  <2>4. delta \in Deltas BY <1>1
  <2>5. Answered => answer'.result = IF ret'.ok THEN 1 ELSE 0 BY DEF Return, Flag
  <2> HIDE DEF ex, delta, Answered
  <2> QED BY <2>1, <2>2, <2>3, <2>4, <2>5
          DEF Effect, Changing, Write, RankWrite, OnKeys, OnRanks
<1>2. ASSUME NEW opt \in IncArgs
      PROVE  LET tail == SubSeq(opt, 3, Len(opt))
             IN  /\ ValidPolicy(PolicyCode(tail)) => ExpirationOf(tail) \in Expirations
                 /\ Optional(opt, 1, 1) \in Deltas
  BY IncrementArguments, PolicyIsTaken
<1> QED BY <1>1, <1>2 DEF IncrementingNative

LEMMA GettingCalls ==
    ASSUME StoreTakesArguments, NEW ns, NEW k, Named(ns, k), GettingNative(ns, k)
    PROVE  Effect
<1> USE DEF Effect, Questioning, Named, Getting, Keyed, Refuse, Get, RankQuery, OnKeys,
            OnRanks
<1>1. ASSUME NEW ref \in BOOLEAN, NEW default \in Cells, mem_get_int(ns, k, ref, default)
      PROVE  Effect
  BY <1>1 DEF mem_get_int
<1>2. ASSUME NEW ref \in BOOLEAN, mem_get_float(ns, k, ref) PROVE Effect
  BY <1>2 DEF mem_get_float
<1>3. ASSUME NEW maxlen \in Amounts, NEW default \in Lengths,
             mem_get_string(ns, k, maxlen, default)
      PROVE  Effect
  BY <1>3 DEF mem_get_string
<1>4. ASSUME NEW maxlen \in Amounts, NEW array \in BOOLEAN, NEW ref \in BOOLEAN,
             mem_get_array(ns, k, array, maxlen, ref)
      PROVE  Effect
  <2>1. maxlen > 0 => maxlen \in Sizes BY DEF StoreTakesArguments
  <2> QED BY <1>4, <2>1 DEF mem_get_array
<1>5. ASSUME NEW ref \in BOOLEAN, mem_rank_get_score(ns, k, ref) PROVE Effect
  BY <1>5 DEF mem_rank_get_score
<1> QED BY <1>1, <1>2, <1>3, <1>4, <1>5 DEF GettingNative

LEMMA AskingCalls ==
    ASSUME NEW ns, NEW k, Named(ns, k), AskingNative(ns, k)
    PROVE  Effect
<1> USE DEF Effect, Changing, Questioning, Named, Asking, Keyed, Refuse, Return, Flag,
            Get, RankQuery, OnKeys, OnRanks
<1>1. CASE mem_get_array_size(ns, k) BY <1>1 DEF mem_get_array_size
<1>2. CASE mem_get_key_type(ns, k) BY <1>2 DEF mem_get_key_type
<1>3. CASE mem_key_exists(ns, k) BY <1>3 DEF mem_key_exists
<1>4. CASE mem_get_ttl(ns, k) BY <1>4 DEF mem_get_ttl
<1>5. CASE mem_delete_key(ns, k) BY <1>5 DEF mem_delete_key
<1>6. CASE mem_rank_exists(ns, k) BY <1>6 DEF mem_rank_exists
<1>7. CASE mem_rank_delete(ns, k) BY <1>7 DEF mem_rank_delete
<1>8. ASSUME NEW opt \in OrderArgs, mem_rank_get_pos(ns, k, opt) PROVE Effect
  <2>1. OrderOf(OrderCode(opt)) \in RankOrder BY DEF OrderOf, RankOrder
  <2> QED BY <1>8, <2>1 DEF mem_rank_get_pos
<1> QED BY <1>1, <1>2, <1>3, <1>4, <1>5, <1>6, <1>7, <1>8 DEF AskingNative

LEMMA SpaceCalls ==
    ASSUME StoreTakesArguments, NEW ns \in Names, SpaceNative(ns)
    PROVE  Effect
<1>1. Nameless({ns}) \/ ns \in NS BY SlotsNamed
<1>2. \A code : OrderOf(code) \in RankOrder BY DEF OrderOf, RankOrder
<1> USE <1>1 DEF Effect, Changing, Questioning, Spaced, Refuse, Return, Flag, Enumerate,
                 RankQuery, OnKeys, OnRanks
<1>3. CASE mem_clear_namespace(ns) BY <1>3 DEF mem_clear_namespace
<1>4. CASE mem_get_namespace_count(ns) BY <1>4 DEF mem_get_namespace_count
<1>5. ASSUME NEW index \in Indexes \cup {-1}, NEW maxlen \in Amounts,
             mem_get_key_at(ns, index, maxlen)
      PROVE  Effect
  BY <1>5 DEF mem_get_key_at
<1>6. CASE mem_rank_clear(ns) BY <1>6 DEF mem_rank_clear
<1>7. CASE mem_rank_get_count(ns) BY <1>7 DEF mem_rank_get_count
<1>8. ASSUME NEW pos \in Positions, NEW maxlen \in Amounts, NEW opt,
             mem_rank_get_top(ns, pos, maxlen, opt)
      PROVE  Effect
  BY <1>2, <1>8 DEF mem_rank_get_top
<1>9. ASSUME NEW start \in Positions, NEW count \in Amounts, NEW room \in Amounts, NEW opt,
             mem_rank_get_range(ns, start, count, room, room, opt)
      PROVE  Effect
  <2>1. ~(count <= 0) /\ ~(room <= 0) => Lesser(count, room) \in Counts
    BY NativesAssumption DEF StoreTakesArguments
  <2> QED BY <1>2, <1>9, <2>1 DEF mem_rank_get_range
<1> QED BY <1>3, <1>4, <1>5, <1>6, <1>7, <1>8, <1>9 DEF SpaceNative

LEMMA NativeCalls ==
    ASSUME StoreTakesArguments, NativeCall
    PROVE  Effect
<1>1. ASSUME NEW slot \in Slots
      PROVE  /\ StoringNative(slot[1], slot[2]) => Effect
             /\ IncrementingNative(slot[1], slot[2]) => Effect
             /\ GettingNative(slot[1], slot[2]) => Effect
             /\ AskingNative(slot[1], slot[2]) => Effect
  <2>1. Named(slot[1], slot[2]) BY SlotsNamed
  <2> QED BY <2>1, StoringCalls, IncrementingCalls, GettingCalls, AskingCalls
<1>2. ASSUME NEW ns \in Names, SpaceNative(ns) PROVE Effect
  BY <1>2, SpaceCalls
<1>3. CASE StoreNative
  <2>1. ASSUME NEW amount \in Amounts, NEW opt \in LimitTails,
               mem_set_limits(amount, amount, amount, opt)
        PROVE  Effect
    BY <2>1 DEF mem_set_limits, StoreTakesArguments, Return, Effect, Managing
  <2>2. ASSUME NEW opt, mem_get_memory_stats(opt) PROVE Effect
    BY <2>2 DEF mem_get_memory_stats, Effect, Questioning
  <2>3. mem_flush_all => Effect BY DEF mem_flush_all, Return, Effect, Managing
  <2> QED BY <1>3, <2>1, <2>2, <2>3 DEF StoreNative
<1>4. ASSUME NEW slot \in Slots,
             \/ StoringNative(slot[1], slot[2])
             \/ IncrementingNative(slot[1], slot[2])
             \/ GettingNative(slot[1], slot[2])
             \/ AskingNative(slot[1], slot[2])
      PROVE  Effect
  BY <1>1, <1>4
<1> QED BY <1>2, <1>3, <1>4 DEF NativeCall

LEMMA IterationCalls ==
    ASSUME IterationCall
    PROVE  Effect
<1>1. ASSUME NEW ns \in Names, NEW named \in BOOLEAN, NEW found \in BOOLEAN,
             mem_iterate_keys(ns, named, found)
      PROVE  Effect
  BY <1>1, SlotsNamed DEF mem_iterate_keys, Refuse, Enumerate, OnKeys, Effect, Questioning
<1>2. ASSUME NEW handled \in BOOLEAN, CallbackReturns(handled)
      PROVE  Effect
  BY <1>2 DEF CallbackReturns, Effect
<1> QED BY <1>1, <1>2 DEF IterationCall

LEMMA ModuleCalls ==
    ASSUME StoreTakesArguments, [ModuleNext]_moduleVars
    PROVE  [MemNext]_memSpecVars
<1>1. UNCHANGED iterSpecVars => UNCHANGED memSpecVars BY DEF iterSpecVars, nativeVars
<1>2. CASE Load BY <1>2 DEF Load, MemNext
<1>3. ASSUME NEW version \in HostVersions, AMXX_Query(version)
      PROVE  [MemNext]_memSpecVars
  BY <1>1, <1>3 DEF AMXX_Query
<1>4. CASE AMXX_Attach BY <1>1, <1>4 DEF AMXX_Attach
<1>5. CASE Unload BY <1>1, <1>5 DEF Unload
<1>6. CASE AMXX_PluginsLoaded BY <1>1, <1>6 DEF AMXX_PluginsLoaded
<1>7. CASE AMXX_PluginsUnloading BY <1>1, <1>7 DEF AMXX_PluginsUnloading
<1>8. CASE AMXX_PluginsUnloaded BY <1>8 DEF AMXX_PluginsUnloaded, Hook, MemNext
<1>9. CASE AMXX_Detach BY <1>9 DEF AMXX_Detach, Hook, MemNext
<1>10. CASE PluginsRun
  <2>1. CASE NativeCall BY <2>1, NativeCalls, EffectIsCall
  <2>2. CASE Wait BY <2>2 DEF MemNext
  <2>3. CASE IterationCall BY <2>3, IterationCalls, EffectIsCall
  <2> QED BY <1>10, <2>1, <2>2, <2>3 DEF PluginsRun
<1>11. CASE ServerDies BY <1>11 DEF ServerDies, MemNext
<1>12. CASE UNCHANGED moduleVars BY <1>1, <1>12 DEF moduleVars
<1> QED BY <1>2, <1>3, <1>4, <1>5, <1>6, <1>7, <1>8, <1>9, <1>10, <1>11, <1>12
        DEF ModuleNext

\* Whatever a plugin passes, at whatever depth of callbacks, and whatever the
\* host does between: the module touches the store by one call at a time, made
\* with arguments the store is specified for.  A policy code that is no policy,
\* a size below 1 or an empty name never gets there.
THEOREM NativesKeepToStore ==
    ASSUME StoreTakesArguments
    PROVE  ModuleSpec => NativesCallStore
<1>1. [ModuleNext]_moduleVars => [MemNext]_memSpecVars BY ModuleCalls
<1> QED BY <1>1, PTL DEF ModuleSpec, NativesCallStore

\* A native that answers 0 or less, seen at the store.
LEMMA EffectSpares ==
    ASSUME MemInv, Effect, answer'.result <= 0
    PROVE  SparesLive /\ SparesScores
<1>1. ASSUME UNCHANGED <<store, rankVars>> PROVE SparesLive /\ SparesScores
  BY <1>1, StoreSpared, RanksUntouched
<1>2. UNCHANGED kvVars => UNCHANGED store BY DEF kvVars, store
<1>3. CASE UNCHANGED memSpecVars BY <1>1, <1>2, <1>3 DEF memSpecVars, memVars
<1>4. CASE Changing /\ (answer'.result <= 0 => ~ret'.ok)
  BY <1>2, <1>4, RefusalSpares, RankRefusalSpares, StoreSpared, RanksUntouched
     DEF Changing, OnKeys, OnRanks, MemInv
<1>5. CASE Questioning
  <2>1. GetMemoryStats => UNCHANGED <<kvVars, rankVars>> BY DEF GetMemoryStats, memVars
  <2> QED BY <1>1, <1>2, <1>5, <2>1, GetShrinks, EnumerateShrinks, RankQuerySpares,
             StoreSpared, RanksUntouched
          DEF Questioning, OnKeys, OnRanks, MemInv, RankInv
<1>6. ~(answer'.result = 1) OBVIOUS
<1> QED BY <1>3, <1>4, <1>5, <1>6 DEF Effect

LEMMA StepSpares ==
    ASSUME StoreTakesArguments, MemInv, [ModuleNext]_moduleVars, answer'.result <= 0
    PROVE  SparesLive /\ SparesScores
<1>1. ASSUME UNCHANGED memSpecVars PROVE SparesLive /\ SparesScores
  BY <1>1, StoreSpared, RanksUntouched DEF memSpecVars, memVars, kvVars, store
<1>2. UNCHANGED iterSpecVars => UNCHANGED memSpecVars BY DEF iterSpecVars, nativeVars
<1>3. answer' # NoAnswer BY DEF NoAnswer
<1>4. CASE Load BY <1>3, <1>4 DEF Load
<1>5. ASSUME NEW version \in HostVersions, AMXX_Query(version)
      PROVE  SparesLive /\ SparesScores
  BY <1>1, <1>2, <1>5 DEF AMXX_Query
<1>6. CASE AMXX_Attach BY <1>1, <1>2, <1>6 DEF AMXX_Attach
<1>7. CASE Unload BY <1>1, <1>2, <1>7 DEF Unload
<1>8. CASE AMXX_PluginsLoaded BY <1>1, <1>2, <1>8 DEF AMXX_PluginsLoaded
<1>9. CASE AMXX_PluginsUnloading BY <1>1, <1>2, <1>9 DEF AMXX_PluginsUnloading
<1>10. CASE AMXX_PluginsUnloaded BY <1>3, <1>10 DEF AMXX_PluginsUnloaded, Hook
<1>11. CASE AMXX_Detach BY <1>3, <1>11 DEF AMXX_Detach, Hook
<1>12. CASE PluginsRun
  <2>1. CASE NativeCall BY <2>1, NativeCalls, EffectSpares
  <2>2. CASE Wait
    <3>1. UNCHANGED <<store, rankVars>>
      BY <2>2 DEF Wait, OnKeys, Tick, kvVars, store
    <3> QED BY <3>1, StoreSpared, RanksUntouched
  <2>3. CASE IterationCall BY <2>3, IterationCalls, EffectSpares
  <2> QED BY <1>12, <2>1, <2>2, <2>3 DEF PluginsRun
<1>13. CASE ServerDies BY <1>3, <1>13 DEF ServerDies
<1>14. CASE UNCHANGED moduleVars BY <1>1, <1>2, <1>14 DEF moduleVars
<1> QED BY <1>4, <1>5, <1>6, <1>7, <1>8, <1>9, <1>10, <1>11, <1>12, <1>13, <1>14
        DEF ModuleNext

\* The whole module is the store: seen without the host and the callbacks, what
\* it does is what MemSpec allows, so every theorem about the store alone holds
\* of the store under any plugins and any host.
THEOREM ModuleIsStore ==
    ASSUME StoreTakesArguments
    PROVE  ModuleSpec => MemSpec
<1>1. ModuleInit => MemInit BY DEF ModuleInit, IterationInit, NativesInit
<1>2. [ModuleNext]_moduleVars => [MemNext]_memSpecVars BY ModuleCalls
<1> QED BY <1>1, <1>2, PTL DEF ModuleSpec, MemSpec

\* A native that fails, at whatever depth, for whatever reason the store or its
\* own checks have, changes no live value and no live score: a refused set, an
\* increment of a key of another type, a full leaderboard, a missing key.
THEOREM FailuresKeepLive ==
    ASSUME StoreTakesArguments
    PROVE  ModuleSpec => FailureKeepsLive
<1> DEFINE Kept == answer'.result <= 0 =>
                      \A ns \in NS, k \in Key :
                          /\ Live(ns, k) => Same(ns, k)
                          /\ RankLive(ns, k) => RankSame(ns, k)
<1>1. MemInv /\ [ModuleNext]_moduleVars => [Kept]_nativeVars
  BY StepSpares DEF SparesLive, SparesScores
<1>2. ModuleSpec => []MemInv BY ModuleIsStore, MemInductive, PTL
<1> QED BY <1>1, <1>2, PTL DEF ModuleSpec, FailureKeepsLive

\* Any plugin, at any depth of callbacks, over any number of maps: the store keeps
\* what it keeps alone.  No live key or score changes or goes that no call named,
\* but by a flush, a crash or its own policy, and every entry stays within that.
THEOREM StoreSoundInModule ==
    ASSUME StoreTakesArguments
    PROVE  ModuleSpec => /\ [](MapCountRemains /\ TtlWithinCap)
                         /\ LiveEntryKept /\ LiveScoreKept
BY ModuleIsStore, StoreSoundInWhole, LiveEntriesKeptInWhole, LiveScoresKeptInWhole, PTL
=============================================================================
