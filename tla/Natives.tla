------------------------------ MODULE Natives ------------------------------
(***************************************************************************)
(* The natives a plugin calls: each checks its arguments and makes one     *)
(* call of MemStoreManager.  mem_iterate_keys, which calls back, is in     *)
(* KeyIteration.                                                           *)
(*                                                                         *)
(* An empty name is NoName.  Optional arguments are a sequence opt of      *)
(* those the caller gave, so numParams is the number of the others plus    *)
(* Len(opt).  A reference is TRUE where the caller gave one to write to.   *)
(* What MF_LogError does to the plugin after it is the host's affair; here *)
(* the native returns and error is TRUE.                                   *)
(***************************************************************************)
EXTENDS MemStore

CONSTANTS
    NoName,          \* an empty namespace or key name
    Fallback,        \* the limits mem_set_limits puts for arguments below 1
    ExpiryArgs,      \* arguments: optional policy code and extra
    OrderArgs,       \* arguments: optional order code
    Amounts,         \* arguments: sizes, lengths and counts, of either sign
    LimitTails       \* arguments: optional max_namespaces, max_memory_mb

ASSUME NativesAssumption ==
    /\ NoName \notin NS \cup Key
    /\ Fallback \in [keys : Nat \ {0}, array : Nat \ {0}, string : Nat \ {0}]
    /\ \A opt \in ExpiryArgs : opt \in Seq(Int) /\ Len(opt) <= 2
    /\ \A opt \in OrderArgs : opt \in Seq(Int) /\ Len(opt) <= 1
    /\ \A opt \in LimitTails : opt \in Seq(Int) /\ Len(opt) <= 2
    /\ Amounts \subseteq Int

VARIABLE
    answer           \* what the last native returned, wrote and raised

nativeVars == <<memSpecVars, answer>>

NoAnswer == [result |-> 1, wrote |-> <<>>, error |-> FALSE]

NativesInit == MemInit /\ answer = NoAnswer

-----------------------------------------------------------------------------
(* How a native ends.                                                      *)

Flag(b) == IF b THEN 1 ELSE 0

Return(result, wrote) ==
    answer' = [result |-> result, wrote |-> wrote, error |-> FALSE]

\* It refuses its arguments: no method is called.
Refuse(result, error) ==
    /\ answer' = [result |-> result, wrote |-> <<>>, error |-> error]
    /\ UNCHANGED memSpecVars

\* Written through a reference, if there is one.
To(ref, value) == IF ref THEN <<value>> ELSE <<>>

(* The arguments. *)

Nameless(names) == NoName \in names

\* Mutant: lets a code past the last policy through.
UpToFour(code) == code \in 0..4

\* IsValidExpirePolicy
ValidPolicy(code) == code \in 0..3

\* IsValidRankOrder
ValidOrder(code) == code \in 0..1

\* An enum cast of a code that is no policy is no policy either.
PolicyOf(code) ==
    CASE code = 0 -> "Persistent" [] code = 1 -> "MapEnd" [] code = 2 -> "MapCount"
      [] code = 3 -> "TTL" [] OTHER -> "None"

OrderOf(code) == IF code = 0 THEN "Desc" ELSE "Asc"

\* The i-th optional argument, or its default.
Optional(opt, i, default) == IF i <= Len(opt) THEN opt[i] ELSE default

PolicyCode(opt) == Optional(opt, 1, 0)
OrderCode(opt) == Optional(opt, 1, 0)

ExpirationOf(opt) ==
    [policy |-> PolicyOf(PolicyCode(opt)), extra |-> Optional(opt, 2, 0)]

-----------------------------------------------------------------------------
(* Natives over a namespace and a key.                                     *)

Keyed(ns, k, method) ==
    \/ Nameless({ns, k}) /\ Refuse(0, TRUE)
    \/ ~Nameless({ns, k}) /\ method

\* A setter, with the optional policy and extra of opt; valid is what it asks
\* of its other arguments.
Storing(ns, k, valid, opt, method(_)) ==
    Keyed(ns, k,
        \/ ~(valid /\ ValidPolicy(PolicyCode(opt))) /\ Refuse(0, TRUE)
        \/ /\ valid /\ ValidPolicy(PolicyCode(opt))
           /\ method(ExpirationOf(opt))
           /\ Return(Flag(ret'.ok), <<>>))

mem_set_int(ns, k, val, opt) ==
    Storing(ns, k, TRUE, opt, LAMBDA ex : OnKeys(SetInt(ns, k, val, ex)))

mem_set_float(ns, k, opt) ==
    Storing(ns, k, TRUE, opt, LAMBDA ex : OnKeys(SetFloat(ns, k, ex)))

mem_set_string(ns, k, len, opt) ==
    Storing(ns, k, TRUE, opt, LAMBDA ex : OnKeys(SetString(ns, k, len, ex)))

mem_set_array(ns, k, array, size, opt) ==
    Storing(ns, k, size > 0 /\ array, opt,
        LAMBDA ex : OnKeys(SetArray(ns, k, size, ex)))

mem_set_expire(ns, k, policy, opt) ==
    Storing(ns, k, TRUE, <<policy>> \o opt, LAMBDA ex : OnKeys(SetExpire(ns, k, ex)))

mem_rank_set(ns, k, score, opt) ==
    Storing(ns, k, TRUE, opt, LAMBDA ex : OnRanks(RankSet(ns, k, score, ex)))

\* An increment: the delta, a reference to the new value, policy and extra are
\* all optional, and the reference is written also when the method fails.
Incrementing(ns, k, opt, method(_, _)) ==
    LET tail == SubSeq(opt, 3, Len(opt))
    IN  Keyed(ns, k,
            \/ ~ValidPolicy(PolicyCode(tail)) /\ Refuse(0, TRUE)
            \/ /\ ValidPolicy(PolicyCode(tail))
               /\ method(Optional(opt, 1, 1), ExpirationOf(tail))
               /\ Return(Flag(ret'.ok), To(Optional(opt, 2, FALSE), ret'.num)))

mem_inc_int(ns, k, opt) ==
    Incrementing(ns, k, opt, LAMBDA delta, ex : OnKeys(IncInt(ns, k, delta, ex)))

mem_inc_float(ns, k, opt) ==
    Incrementing(ns, k, opt, LAMBDA delta, ex : OnKeys(IncFloat(ns, k, ex)))

mem_rank_inc(ns, k, opt) ==
    Incrementing(ns, k, opt, LAMBDA delta, ex : OnRanks(RankInc(ns, k, delta, ex)))

\* A typed getter: a live entry of another type raises an error.
Mismatch(ns, k, type) == Live(ns, k) /\ entries[ns][k].type # type

Getting(ns, k, type, method, wrote) ==
    Keyed(ns, k,
        /\ OnKeys(method)
        /\ answer' = [result |-> Flag(ret'.ok), wrote |-> wrote,
                      error |-> Mismatch(ns, k, type)])

mem_get_int(ns, k, ref, default) ==
    Getting(ns, k, "Int", GetInt(ns, k),
            To(ref, IF ret'.ok THEN ret'.num ELSE default))

mem_get_float(ns, k, ref) ==
    Getting(ns, k, "Float", GetFloat(ns, k), To(ref, 0))

\* The buffer takes the value, or the default of length default, cut to maxlen.
mem_get_string(ns, k, maxlen, default) ==
    \/ ~Nameless({ns, k}) /\ maxlen <= 0 /\ Refuse(0, TRUE)
    \/ /\ Nameless({ns, k}) \/ maxlen > 0
       /\ Getting(ns, k, "String", GetString(ns, k),
                  <<Lesser(maxlen, IF ret'.ok THEN ret'.num ELSE default)>>)

mem_get_array(ns, k, array, maxlen, ref) ==
    \/ ~Nameless({ns, k}) /\ ~(maxlen > 0 /\ array) /\ Refuse(0, TRUE)
    \/ /\ Nameless({ns, k}) \/ (maxlen > 0 /\ array)
       /\ Getting(ns, k, "Array", GetArray(ns, k, maxlen), To(ref, ret'.num))

\* Natives that return what the method gives.
Asking(ns, k, method, result) == Keyed(ns, k, method /\ Return(result, <<>>))

mem_get_array_size(ns, k) == Asking(ns, k, OnKeys(GetArraySize(ns, k)), ret'.num)
mem_get_key_type(ns, k) == Asking(ns, k, OnKeys(GetKeyType(ns, k)), ret'.num)
mem_key_exists(ns, k) == Asking(ns, k, OnKeys(KeyExists(ns, k)), Flag(ret'.ok))
mem_delete_key(ns, k) == Asking(ns, k, OnKeys(DeleteKey(ns, k)), Flag(ret'.ok))
mem_rank_exists(ns, k) == Asking(ns, k, OnRanks(RankExists(ns, k)), Flag(ret'.ok))
mem_rank_delete(ns, k) == Asking(ns, k, OnRanks(RankDelete(ns, k)), Flag(ret'.ok))

mem_get_ttl(ns, k) ==
    \/ Nameless({ns, k}) /\ Refuse(-2, TRUE)
    \/ ~Nameless({ns, k}) /\ OnKeys(GetTTL(ns, k)) /\ Return(ret'.num, <<>>)

\* The reference is written only when there is a score.
mem_rank_get_score(ns, k, ref) ==
    Keyed(ns, k,
        /\ OnRanks(RankGetScore(ns, k))
        /\ Return(Flag(ret'.ok), To(ref /\ ret'.ok, ret'.num)))

mem_rank_get_pos(ns, k, opt) ==
    Keyed(ns, k,
        \/ ~ValidOrder(OrderCode(opt)) /\ Refuse(0, TRUE)
        \/ /\ ValidOrder(OrderCode(opt))
           /\ OnRanks(RankGetPosition(ns, k, OrderOf(OrderCode(opt))))
           /\ Return(ret'.num, <<>>))

-----------------------------------------------------------------------------
(* Natives over a namespace.                                               *)

Spaced(ns, method, result) ==
    \/ Nameless({ns}) /\ Refuse(0, TRUE)
    \/ ~Nameless({ns}) /\ method /\ Return(result, <<>>)

mem_clear_namespace(ns) == Spaced(ns, OnKeys(ClearNamespace(ns)), Flag(ret'.ok))
mem_get_namespace_count(ns) == Spaced(ns, OnKeys(GetNamespaceCount(ns)), ret'.num)
mem_rank_clear(ns) == Spaced(ns, OnRanks(RankClear(ns)), Flag(ret'.ok))
mem_rank_get_count(ns) == Spaced(ns, OnRanks(RankGetCount(ns)), ret'.num)

\* A bad index, place or length is no error: the native returns 0.
mem_get_key_at(ns, index, maxlen) ==
    \/ Nameless({ns}) /\ Refuse(0, TRUE)
    \/ ~Nameless({ns}) /\ (index < 0 \/ maxlen <= 0) /\ Refuse(0, FALSE)
    \/ /\ ~Nameless({ns}) /\ index >= 0 /\ maxlen > 0
       /\ OnKeys(GetKeyAt(ns, index))
       /\ Return(Flag(ret'.ok), ret'.keys)

mem_rank_get_top(ns, pos, maxlen, opt) ==
    LET code == Optional(opt, 2, 0)
    IN  \/ Nameless({ns}) /\ Refuse(0, TRUE)
        \/ ~Nameless({ns}) /\ (maxlen <= 0 \/ pos < 1) /\ Refuse(0, FALSE)
        \/ /\ ~Nameless({ns}) /\ maxlen > 0 /\ pos >= 1
           /\ \/ ~ValidOrder(code) /\ Refuse(0, TRUE)
              \/ /\ ValidOrder(code)
                 /\ OnRanks(RankGetTop(ns, pos, OrderOf(code)))
                 /\ Return(Flag(ret'.ok),
                        IF ret'.ok THEN ret'.keys \o To(Optional(opt, 1, FALSE), ret'.num)
                        ELSE <<>>)

\* Fetches as many as were asked for and fit the caller's arrays.
mem_rank_get_range(ns, start, count, maxItems, maxKeyLen, opt) ==
    LET bad == start < 1 \/ count <= 0 \/ maxItems <= 0 \/ maxKeyLen <= 0
    IN  \/ Nameless({ns}) /\ Refuse(0, TRUE)
        \/ ~Nameless({ns}) /\ bad /\ Refuse(0, FALSE)
        \/ /\ ~Nameless({ns}) /\ ~bad
           /\ \/ ~ValidOrder(OrderCode(opt)) /\ Refuse(0, TRUE)
              \/ /\ ValidOrder(OrderCode(opt))
                 /\ OnRanks(RankGetRange(ns, start, Lesser(count, maxItems),
                                         OrderOf(OrderCode(opt))))
                 /\ Return(ret'.num, ret'.keys)

-----------------------------------------------------------------------------
(* Natives over the whole store.                                           *)

\* The arguments below 1: three limits fall back to their defaults, the two
\* optional ones stay as they are.
LimitsAsked(keys, array, string, opt) ==
    [keys   |-> IF keys > 0 THEN keys ELSE Fallback.keys,
     array  |-> IF array > 0 THEN array ELSE Fallback.array,
     string |-> IF string > 0 THEN string ELSE Fallback.string,
     nss    |-> IF Optional(opt, 1, 0) > 0 THEN opt[1] ELSE 0,
     mb     |-> IF Optional(opt, 2, 0) > 0 THEN opt[2] ELSE 0]

mem_set_limits(keys, array, string, opt) ==
    Configure(LimitsAsked(keys, array, string, opt)) /\ Return(1, <<>>)

\* The four numbers become cells.
mem_get_memory_stats(opt) ==
    /\ GetMemoryStats
    /\ Return(1, [i \in DOMAIN opt |-> To(opt[i], WrapCell(MemoryStats[i]))])

mem_flush_all == ClearBoth /\ Return(1, <<>>)

-----------------------------------------------------------------------------
(* What a plugin may call at any moment.                                   *)

Names == NS \cup {NoName}

\* One empty name is refused like two.
Slots == (NS \X Key) \cup {<<NoName, NoName>>}

\* The optional arguments of an increment: each prefix, then an expiry.
IncWith(d, opt) == <<d, TRUE>> \o opt

IncArgs ==
    {<<>>} \cup {<<d>> : d \in Deltas} \cup
    {IncWith(d, opt) : d \in Deltas, opt \in ExpiryArgs}

StoringNative(ns, k) ==
    \E opt \in ExpiryArgs :
        \/ \E val \in Cells : mem_set_int(ns, k, val, opt)
        \/ mem_set_float(ns, k, opt)
        \/ \E len \in Lengths : mem_set_string(ns, k, len, opt)
        \/ \E size \in Amounts, array \in BOOLEAN : mem_set_array(ns, k, array, size, opt)
        \/ opt # <<>> /\ mem_set_expire(ns, k, Head(opt), Tail(opt))
        \/ /\ sequence < MaxSequence
           /\ \E score \in Scores : mem_rank_set(ns, k, score, opt)

IncrementingNative(ns, k) ==
    \E opt \in IncArgs :
        \/ mem_inc_int(ns, k, opt)
        \/ mem_inc_float(ns, k, opt)
        \/ sequence < MaxSequence /\ mem_rank_inc(ns, k, opt)

GettingNative(ns, k) ==
    \/ \E ref \in BOOLEAN, default \in Cells :
           mem_get_int(ns, k, ref, default) \/ mem_get_float(ns, k, ref)
    \/ \E maxlen \in Amounts, default \in Lengths : mem_get_string(ns, k, maxlen, default)
    \/ \E maxlen \in Amounts, array, ref \in BOOLEAN :
           mem_get_array(ns, k, array, maxlen, ref)
    \/ \E ref \in BOOLEAN : mem_rank_get_score(ns, k, ref)

AskingNative(ns, k) ==
    \/ mem_get_array_size(ns, k)
    \/ mem_get_key_type(ns, k)
    \/ mem_key_exists(ns, k)
    \/ mem_get_ttl(ns, k)
    \/ mem_delete_key(ns, k)
    \/ mem_rank_exists(ns, k)
    \/ mem_rank_delete(ns, k)
    \/ \E opt \in OrderArgs : mem_rank_get_pos(ns, k, opt)

SpaceNative(ns) ==
    \/ mem_clear_namespace(ns)
    \/ mem_get_namespace_count(ns)
    \/ \E index \in Indexes \cup {-1}, maxlen \in Amounts : mem_get_key_at(ns, index, maxlen)
    \/ mem_rank_clear(ns)
    \/ mem_rank_get_count(ns)
    \/ \E pos \in Positions, maxlen \in Amounts, opt \in OrderArgs :
           mem_rank_get_top(ns, pos, maxlen, IF opt = <<>> THEN opt ELSE <<TRUE>> \o opt)
    \/ \E start \in Positions, count, room \in Amounts, opt \in OrderArgs :
           mem_rank_get_range(ns, start, count, room, room, opt)

StoreNative ==
    \/ \E amount \in Amounts, opt \in LimitTails :
           mem_set_limits(amount, amount, amount, opt)
    \/ \E opt \in {<<>>, <<TRUE, FALSE>>, <<TRUE, TRUE, TRUE, TRUE>>} :
           mem_get_memory_stats(opt)
    \/ mem_flush_all

NativeCall ==
    \/ \E slot \in Slots :
           \/ StoringNative(slot[1], slot[2])
           \/ IncrementingNative(slot[1], slot[2])
           \/ GettingNative(slot[1], slot[2])
           \/ AskingNative(slot[1], slot[2])
    \/ \E ns \in Names : SpaceNative(ns)
    \/ StoreNative

\* The sets of arguments the store is specified for have in them what the
\* natives make of theirs: every expiration whose policy is one, every size above
\* 0, the defaults they put for what the caller left out, the limits they fall
\* back to.  What else a caller may pass, their checks must keep out.
StoreTakesArguments ==
    /\ 1 \in Deltas
    /\ \A opt \in ExpiryArgs \cup {<<>>} :
           ExpirationOf(opt).policy \in ExpirePolicy => ExpirationOf(opt) \in Expirations
    /\ \A size \in Amounts : size > 0 => size \in Sizes
    /\ \A count, room \in Amounts :
           count > 0 /\ room > 0 => Lesser(count, room) \in Counts
    /\ \A amount \in Amounts, opt \in LimitTails :
           LimitsAsked(amount, amount, amount, opt) \in LimitArgs

-----------------------------------------------------------------------------
(* What no step does.                                                      *)

\* A native that fails, with an error or without one, leaves every live key and
\* every live score as it was: value, policy and time left.
FailureKeepsLive ==
    [][answer'.result <= 0 =>
          \A ns \in NS, k \in Key :
              /\ Live(ns, k) => Same(ns, k)
              /\ RankLive(ns, k) => RankSame(ns, k)]_nativeVars

\* Whatever a plugin passes, a native makes at most one call of the store and
\* makes it with arguments the store is specified for.
NativesCallStore == [][MemNext]_memSpecVars
=============================================================================
