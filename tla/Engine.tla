------------------------------- MODULE Engine -------------------------------
(***************************************************************************)
(* What the key-value half and the rank half of MemStoreManager share: the *)
(* limits, the steady clock, and the way a method answers its caller.      *)
(*                                                                         *)
(* The host calls the module from one thread, so every public method is    *)
(* one action.  A method may read the steady clock more than once; the     *)
(* model reads it once per call, so time passes only between calls.        *)
(***************************************************************************)
EXTENDS Expiry, FiniteSets, Sequences

CONSTANTS
    NS, Key,              \* namespace and key names
    Absent,               \* no entry under a key
    CellMin, CellMax,     \* range of a Pawn cell (int32 in the build)
    BytesPerMb,           \* bytes in a megabyte
    SizeMod,              \* size_t arithmetic is modulo this (2^32)
    InitLimits,           \* the limits the constructor sets
    Deltas, Expirations,  \* arguments: increments, policy and extra
    LimitArgs,            \* arguments: set_limits calls
    MaxTime               \* bound of the clock

Cell == CellMin..CellMax

Limits == [maxKeys : Nat \ {0}, maxArray : Nat \ {0}, maxString : Nat \ {0},
           maxNs : Nat \ {0}, maxMem : 0..(SizeMod - 1)]

\* A set_limits call; a component of 0 leaves that limit as it is.
LimitCall == [keys : Nat, array : Nat, string : Nat, nss : Nat, mb : Nat]

\* The public methods, and the end of a server whose heap broke.
Method == {"MemStoreManager", "SetInt", "SetFloat", "SetString", "SetArray",
    "GetInt", "GetFloat", "GetString", "GetArray", "GetArraySize", "GetKeyType",
    "KeyExists", "GetTTL", "DeleteKey", "ClearNamespace", "SetExpire", "IncInt",
    "IncFloat", "GetNamespaceCount", "GetActiveKeys", "GetKeyAt", "RankSet",
    "RankInc", "RankDelete", "RankClear", "RankGetScore", "RankExists",
    "RankGetPosition", "RankGetTop", "RankGetRange", "RankGetCount",
    "SweepMapEnd", "ClearAll", "SetLimits", "GetMemoryStats", "HeapAbort"}

ASSUME EngineAssumption ==
    /\ IsFiniteSet(NS) /\ IsFiniteSet(Key)
    /\ CellMin \in Int /\ CellMax \in Int /\ 0 \in Cell
    /\ BytesPerMb \in Nat \ {0} /\ SizeMod \in Nat \ {0}
    /\ InitLimits \in Limits
    /\ Deltas \subseteq Cell
    /\ Expirations \subseteq Expiration
    /\ LimitArgs \subseteq LimitCall
    /\ MaxTime \in Nat

VARIABLES
    limits,        \* the m_Max... fields
    now,           \* the steady clock
    call,          \* the last method called
    ret            \* what it returned

EngineInit ==
    /\ limits = InitLimits
    /\ now = 0
    /\ call = "MemStoreManager"
    /\ ret = [ok |-> FALSE, num |-> 0, keys |-> <<>>]

EngineTypeOK ==
    /\ limits \in Limits
    /\ now \in Nat
    /\ call \in Method
    /\ ret \in [ok : BOOLEAN, num : Int, keys : Seq(Key)]

\* The boolean a method returns, the number and the keys it hands back.
Ret(ok, num, keys) == [ok |-> ok, num |-> num, keys |-> keys]
Failed == Ret(FALSE, 0, <<>>)
Succeeded == Ret(TRUE, 0, <<>>)

\* Tells apart two methods whose effects happen to agree.
Called(method) == call' = method

\* A signed cell that overflows wraps round.
WrapCell(x) == ((x - CellMin) % (CellMax - CellMin + 1)) + CellMin

\* Mutant: takes 0 for a limit.
AsGiven(new, old) == new

\* An argument of 0 leaves the limit as it is.
Updated(new, old) == IF new > 0 THEN new ELSE old

\* SetLimits: the megabytes are turned into bytes in a size_t.
UpdateLimits(a) ==
    limits' = [maxKeys   |-> Updated(a.keys, limits.maxKeys),
               maxArray  |-> Updated(a.array, limits.maxArray),
               maxString |-> Updated(a.string, limits.maxString),
               maxNs     |-> Updated(a.nss, limits.maxNs),
               maxMem    |-> IF a.mb > 0 THEN (a.mb * BytesPerMb) % SizeMod
                             ELSE limits.maxMem]

\* What one map change may make of an entry: it ends by its policy, or it has
\* one map change less and is otherwise as it was.  Said of both halves.
OneMapOlder(e, later) ==
    IF \/ e.policy = "MapEnd"
       \/ e.policy = "MapCount" /\ e.until <= 1
       \/ e.policy = "TTL" /\ now >= e.until
    THEN later = Absent
    ELSE later = [e EXCEPT !.until = IF e.policy = "MapCount" THEN @ - 1 ELSE @]

AdvanceClock == now < MaxTime /\ now' = now + 1
=============================================================================
