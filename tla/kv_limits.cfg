\* Two namespaces and two keys at their limits.
SPECIFICATION KVSpec
CONSTANTS
    n1 = n1
    n2 = n2
    k1 = k1
    k2 = k2
    NS = {n1, n2}
    Key = {k1, k2}
    Absent = Absent
    NoCache = NoCache
    CellMin <- LowestCell
    CellMax = 1
    CellBytes = 2
    BytesPerMb = 2
    SizeMod = 16
    MaxTtl = 1
    DefaultTtl = 1
    TicksPerSecond = 1
    MaxTime = 1
    InitLimits <- LimitLimits
    Cells <- DataCells
    Deltas = {}
    Lengths = {}
    Sizes = {}
    Expirations <- LimitExpirations
    Indexes = {0}
    LimitArgs <- LimitCalls
VIEW StoreView
SYMMETRY StoreSymmetry
INVARIANTS
    NoEmptyNamespace
    CacheOwned
PROPERTIES
    LimitsRespected
