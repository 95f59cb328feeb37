\* One namespace, one key, every policy, every native, several maps.
SPECIFICATION ModuleSpec
CONSTANTS
    n1 = n1
    k1 = k1
    NS = {n1}
    Key = {k1}
    Absent = Absent
    NoCache = NoCache
    NoName = NoName
    CellMin = 0
    CellMax = 1
    CellBytes = 1
    BytesPerMb = 1
    SizeMod = 2
    MaxTtl = 1
    DefaultTtl = 1
    TicksPerSecond = 1
    MaxTime = 1
    InitLimits <- ModuleLimits
    Cells = {0}
    Deltas = {1}
    Lengths = {1}
    Sizes = {1}
    Expirations <- ModuleExpirations
    Indexes = {0}
    LimitArgs <- ModuleCalls
    Scores = {0}
    Positions = {0, 1}
    Counts = {1}
    MaxSequence = 1
    Fallback <- ModuleFallback
    ExpiryArgs <- ModuleExpiryArgs
    OrderArgs <- ModuleOrderArgs
    Amounts = {0, 1}
    LimitTails <- ModuleTails
    MaxDepth = 1
    HostVersions = {3, 4}
VIEW ModuleView
INVARIANTS
    MapCountRemains
    TtlWithinCap
    NoNullCalls
    DetachedIsEmpty
PROPERTIES
    LiveEntryKept
    FailureKeepsLive
    NativesCallStore
    MapChangeKeeps
