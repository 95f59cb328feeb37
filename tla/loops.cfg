\* Two keys, iterations inside callbacks, expiry.
SPECIFICATION LoopsSpec
CONSTANTS
    n1 = n1
    k1 = k1
    k2 = k2
    k3 = k3
    NS = {n1}
    Key = {k1, k2}
    Absent = Absent
    NoCache = NoCache
    NoName = NoName
    CellMin = 0
    CellMax = 2
    CellBytes = 2
    BytesPerMb = 2
    SizeMod = 8
    MaxTtl = 1
    DefaultTtl = 1
    TicksPerSecond = 1
    MaxTime = 1
    InitLimits <- LoopLimits
    Cells = {0}
    Deltas = {}
    Lengths = {1}
    Sizes = {}
    Expirations <- LoopExpirations
    Indexes = {0}
    LimitArgs = {}
    Scores = {}
    Positions = {}
    Counts = {}
    MaxSequence = 0
    Fallback <- LoopFallback
    ExpiryArgs <- LoopExpiries
    OrderArgs = {}
    Amounts = {1}
    LimitTails = {}
    MaxDepth = 2
VIEW LoopsView
INVARIANTS
    ForwardsBalanced
PROPERTIES
    IterationComplete
    IterationEnds
