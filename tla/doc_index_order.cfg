\* IndexesNameEveryKey, of three keys; a run that ends in a counterexample.
SPECIFICATION LoopsSpec
CONSTANTS
    n1 = n1
    k1 = k1
    k2 = k2
    k3 = k3
    NS = {n1}
    Key = {k1, k2, k3}
    Absent = Absent
    NoCache = NoCache
    NoName = NoName
    CellMin = 0
    CellMax = 3
    CellBytes = 2
    BytesPerMb = 2
    SizeMod = 8
    MaxTtl = 1
    DefaultTtl = 1
    TicksPerSecond = 1
    MaxTime = 1
    InitLimits <- LoopLimits
    Cells = {0}
    Deltas = {}
    Lengths = {}
    Sizes = {}
    Expirations <- LoopExpirations
    Indexes = {0}
    LimitArgs = {}
    Scores = {}
    Positions = {}
    Counts = {}
    MaxSequence = 0
    Fallback <- LoopFallback
    ExpiryArgs <- LoopExpiries
    OrderArgs = {}
    Amounts = {1}
    LimitTails = {}
    MaxDepth = 1
VIEW LoopsView
SYMMETRY KeySymmetry
PROPERTIES
    IndexesNameEveryKey
