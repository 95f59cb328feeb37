\* KeyAtLeavesHeapIntact, of one namespace; a run that ends in a counterexample.
SPECIFICATION KVSpec
CONSTANTS
    n1 = n1
    n2 = n2
    k1 = k1
    k2 = k2
    NS = {n1}
    Key = {k1, k2}
    Absent = Absent
    NoCache = NoCache
    CellMin <- LowestCell
    CellMax = 1
    CellBytes = 2
    BytesPerMb = 2
    SizeMod = 16
    MaxTtl = 1
    DefaultTtl = 1
    TicksPerSecond = 1
    MaxTime = 1
    InitLimits <- DataLimits
    Cells <- DataCells
    Deltas = {1}
    Lengths = {2, 4}
    Sizes = {2}
    Expirations <- DataExpirations
    Indexes = {0, 1}
    LimitArgs <- DocCalls
VIEW StoreView
PROPERTIES
    KeyAtLeavesHeapIntact
