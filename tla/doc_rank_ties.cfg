\* FirstToScoreStaysAhead, of two keys; a run that ends in a counterexample.
SPECIFICATION RankSpec
CONSTANTS
    n1 = n1
    n2 = n2
    k1 = k1
    k2 = k2
    k3 = k3
    NS = {n1}
    Key = {k1, k2}
    Absent = Absent
    CellMin <- LowestCell
    CellMax = 1
    BytesPerMb = 2
    SizeMod = 16
    MaxTtl = 1
    DefaultTtl = 1
    TicksPerSecond = 1
    MaxTime = 1
    InitLimits <- OrderLimits
    Deltas = {1}
    Expirations <- OrderExpirations
    LimitArgs <- OrderCalls
    Scores = {0}
    Positions = {0, 1, 2, 3}
    Counts = {2}
    MaxSequence = 3
VIEW RankView
SYMMETRY RankSymmetry
PROPERTIES
    FirstToScoreStaysAhead
