\* Two leaderboards at their limits, under every policy.
SPECIFICATION RankSpec
CONSTANTS
    n1 = n1
    n2 = n2
    k1 = k1
    k2 = k2
    k3 = k3
    NS = {n1, n2}
    Key = {k1, k2}
    Absent = Absent
    CellMin <- LowestCell
    CellMax = 1
    BytesPerMb = 2
    SizeMod = 16
    MaxTtl = 1
    DefaultTtl = 1
    TicksPerSecond = 1
    MaxTime = 1
    InitLimits <- LifeLimits
    Deltas = {0}
    Expirations <- LifeExpirations
    LimitArgs <- LifeCalls
    Scores = {1}
    Positions = {1}
    Counts = {1}
    MaxSequence = 3
VIEW RankView
SYMMETRY RankSymmetry
INVARIANTS
    NoEmptyBoard
PROPERTIES
    RankLimitsRespected
    LiveScoreKept
