CONSTANTS
    Graphs <- DistinctLabels
    Changes <- CuratedChanges
    Positions <- Drags
    MaxSteps = 2
    k1 = k1  k2 = k2  k3 = k3  k4 = k4  ann = ann  bob = bob  x = x  y = y
    WeekLength = 2
    Now = 7
    RollingWindow = 2
    ChurnWindow = 3
    TopAuthors = 1
    SizeLimits <- SomeLimits
    Histories <- SomeHistories
    Lightweight = {k1, k2}
    TooLarge = {k3}
    Unknown = unknown
    Cutoffs <- SomeCutoffs
    Ranges = {"range"}
    HydrateChunk = 1
    MayFail = {"view", "analytics", "stats", "identities"}
    AnalyticsSteps = 4
SPECIFICATION ViewsSpec
INVARIANTS ParentsBelow NoOverlap MergedChainsTogether RequestsAccounted ChartsMeanTheCommits
PROPERTIES PositionsSurvive DrawnHitTheirLane
CHECK_DEADLOCK FALSE
