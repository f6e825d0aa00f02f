SPECIFICATION FairSpec
CONSTANTS
    Label = {"a", "b"}
    Key = {"stats", "object"}
    StatsKey = {"stats"}
    Touch <- MCTouch
    MaxHeight = 3
    MaxHandoff = 1
    MaxBatch = 2
    DeepForkDepth = 3
    RetainBlocks = 1
    MaxSwitches = 1
    MaxCrashes = 0
    MaxWriteErrors = 3
INVARIANT RowsExact
PROPERTY CatchesUp
CHECK_DEADLOCK FALSE
