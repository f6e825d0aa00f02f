SPECIFICATION Spec
CONSTANTS
    Label = {"a", "b"}
    Key = {"stats", "object"}
    StatsKey = {"stats"}
    Touch <- MCTouch
    MaxHeight = 3
    MaxHandoff = 1
    MaxBatch = 2
    DeepForkDepth = 3
    RetainBlocks = 3
    MaxSwitches = 2
    MaxCrashes = 1
    MaxWriteErrors = 0
INVARIANT CanonicalRowsExact
CHECK_DEADLOCK FALSE
