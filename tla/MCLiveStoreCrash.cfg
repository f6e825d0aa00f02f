SPECIFICATION Spec
CONSTANTS
    Label = {"a", "b"}
    Key = {"stats", "object"}
    StatsKey = {"stats"}
    Touch <- MCTouch
    MaxHeight = 3
    MaxHandoff = 1
    MaxBatch = 2
    DeepForkDepth = 1
    RetainBlocks = 1
    MaxSwitches = 2
    MaxCrashes = 2
    MaxWriteErrors = 1
INVARIANT TypeOK
INVARIANT NoOrphanRows
INVARIANT OnlyTornRowsMissing
INVARIANT UndoCoversWindow
INVARIANT HeadersLinked
INVARIANT SummaryTracksTip
INVARIANT StartupRecovers
PROPERTY DeepForkFreezesStore
PROPERTY ImplementsTipView
CHECK_DEADLOCK FALSE
