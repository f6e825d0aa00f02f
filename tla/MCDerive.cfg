SPECIFICATION FairSpec
CONSTANTS
    Aggregates = 2
    Rows = 2
    MaxHeight = 3
    MaxHandoff = 2
    MaxBatch = 2
    MaxRollbacks = 2
    MaxCrashes = 1
INVARIANT TypeOK
INVARIANT FoldingAccounts
INVARIANT ServedUnlessTorn
INVARIANT ResetIsEmpty
INVARIANT StartupAccepts
PROPERTY EventuallyComplete
CHECK_DEADLOCK FALSE
