SPECIFICATION FairSpec
CONSTANTS
    Label = {"n", "c", "s"}
    Creates = {"c"}
    Spends = {"s"}
    MaxHeight = 2
    MaxBatch = 2
    Capacity = 1
    RetryBudget = 2
    MaxSwitches = 2
    MaxWriteErrors = 1
    QuickReset = TRUE
PROPERTY CommitsExtendTip
PROPERTY CatchesUpUnlessStranded
CHECK_DEADLOCK FALSE
