SPECIFICATION FairSpec
CONSTANTS
    Label = {"n", "c", "s"}
    Creates = {"c"}
    Spends = {"s"}
    MaxHeight = 2
    MaxBatch = 1
    Capacity = 1
    RetryBudget = 2
    MaxSwitches = 1
    MaxWriteErrors = 0
    QuickReset = TRUE
PROPERTY CatchesUp
CHECK_DEADLOCK FALSE
