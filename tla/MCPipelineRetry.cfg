SPECIFICATION FairSpec
CONSTANTS
    Label = {"n", "c", "s"}
    Creates = {"c"}
    Spends = {"s"}
    MaxHeight = 3
    MaxBatch = 2
    Capacity = 1
    RetryBudget = 2
    MaxSwitches = 0
    MaxWriteErrors = 2
    QuickReset = TRUE
 
 
PROPERTY CatchesUp
CHECK_DEADLOCK FALSE
