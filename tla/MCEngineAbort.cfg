SPECIFICATION FairSpec
CONSTANTS
    k1 = k1
    k2 = k2
    Keys <- OneKey
    Cap = 2
    Gap = 1
    MaxWrites = 2
    MaxBatches = 1
    MaxCrashes = 0
    Deletes = {"batch"}
    Aborts = TRUE
    Reader = TRUE
INVARIANTS AbortHiddenUnlessSpilled 
PROPERTIES FlushReturns
CHECK_DEADLOCK FALSE
