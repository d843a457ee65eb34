SPECIFICATION Spec
CONSTANTS
    k1 = k1
    k2 = k2
    Keys <- TwoKeys
    Cap = 2
    Gap = 2
    MaxWrites = 3
    MaxBatches = 0
    MaxCrashes = 2
    Deletes = {"normal"}
    Aborts = FALSE
    Reader = FALSE
INVARIANTS RetainedUnlessExposed QuiescentMeansFlushed
SYMMETRY KeySymmetry
CHECK_DEADLOCK FALSE
