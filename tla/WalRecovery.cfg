SPECIFICATION Spec
CONSTANTS
    Gap = 2
    MaxLog = 8
    MaxBatches = 2
    MaxCkpts = 2
    MaxRestarts = 2
    TornTail = TRUE
INVARIANTS NoBatchLeak NothingLostUnlessShadowed RecoverExact
CHECK_DEADLOCK FALSE
