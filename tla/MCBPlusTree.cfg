\* A reader races three insertions into a tree of depth two, or four into an empty one; a
\* threshold of three makes pages come back from the pool while the reader runs.
SPECIFICATION Spec
CONSTANTS
    Shapes <- MCShapes
    ReadKeys = {2, 3}
    Fanout = 3
    Threshold = 3
    HasFence = TRUE
    Readers = {1}
    MaxReads = 1
INVARIANTS
    PagesHeld
    LookupFreshUnlessTorn
    ScanCompleteUnlessTorn
    BuffersFit
CHECK_DEADLOCK FALSE
