\* Two flushes of any contents, a worker and a manual compaction over three levels, a
\* cached or evicted block, a batch that ends.
SPECIFICATION Spec
CONSTANTS
    NKeys = 2
    BlockCap = 1
    Contents <- MCContents
    kMaxLevel = 2
    Threshold = 2
    OutCap = 1
    SeqBlock = 2
    Gap = 2
    MaxFlushes = 2
    MaxManual = 1
    MaxReads = 1
    MaxEvents = 1
    MaxCrashes = 0
INVARIANTS  ScanReadsNewest
PROPERTIES SwapKeepsNewest
CHECK_DEADLOCK FALSE
