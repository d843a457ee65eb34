\* Four flushes into two levels and a crash: names, manifest and file collection.
SPECIFICATION FairSpec
CONSTANTS
    NKeys = 2
    BlockCap = 1
    Contents <- PlainContents
    kMaxLevel = 1
    Threshold = 2
    OutCap = 1
    SeqBlock = 2
    Gap = 2
    MaxFlushes = 4
    MaxManual = 0
    MaxReads = 0
    MaxEvents = 0
    MaxCrashes = 1
INVARIANTS RestartKeepsUnlessRemovals
PROPERTIES  LevelZeroDrains 
CHECK_DEADLOCK FALSE
