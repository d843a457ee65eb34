SPECIFICATION FairSpec
CONSTANTS
    w1 = w1
    a1 = a1
    Writers <- OneWriter
    Aborters <- NoAborter
    Worker = Worker
    Batcher = Batcher
    NoOne = NoOne
    Gap = 2
    MinSync = 2
    MaxSeq = 3
    MaxBatches = 2
INVARIANTS AckedDurable CommitDurable CleanShutdown
PROPERTIES RefinesDurableLog EventuallyAcked CommitCompletes
