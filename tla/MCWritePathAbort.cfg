SPECIFICATION FairSpec
CONSTANTS
    w1 = w1
    a1 = a1
    Writers <- OneWriter
    Aborters <- OneAborter
    Worker = Worker
    Batcher = Batcher
    NoOne = NoOne
    Gap = 2
    MinSync = 2
    MaxSeq = 2
    MaxBatches = 2
PROPERTIES EventuallyDurable
