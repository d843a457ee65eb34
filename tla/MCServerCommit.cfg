\* One connection that loads a batch and commits it.
SPECIFICATION FairSpec
CONSTANTS
    Clients <- OneClient
    Plans <- OneBatch
    Preload <- MCPreload
    KeySize <- MCKeySize
    Overhead = 2
    max_queue_bytes = 4
    mini_batch_size = 2
    kMaxCasDeferred = 2
    Gap = 2
    Word = 64
CHECK_DEADLOCK FALSE
PROPERTIES CommitFinalized
