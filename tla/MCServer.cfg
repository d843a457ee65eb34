\* Two or three connections with up to four requests each.
SPECIFICATION Spec
CONSTANTS
    Clients <- MCClients
    Plans <- MCPlans
    Preload <- MCPreload
    KeySize <- MCKeySize
    Overhead = 1
    max_queue_bytes = 7
    mini_batch_size = 1
    kMaxCasDeferred = 2
    Gap = 2
    Word = 64
CHECK_DEADLOCK FALSE
INVARIANTS AnswersTruthful OrderKeptUnlessRequeued 
           AbortHiddenUnlessRaced NoneLeftAsleep ExitAnswersAllUnlessUnsynced
PROPERTIES CasAtomicUnlessBatchEnds
