\* One shard of each cache.
SPECIFICATION Spec
CONSTANTS
    Setups <- MCSetups
    Sizes = {1, 2}
    Big = 4
    Gap = 1
    Readers = {1}
    MaxTs = 3
    MaxReads = 2
INVARIANTS
    TableHitsCurrentUnlessCut
    ShardSoundUnlessLeaky
    
CHECK_DEADLOCK FALSE
