\* Two threads with one slot or two, two reads each, and
\* a merge of the one table, with the clock advancing twice.
SPECIFICATION Spec
CONSTANTS
    Threads = {1, 2}
    Layouts <- MCLayouts
    Files = {1, 2}
    MaxTs = 2
    MaxReads = 2
INVARIANTS
    CountedUnlessHashesMeet
    NothingLeaksUnlessHashesMeet
    LookupFilesHeld
    ScanFilesHeldUnlessSstFirst
CHECK_DEADLOCK FALSE
