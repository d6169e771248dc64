CHECK_DEADLOCK FALSE
SPECIFICATION StreamSpec
CONSTANTS
    QueueMax = 1
    Batch = 2
    WireMax = 2
    MaxSeq = 3
    MaxConnects = 2
    MaxSwaps = 1
    MaxResubs = 1
INVARIANTS
    NothingLost
    InOrder
PROPERTIES
    CatchesUp
