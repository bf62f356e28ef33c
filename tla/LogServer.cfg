SPECIFICATION FairSpec
CONSTANTS
    Threads = {t1, t2}
    BufferLines = 1
    MAX_PENDING_BUFFERS = 1
    MaxLines = 6
CHECK_DEADLOCK FALSE
INVARIANTS
    TypeOK
    LinesInOrder
    BuffersBounded
    ForceFlushCovers
    NoLostNotify
PROPERTIES
    LinesFlushed
    DestroyReturns
