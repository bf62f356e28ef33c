SPECIFICATION Spec
CONSTANTS
    Threads = {t1}
    BufferLines = 2
    MAX_PENDING_BUFFERS = 1
    MaxLines = 2
CHECK_DEADLOCK FALSE
INVARIANTS
    FatalFlushesAll
