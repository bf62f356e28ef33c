CONSTANTS
    NumLoops = 2
    NumClients = 3
    MAX_CONNECTION_NUMS = 1

SPECIFICATION Spec

CHECK_DEADLOCK FALSE

INVARIANTS
    TypeOK
    OpenBounded
    HeldWhileOpen
    SingleLoopOrderly
    

PROPERTIES
    CloseReleases
