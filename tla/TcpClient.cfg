CONSTANTS
    MaxRetries = 2
    MaxConnects = 3
    MaxDisconnects = 2

SPECIFICATION Spec

CHECK_DEADLOCK FALSE

INVARIANTS
    TypeOK
    NeverStuck
    FailureCauses

PROPERTIES
    DisconnectIsFinal
    ClientDiagramSpec
    FailedConnectRetried
