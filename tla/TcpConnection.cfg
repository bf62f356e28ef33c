SPECIFICATION Spec
CONSTANTS
    MaxMessages = 2
    MaxSends = 2
    MaxShutdowns = 2
    SendingCallbacks = {"connection", "message"}
CHECK_DEADLOCK FALSE
INVARIANTS
    TypeOK
    AssertionsHold
    NoLostWriteInterest
    AllDataDelivered
PROPERTIES
    StateMachine
    CloseCompletes
