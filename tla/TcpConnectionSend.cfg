SPECIFICATION Spec
CONSTANTS
    MaxMessages = 1
    MaxSends = 1
    MaxShutdowns = 1
    SendingCallbacks = {}
CHECK_DEADLOCK FALSE
INVARIANTS
    SendIsThreadSafe
