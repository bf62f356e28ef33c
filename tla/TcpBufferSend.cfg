SPECIFICATION SendSpec
CONSTANTS
    InitialSize = 4
    Width = 8
    StreamBound = 10
INVARIANT PositionsInOrder
