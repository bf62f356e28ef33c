SPECIFICATION RecvSpec
CONSTANTS
    InitialSize = 3
    Width = 8
    StreamBound = 12
INVARIANTS
    TypeOK
    RoomToRead
    ReadableInOrder
    ViewInOrder
PROPERTY MoveDisjoint
