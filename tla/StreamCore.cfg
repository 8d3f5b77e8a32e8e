SPECIFICATION FairSpec
CONSTANTS
    b1 = b1
    b2 = b2
    Viewers = {b1, b2}
    MaxLines = 2
    MaxPackets = 2
INVARIANTS
    TypeOK
    ScreenInOrder
    RoomSeesAll
PROPERTIES
    EveryLineShown
