SPECIFICATION Spec
CONSTANTS
    Flag = Flag
    Noise = Noise
    Slash = Slash
    BufSize = 6
    MaxFrames = 3
    MaxLine = 8
    MaxFaults = 2
INVARIANTS
    TypeOK
    CleanLineLosesNone
    InOrder
    RoomLeft
PROPERTIES
    NothingIntactLost
    GivesUpRightly
CHECK_DEADLOCK FALSE
