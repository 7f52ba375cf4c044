SPECIFICATION FairSpec
CONSTANTS
    energy = energy
    power = power
    None = None
    Newline = Newline
    Mark = Mark
    Zero = Zero
    Noise = Noise
    Codes <- MCCodes
    Data <- MCData
    Octet <- MCOctet
    Text <- MCText
    Capacity = 2
    RingSize = 2
    BufSize = 6
    ClearAt = 4
    PushMod = 2
    MaxFaults = 1
INVARIANTS
    TypeOK
    RoomLeft
PROPERTIES
    CutsDoNotMatter
    LeavesAtEnd
    ShowsLatest
    KeepsReading
