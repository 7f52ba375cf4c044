SPECIFICATION FairSpec
CONSTANTS
    setup = setup
    voltage = voltage
    current = current
    power = power
    None = None
    Codes <- MCCodes
    Data <- MCData
    Layout <- MCLayout
    Capacity = 4
    MaxList = 6
    MaxBlocks = 4
    Bursts = FALSE
    PushMod = 2
    MaxFaults = 2
INVARIANTS
    TypeOK
    Unique
    FiledRight
    ShowsLastPush
PROPERTY
    BackInStep
