SPECIFICATION Spec
CONSTANTS
    setup = setup
    voltage = voltage
    current = current
    power = power
    None = None
    Codes <- MCCodes
    Data <- MCData
    Layout <- MCLayout
    Capacity = 4
    MaxList = 30
    MaxBlocks = 4
    Bursts = TRUE
    PushMod = 2
    MaxFaults = 0
INVARIANT
    ShowsLastPush
