SPECIFICATION FairSpec
CONSTANTS
    NumObis = 2
    MaxRetries = 3
    SeqMod = 2
    CounterMod = 2
    ReceiveTimeout = 3000
    LateReplies = TRUE
    SlowReaders = TRUE
    MaxFaults = 3
PROPERTIES
    CycleEnds
    Recovery
