SPECIFICATION FairSpec
CONSTANTS
    NumObis = 0
    MaxRetries = 3
    SeqMod = 8
    CounterMod = 2
    ReceiveTimeout = 0
    LateReplies = FALSE
    SlowReaders = FALSE
    MaxFaults = 0
PROPERTY
    MeterReached
