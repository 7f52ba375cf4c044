SPECIFICATION Spec
CONSTANTS
    NumObis = 2
    MaxRetries = 3
    SeqMod = 8
    CounterMod = 2
    ReceiveTimeout = 3000
    LateReplies = TRUE
    SlowReaders = FALSE
    MaxFaults = 1
INVARIANT
    Attribution
