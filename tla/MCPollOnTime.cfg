SPECIFICATION Spec
CONSTANTS
    NumObis = 3
    MaxRetries = 3
    SeqMod = 4
    CounterMod = 2
    ReceiveTimeout = 3000
    LateReplies = FALSE
    SlowReaders = FALSE
    MaxFaults = 3
INVARIANTS
    TypeOK
    Attribution
    SequenceAgreement
PROPERTIES
    CallbackDeliversFresh
    KeepsPromise
