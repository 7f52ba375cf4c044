SPECIFICATION Spec
CONSTANTS
    MaxText = 3
    Messages <- MCMessages
INVARIANTS
    TypeOK
    AsSent
    NothingMadeUp
CHECK_DEADLOCK FALSE
