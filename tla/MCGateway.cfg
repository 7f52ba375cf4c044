SPECIFICATION FairSpec
CONSTANTS
    Offered = {"e570"}
    Unset = Unset
    Empty = Empty
    Cut = Cut
    MaxRetry = 1
INVARIANTS
    TypeOK
    GivesUpRightly
    OnlineIsRevocable
PROPERTIES
    BackInReach
    BackOnline
    StatusFollows
