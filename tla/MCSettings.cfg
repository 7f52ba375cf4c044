SPECIFICATION PageSpec
CONSTANTS
    Offered = {"e570", "e450", "mbus"}
    Unset = Unset
    Empty = Empty
    Cut = Cut
    MaxEdits = 1
INVARIANTS
    PageTypeOK
    SavedAsEntered
    
    UsedIsStored
    TornSave
