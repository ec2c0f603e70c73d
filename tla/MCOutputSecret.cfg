SPECIFICATION FairSpec
CONSTANTS
    None = None
    Names = {n1, n2}
    Keys = {key1, key2}
    Values = {v1, v2}
    Mine = Mine
    MaxUser = 2
    MaxServer = 1
    MaxFault = 1
INVARIANTS
    TypeOK
PROPERTIES
    ForeignKept
    EntriesKept
    Exported
    InPlaceKept
    Settles
CHECK_DEADLOCK FALSE
