SPECIFICATION FairSpec
CONSTANTS
    None = None
    Unlisted = Unlisted
    Clients = 2
    Names = {n1, n2}
    Kinds = {"role", "group", "client"}
    MaxUser = 2
    MaxAdmin <- AdminsByKind
    MaxFault = 1
INVARIANTS
    TypeOK
    SuccessEnforces
PROPERTIES
    GrantsKept
    UnsetUntouched
    Enforced
