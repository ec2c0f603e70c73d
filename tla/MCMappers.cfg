SPECIFICATION FairSpec
CONSTANTS
    None = None
    Names = {m1, m2}
    Configs = {a, b}
    MaxUser = 1
    MaxAdmin = 2
    MaxFault = 1
INVARIANTS
    TypeOK
    SuccessEnforces
PROPERTIES
    OnlyRepairs
    Enforced
