SPECIFICATION FairSpec
CONSTANTS
    None = None
    Workers = {w1}
    Ctl = ctl
    Creds = {c1, c2}
    Ids = {1, 2, 3}
    Loads <- SmallLoads
INVARIANTS
    TypeOK
    ClientMatchesRead
PROPERTIES
    ReportsTruth
CHECK_DEADLOCK FALSE
