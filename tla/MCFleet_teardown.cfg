SPECIFICATION FairSpec
CONSTANTS
    None = None
    r1 = r1
    n1 = n1
    n2 = n2
    o1 = o1
    o2 = o2
    o3 = o3
    Objects = {o1, o2, o3}
    Realms = {r1}
    Names = {n1, n2}
    Loads <- TeardownLoads
PROPERTIES
    TeardownCompletes
CHECK_DEADLOCK FALSE
