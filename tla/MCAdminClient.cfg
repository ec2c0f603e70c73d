SPECIFICATION FairClientSpec
CONSTANTS
    Goroutines = {w1, w2}
    Free = Free
    MaxCalls = 4
    MaxRevoke = 2
    MaxFaults = 1
INVARIANTS
    ClientTypeOK
    OneGrantAtATime
    SecondTokenIsNew
PROPERTIES
    CallsReturn
CHECK_DEADLOCK FALSE
