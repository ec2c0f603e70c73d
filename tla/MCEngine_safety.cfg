SPECIFICATION Spec
CONSTANTS
    None = None
    Garbled = Garbled
    k1 = k1
    k2 = k2
    v1 = v1
    Zero = zero
    Vals = {zero, v1}
    Keys = {k1}
    Specs <- CreateOnlySpecs
    AllowChoices = {FALSE}
    ProtectedKeys = {}
    Driver <- GroupDriver
    AnnEdits = {"keep", "drop", "garble"}
    Budgets <- SafetyBudgets
INVARIANTS
    TypeOK
    DeletionNeverRaces
    NoLeak
PROPERTIES
    NeverDisowns
    TakeoverNeedsConsent
CHECK_DEADLOCK FALSE
