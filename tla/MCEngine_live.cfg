SPECIFICATION FairSpec
CONSTANTS
    None = None
    Garbled = Garbled
    k1 = k1
    k2 = k2
    v1 = v1
    Zero = zero
    Vals = {zero, v1}
    Keys = {k1, k2}
    Specs <- PolicySpecs
    AllowChoices = {FALSE}
    ProtectedKeys = {}
    Driver <- ClientDriver
    AnnEdits = {"keep"}
    Budgets <- LiveBudgets
INVARIANTS
    RecordsOnlyEnforced
PROPERTIES
    Converges
    DeletionCompletes
    GoesQuiet
    ImplementsLifecycle
CHECK_DEADLOCK FALSE
