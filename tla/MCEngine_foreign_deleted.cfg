SPECIFICATION Spec
CONSTANTS
    None = None
    Garbled = Garbled
    k1 = k1
    k2 = k2
    v1 = v1
    Zero = zero
    Vals = {zero, v1}
    Keys = {k1}
    Specs <- CreateOnlySpecs
    AllowChoices = {FALSE}
    ProtectedKeys = {}
    Driver <- RealmRoleDriver
    AnnEdits = {"keep"}
    Budgets <- ForeignBudgets
PROPERTIES
    ForeignNeverDeleted
CHECK_DEADLOCK FALSE
