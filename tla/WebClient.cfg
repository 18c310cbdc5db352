SPECIFICATION Spec
CONSTANTS
    None = None
    Whole = Whole
    Aliases = {a1, a2}
    Families = {"Flow"}
    Members = {"Renewal"}
    s1 = s1
    a1 = a1
    a2 = a2
    s2 = s2
    Slots = {s1, s2}
    Requests = {1, 2, 3}
    Budgets <- Scenarios
SYMMETRY Alike
INVARIANTS
    TypeOK
    HandoffIsOneRetrieve
    CompleteIsBuilt
    ShownIsSelected
CHECK_DEADLOCK FALSE
