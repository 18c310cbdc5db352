SPECIFICATION Spec
CONSTANTS
    Fixtures = Fixtures
    Org = Org
    c1 = c1
    c2 = c2
    Boot = Boot
    None = None
    Sources = {Fixtures, Org}
    FixturesSource = Fixtures
    PathClass <- TwoClasses
    Trees <- FlatTrees
    Callers = {c1, c2}
    EnforceOnRefresh = TRUE
    BootstrapModes = {TRUE}
    Budgets <- TightBudgets
    AllowedNodeTypes = {}
    AllowedRelations = {}
    MaxRequests = 2
    MaxEdits = 1
    MaxFaults = 1
INVARIANTS
    TypeOK
    OneRefresh
    GraphAdmissible
    AuditCoversSnapshots
    StoresAgree
PROPERTIES
    DriftGate
SYMMETRY CallerSymmetry
CHECK_DEADLOCK FALSE
