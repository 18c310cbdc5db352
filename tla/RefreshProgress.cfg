SPECIFICATION FairSpec
CONSTANTS
    Fixtures = Fixtures
    Org = Org
    c1 = c1
    c2 = c2
    Boot = Boot
    None = None
    Sources = {Fixtures}
    FixturesSource = Fixtures
    PathClass <- OneClass
    Trees <- LiveTrees
    Callers = {c1}
    EnforceOnRefresh = TRUE
    BootstrapModes = {TRUE, FALSE}
    Budgets <- TightBudgets
    AllowedNodeTypes = {}
    AllowedRelations = {}
    MaxRequests = 2
    MaxEdits = 1
    MaxFaults = 1
INVARIANT SkipIsSound
PROPERTIES LockReleased StartupSettles
CHECK_DEADLOCK FALSE
