SPECIFICATION Spec
CONSTANTS
    None = None
    h1 = h1
    h2 = h2
    Files = {"field", "flow", "trigger", "tab", "grant"}
    Types = {"CustomField", "Flow", "ApexTrigger", "CustomTab", "PermissionSet"}
    TypeOf <- Family
    RuleTypes = {"CustomField", "Flow", "ApexTrigger", "PermissionSet"}
    DirectoryOf <- Directory
    Under <- Itself
    Relations <- Edge
    Confidence <- Sure
    NameOrder <- Name
    MinConfidence = 2
    GroundingThreshold = 6500
    ConstraintThreshold = 9000
    AmbiguityMax = 4500
    Handlers = {h1, h2}
    Asked <- TabAsked
    FirstTrees <- FirstOrgs
    Sources <- Orgs
    FirstLogs <- EarlierLogs
    MaxRequests = 2
    MaxEdits = 1
    MaxRefreshes = 1
    MaxAdapts = 1
    MaxFaults = 1
INVARIANTS
    LatestIsScoped
SYMMETRY Alike
CHECK_DEADLOCK FALSE
