SPECIFICATION Spec
CONSTANTS
    None = None
    dev = dev
    uat = uat
    h1 = h1
    h2 = h2
    Aliases = {dev, uat}
    Configured = dev
    Types = {"CustomObject", "Flow", "CustomField"}
    SeedTypes = {"CustomObject"}
    SearchOnlyTypes = {"CustomField"}
    OrgTypes <- TwoOrgs
    Handlers = {h1, h2}
    Components = {"account", "routing"}
    TypeOf <- Families
    AliasRequests <- AliasCalls
    RetrieveRequests <- Retrieves
    SelectedRequests <- SelectedRetrieves
    CatalogRequests <- Browsing
    Keychains = {{dev}}
    SfRetryCount = 1
    MaxRequests = 2
    MaxLogins = 1
    MaxFaults = 1
INVARIANTS
    TypeOK
    AuditExplainsSession
    CompletedRetrieveIsInGraph
    CacheIsOneOrgs
PROPERTIES
    SessionIsRegister
    RequestsAnswered
CHECK_DEADLOCK FALSE
