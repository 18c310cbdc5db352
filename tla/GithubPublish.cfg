SPECIFICATION Spec
CONSTANTS
    None = None
    h1 = h1
    h2 = h2
    product = product
    mine = mine
    fresh = fresh
    packet = packet
    Handlers = {h1, h2}
    Repos = {product, mine, fresh}
    Proofs = {packet}
    WithPacket = {packet}
    Asked <- AllAsked
    Product = product
    Configured = FALSE
    EnvToken = FALSE
    FirstRepos = {product, mine}
    PageSize = 1
    PageCap = 1
    MaxRequests = 3
    MaxFaults = 1
    MaxOthers = 1
    FirstFiles = 2
    MaxVersions = 2
INVARIANTS
    TypeOK
    OneCommentPerProof
    ReadyNeverProduct
    DispatchedOnce
    FilesTold
PROPERTIES
    PacketsAdvance
SYMMETRY Alike
CHECK_DEADLOCK FALSE
