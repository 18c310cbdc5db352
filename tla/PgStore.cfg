SPECIFICATION Spec
CONSTANTS
    None = None
    PoolMax = 2
    Readers = {"ready", "impact"}
    Payloads <- Stored
    First <- Old
    MaxRebuilds = 2
    MaxReads = 2
    MaxFaults = 1
INVARIANTS
    TypeOK
    ReadyIsGrounded
PROPERTIES
    QuietRebuildIsAtomic
    RebuildEnds
CHECK_DEADLOCK FALSE
