SPECIFICATION Spec
CONSTANTS
    Budgets <- SmallBudgets
    AllowedNodeTypes = {"ApexPage"}
    AllowedRelations = {"GRANTS_FIELD"}
INVARIANTS
    ChangesAreSeen
    VerdictIsReference
    RollbackAllowed
    MergeKeepsValidity
    GrantIsTraceable
