SPECIFICATION Spec
CONSTANTS
    NULL = NULL
    Free = Free
    Blocks = {b1, b2, b3}
    MaxVbo = 3
    RetryBudget = 1
    MaxBatch = 2
    Payloads = {p1, p2}
    PtrSlots <- MCSlots
    ExportSets <- MCSome
    MallocMayFail = TRUE
    Rules = {"binds_generated"}
INVARIANTS TypeOK SlotsAgree OwnedBlocks NoOldLife LiveCount
PROPERTY DecisionIsFinal
SYMMETRY MCSymmetry
