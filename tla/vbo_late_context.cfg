SPECIFICATION Spec
CONSTANTS
    NULL = NULL
    Free = Free
    Blocks = {b1, b2}
    MaxVbo = 3
    RetryBudget = 1
    MaxBatch = 2
    Payloads = {p1, p2}
    PtrSlots <- MCSlots
    MallocMayFail = FALSE
    ExportSets <- MCCore
    Rules = {"binds_generated"}
INVARIANT HeldNamesAreLive
