SPECIFICATION Spec
CONSTANTS
    NULL = NULL
    Free = Free
    Blocks = {b1, b2, b3}
    MaxVbo = 4
    RetryBudget = 1
    MaxBatch = 2
    Payloads = {p1, p2}
    PtrSlots <- MCSlots
    ExportSets <- MCSome
    MallocMayFail = TRUE
    Rules = {"binds_generated", "context_first"}
INVARIANTS HeldNamesAreLive DrawsReadStores
PROPERTIES GenNamesAreNew ImplementsGLBuffers
SYMMETRY MCSymmetry
