SPECIFICATION Spec
CONSTANTS
    Table <- MCTable
    Variadic <- MCVariadic
    MaxTraps = 2
    SegmentTable <- MCSegments
    Span = 20
    Granule = 4
    HostPages = {6, 13, 18}
INVARIANTS EntryAgrees SegmentsInPlace NoRaceLost CallsReachHost WrappersStay
CHECK_DEADLOCK FALSE
