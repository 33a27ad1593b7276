SPECIFICATION FairSpec
CONSTANTS
    MaxArgs = 7
    BufWords = 24
    MaxDepth = 3
    Values <- MCValues
    PageSize = 4
    Step = 4
    MaxFrame = 13
    MaxPush = 2
    Bottom <- MCBottom
    ShimCount = 2
    MaxHits = 2
    MaxDumps = 2
    Threads <- MCThreads
    Frames <- MCFrames
    MaxFrames = 4
    HandlerFrames = 2
    Room = 4
INVARIANTS CallsTransparent JumpRestores NoFault SnapshotBetween NestingBounded
PROPERTY CrashEnds
CHECK_DEADLOCK FALSE
