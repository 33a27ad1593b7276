SPECIFICATION FairSpec
CONSTANTS
    EnvSecs <- MCSecs
    UMod = 6
    PollsPerSec = 2
    MaxQuits = 2
    Cap = 6
CHECK_DEADLOCK FALSE
INVARIANTS NeverEarly DisarmInTimeHolds
PROPERTIES WedgedQuitEnds DisarmEndsThreads
