SPECIFICATION FairSpec
CONSTANTS
    Creators = {c1, c2}
    Workers = {w1, w2}
    Blocks = {b1, b2}
    Jobs = {j1, j2}
    NULL = NULL
    Free = Free
    Garbage = Garbage
INVARIANTS RunsWhatWasAsked NothingLeaks
PROPERTY BlocksReturn
