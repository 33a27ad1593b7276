SPECIFICATION Spec
CONSTANTS
    Threads = {t1, t2}
    PlugTrack = 2
    Streams = {f1, f2, f3}
    Paths = {p1, p2}
    NULL = NULL
SYMMETRY MCSymmetry
INVARIANTS PluginKnowsCloses RowsReturn
