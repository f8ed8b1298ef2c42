CONSTANTS
    Symbols = {s}
    Indexers = {i, j}
    BM25 = BM25
    Threshold = 1
    MaxEdits = 2
    MaxBuilds = 3
SPECIFICATION Spec
INVARIANTS TypeOK SearchMatchesGraph LiveUnlessRewrapped VectorsKept
CHECK_DEADLOCK FALSE
SYMMETRY Symmetry
