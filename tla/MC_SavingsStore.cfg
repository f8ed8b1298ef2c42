CONSTANTS
    Procs = {p, q, r}
    NoProc = NoProc
    FlushEvery = 2
    MaxObserved = 2
    MaxCrashes = 1
    MaxResets = 1
SPECIFICATION Spec
INVARIANTS TypeOK NeverOvercounts NothingLost
CHECK_DEADLOCK FALSE
SYMMETRY Symmetry
