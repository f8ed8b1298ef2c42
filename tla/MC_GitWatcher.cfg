CONSTANTS
    a = a
    b = b
    c = c
    x = x
    y = y
    Files = {f}
    Commits = {a, b, c}
    Histories <- MCHistories
    Absent = Absent
    NoCommit = NoCommit
    Slots = {1, 2}
    MaxMoves = 3
    MaxFaults = 1
SPECIFICATION GitFairSpec
INVARIANTS GitTypeOK IndexIsLastSHA
PROPERTY CatchesUp
CHECK_DEADLOCK FALSE
