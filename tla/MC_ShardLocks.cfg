CONSTANTS
    Threads = {t1, t2}
    NumShards = 3
    None = None
SPECIFICATION FairSpec
INVARIANTS TypeOK NoConflict LockOrder
PROPERTY CallsReturn
