CONSTANTS
    Files = {f, g}
    StormThreshold = 1
    Budgets <- MCBudgets
    MaxEdits = 3
    MaxLost = 1
    MaxScans = 1
    MaxFaults = 1
SPECIFICATION FairSpec
INVARIANTS TypeOK SyncedUnlessRaced HealedUnlessRacedOrTorn
PROPERTY Settles
CHECK_DEADLOCK FALSE
