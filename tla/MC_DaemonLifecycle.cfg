CONSTANTS
    Procs = {p, q, r}
    None = None
    MaxSaves = 2
SPECIFICATION Spec
INVARIANTS TypeOK ServingIsNamed SnapshotWhole
CHECK_DEADLOCK FALSE
SYMMETRY Symmetry
