CONSTANTS
    Ids = {a, b, u}
    Unresolved = {u}
    Sites = {s1}
    KindOf <- MCKindOf
    Ptrs = {p1, p2}
    None = None
    NoEdge = NoEdge
SPECIFICATION RaceSpec
INVARIANT PositionsInRange
