CONSTANTS
    Ids = {a, b, u}
    Unresolved = {u}
    Sites = {s1, s2}
    KindOf <- MCKindOf
    Ptrs = {p1, p2, p3}
    None = None
SPECIFICATION Spec
INVARIANTS TypeOK SidecarsMirror DirectionsAgree ListsOwnEdges
PROPERTIES EvictsExactly ImplementsEdgeSet
SYMMETRY Symmetry
