CONSTANTS
    GraphIds = {1, 2, 3}
    Shards = {0, 1}
    ShardOf <- MCShardOf
    Files = {f, g}
    Names = {m}
    Quals = {p, q}
    Repos = {r, t}
    Empty = Empty
SPECIFICATION NodeSpec
INVARIANTS NodeTypeOK IndexesMatchNodes NodeSidecarsMirror QualSlotLive
