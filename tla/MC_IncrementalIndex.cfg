CONSTANTS
    lib = lib
    app = app
    F = F
    Files = {lib, app}
    Names = {F}
    Dir <- MCDir
    Contents <- MCContents
    InitDisk <- MCInitDisk
    Absent = Absent
    MaxEdits = 2
    MaxRestarts = 1
    MaxSnapshots = 1
SPECIFICATION Spec
INVARIANTS TypeOK NodesMatchDisk EdgesAreCalls NoDanglingEdges CallsKeptUnlessCut
