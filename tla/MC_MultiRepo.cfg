CONSTANTS
    Repos = {a, b}
    Clients = {c}
    Controller = Controller
    Warmup = Warmup
    Janitor = Janitor
    None = None
    Starts <- MCStarts
SPECIFICATION Spec
INVARIANTS TypeOK RegistryMatchesGraph TrackedIsWatched
CHECK_DEADLOCK FALSE
SYMMETRY Symmetry
