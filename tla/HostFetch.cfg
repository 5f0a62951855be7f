SPECIFICATION Spec
CONSTANTS
    Procs   = {p1, p2}
    Keys    = {k1, k2}
    Values  = {v1}
    Secrets = {s1}
    Empty   = Empty
    None    = None
    Blank   = Blank
    Torn    = Torn
    Limit  <- HostLimit
SYMMETRY Symmetry
INVARIANTS
    TypeOK
    OneFetchIsAtomic
    NothingStale
PROPERTIES
    SuccessIsComplete
    ConfigKeepsRest
CHECK_DEADLOCK FALSE
