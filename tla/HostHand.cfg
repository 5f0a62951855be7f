SPECIFICATION Spec
CONSTANTS
    Procs   = {p1, p2}
    Keys    = {k1, k2}
    Values  = {v1, v2}
    Secrets = {s1}
    Empty   = Empty
    None    = None
    Blank   = Blank
    Torn    = Torn
    Limit  <- HandLimit

INVARIANT ReadersSeeWhole
CHECK_DEADLOCK FALSE
