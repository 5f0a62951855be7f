SPECIFICATION Spec
CONSTANTS
    Procs   = {p1}
    Users   = {u1}
    Keys    = {k1, k2}
    Values  = {v1, v2}
    Secrets = {s1}
    Empty   = Empty
    None    = None
    Limit  <- SingleLimit
SYMMETRY Symmetry
INVARIANTS AppliedIsRecorded SecretsSuffice
PROPERTIES EditsKept IsWorkingCopy
CHECK_DEADLOCK FALSE
