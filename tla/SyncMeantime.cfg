SPECIFICATION Spec
CONSTANTS
    Procs   = {p1}
    Users   = {u1}
    Keys    = {k1}
    Values  = {v1, v2}
    Secrets = {s1}
    Empty   = Empty
    None    = None
    Limit  <- MeantimeLimit
PROPERTY PushOverwritesOnlySynced
CHECK_DEADLOCK FALSE
