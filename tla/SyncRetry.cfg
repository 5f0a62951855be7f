SPECIFICATION MCRetrySpec
CONSTANTS
    Procs   = {p1}
    Users   = {u1, u2}
    Keys    = {k1, k2}
    Values  = {v1, v2}
    Secrets = {s1}
    Empty   = Empty
    None    = None
    Limit  <- RetryLimit
PROPERTY RetriedPushConverges
CHECK_DEADLOCK FALSE
