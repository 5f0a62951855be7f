SPECIFICATION FairSpec
CONSTANTS
    Procs      = {p1, p2}
    Passwords  = {pw1}
    Entries    = {AdminToken, e1}
    AdminToken = AdminToken
    Secrets    = {s1}
    None       = None
    Limit     <- StoreLimit
INVARIANTS
    TypeOK
    NoFalseBackup
    SessionOpens
PROPERTIES
    SavesOneChange
    StaleSessionGoes
