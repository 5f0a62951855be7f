SPECIFICATION FairSpec
CONSTANTS
    k1        = k1
    k2        = k2
    a         = a
    tree      = tree
    grown     = grown
    Keys      = {k1, k2}
    Words     = {a}
    Trees     = {tree, grown}
    None      = None
    Garbage   = Garbage
    Rejected  = Rejected
    Zeroed    = Zeroed
    Profiles <- MCProfiles
    Edited   <- MCEdited
    Limit    <- EditLimit
INVARIANTS
    TypeOK
    NothingLeft
PROPERTIES
    SavesWhatEditorLeft
    UntouchedKeepText
    SignalEndsIt
CHECK_DEADLOCK FALSE
