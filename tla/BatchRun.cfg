SPECIFICATION Spec
CONSTANTS
    Procs    = {p1, p2}
    caller   = caller
    other    = other
    k1       = k1
    s1       = s1
    Users    = {caller, other}
    Caller   = caller
    Keys     = {k1}
    Secrets  = {s1}
    Contents <- MCContents
    NoText   <- MCNoText
    NoAttrs  <- MCNoAttrs
    Edits    <- MCEdits
    AttrEdit <- MCAttrEdit
    Batches  <- MCBatches
    Servers  <- MCServers
    Failed   <- NoDoc
    Names    <- MCNames
    Docs     <- MCDocs
    Nesting  <- MCNesting
    MaxNesting <- MCMaxNesting
    Precision <- MCPrecision
    LookedAt <- MCLookedAt
    None     = None
    Blank    = Blank
    Torn     = Torn
    Limit   <- BatchLimit
SYMMETRY Symmetry
INVARIANTS
    TypeOK
    AppliesInOrder
    RestoredAsExported
    EditsOnlyAddressed
PROPERTY
    AttrKeepsLayers
CHECK_DEADLOCK FALSE
