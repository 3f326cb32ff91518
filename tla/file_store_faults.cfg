SPECIFICATION SharedSpec
CONSTANTS
    Unreadable = Unreadable
    NetworkId = {n1}
    UserId = {}
    NodeId = {}
    PreAuthKeyId = {k1}
    Data = {a}
    Time <- Clock
    n1 = n1
    k1 = k1
    d1 = d1
    a = a
    Malformed = Malformed
    Blank = Blank
    Torn = Torn
    Extension = "json"
    WithFormat = {"json"}
    InitialFiles <- UsedFiles
    Environment = {"load", "crash", "cancel", "io_error"}
    None = None
    Caller = {c1, c2}
    Mutations <- IssueMutations
INVARIANTS
    TypeOK
    SoloFlushIntact
PROPERTIES
    ImplementsSharedStore
    SoloChangesAreWhole
