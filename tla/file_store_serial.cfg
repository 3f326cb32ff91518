SPECIFICATION Spec
CONSTANTS
    NetworkId = {n1}
    UserId = {}
    NodeId = {d1}
    PreAuthKeyId = {k1}
    Data = {a}
    Time <- Clock
    n1 = n1
    k1 = k1
    d1 = d1
    a = a
    Malformed = Malformed
    Blank = Blank
    Torn = Torn
    Extension = "toml"
    WithFormat = {"toml"}
    InitialFiles <- UsedFiles
    Environment = {"load", "crash", "cancel", "io_error"}
    None = None
    Caller = {c1}
    Mutations <- SerialMutations
INVARIANTS
    TargetIntact
    RedeemedStaysUsed
PROPERTIES
    ImplementsDurableStore
