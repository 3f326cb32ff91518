SPECIFICATION Spec
CONSTANTS
    NetworkId = {n1}
    UserId = {}
    NodeId = {d1}
    PreAuthKeyId = {}
    Data = {a}
    Time <- Clock
    n1 = n1
    k1 = k1
    d1 = d1
    a = a
    Malformed = Malformed
    Blank = Blank
    Torn = Torn
    Extension = "json"
    WithFormat = {"toml"}
    InitialFiles <- FreshFile
    Environment = {"crash"}
    None = None
    Caller = {c1}
    Mutations <- NodeMutations
INVARIANTS
    OwnSnapshotsLoad
