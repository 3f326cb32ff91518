SPECIFICATION Spec
CONSTANTS
    n1 = n1
    n2 = n2
    d1 = d1
    d2 = d2
    k1 = k1
    a = a
    NetworkId = {n1, n2}
    UserId = {}
    NodeId = {d1, d2}
    PreAuthKeyId = {k1}
    Data = {a}
    Time <- Clock
    None = None
    Malformed = Malformed
    Mutations <- MixedMutations
INVARIANTS
    TypeOK
    UniqueIds
PROPERTIES
    ImplementsKeyedStore
