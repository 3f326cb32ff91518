SPECIFICATION Spec
CONSTANTS
    m1 = m1
    s1 = s1
    None = None
    Machine = {m1}
    ServerKey = {s1, s2}
    Capver = {112, 113}
    Connection = {c1, c2}
    Configured = None
    BadRequest <- RefusedRequests
    SocketBuffer = 2
    HostSteps = {"stop", "rebuild", "exit"}
INVARIANTS
    TypeOK
    SessionAgreed
    WireInOrder
    CurrentClientAccepted
SYMMETRY Symmetry
