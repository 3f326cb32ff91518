SPECIFICATION FairSpec
CONSTANTS
    m1 = m1
    s1 = s1
    None = None
    Machine = {m1}
    ServerKey = {s1, s2}
    Capver = {112, 113, 114}
    Connection = {c1}
    Configured = s1
    BadRequest <- OddRequests
    SocketBuffer = 2
    HostSteps = {"stop", "rebuild", "exit"}
INVARIANTS
    SessionAgreed
    FetchedKeyAccepted
PROPERTIES
    UpgradeSettles
