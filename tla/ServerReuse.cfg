\* Three clients and two descriptors: descriptors run out and are reused.
CONSTANTS
    Clients = {c1, c2, c3}
    NoClient = NoClient
    MaxFd = 2
    WorkerCnt = 2
    MaxEvent = 2
    HeaderSegs = 1
    MaxSegs = 2
    Kinds = {"get", "post"}
    MayHangUp = {c1}
SYMMETRY Symmetry
SPECIFICATION ServerSpec
INVARIANTS
    ServerTypeOK
    HandlerOwnsFd
    AddressOfClient
    NoLostEdge
    NoFdLeak
    NobodyForgotten
CHECK_DEADLOCK FALSE
