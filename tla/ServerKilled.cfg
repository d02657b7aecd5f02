\* One client that sends a second request on its connection.
CONSTANTS
    Clients = {c1}
    NoClient = NoClient
    MaxFd = 1
    WorkerCnt = 1
    MaxEvent = 1
    HeaderSegs = 1
    MaxSegs = 2
    Kinds = {"get"}
    MayHangUp = {}
SPECIFICATION ServerSpec
INVARIANT
    ServerSurvives
CHECK_DEADLOCK FALSE
