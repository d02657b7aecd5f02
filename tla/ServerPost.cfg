\* One client that posts arguments and then waits for the answer.
CONSTANTS
    Clients = {c1}
    NoClient = NoClient
    MaxFd = 1
    WorkerCnt = 1
    MaxEvent = 1
    HeaderSegs = 1
    MaxSegs = 2
    Kinds = {"post"}
    MayHangUp = {}
SPECIFICATION ServerFairSpec
PROPERTY
    RequestAnswered
CHECK_DEADLOCK FALSE
