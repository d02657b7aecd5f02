\* Two clients that send what they owe, every kind of request that ends.
CONSTANTS
    Clients = {c1, c2}
    NoClient = NoClient
    MaxFd = 2
    WorkerCnt = 2
    MaxEvent = 2
    HeaderSegs = 2
    MaxSegs = 3
    Kinds = {"get", "post_delim", "bad", "unserved"}
    MayHangUp = {}
SPECIFICATION ServerFairSpec
PROPERTIES
    ConnectionEnds
    RequestAnswered
CHECK_DEADLOCK FALSE
