\* One worker and a round of three events: the third push releases the mutex.
CONSTANTS
    WorkerCnt = 1
    MaxTasks = 3
    SizeMod = 8
    MaxEvents = 3
    Logging = {}
SPECIFICATION LoopSpec
INVARIANT
    SomeoneAwake
CHECK_DEADLOCK FALSE
