\* Two workers, four calls of emplace_back: lists of three nodes, pushes with
\* and without the mutex, and the destructor at any moment.
CONSTANTS
    WorkerCnt = 2
    MaxTasks = 4
    SizeMod = 8
SPECIFICATION Spec
INVARIANTS
    TypeOK
    IndexInRange
    NoPrematureExit
    RunsOnce
    UnlockedPopLeavesANode
    NoLostWakeup
    PoolInv
    LockInv
PROPERTY
    ImplementsTaskPool
CHECK_DEADLOCK FALSE
