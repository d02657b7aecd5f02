\* Two workers, four events in rounds of up to three.
CONSTANTS
    WorkerCnt = 2
    MaxTasks = 4
    SizeMod = 8
    MaxEvents = 3
    Logging = {2, 4}
SPECIFICATION LoopFairSpec
INVARIANTS
    LoopTypeOK
    RoundsDisjoint
    LogDrained
PROPERTY
    RoundCompletes
CHECK_DEADLOCK FALSE
