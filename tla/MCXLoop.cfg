CONSTANTS
    Threads = {t1, t2}
    LoopThread = loop
    MaxCalls = 3
SPECIFICATION FairSpec
INVARIANTS
    TypeOK
    NoSleepWithPendingTask
PROPERTIES
    DispatcherSpec
    ReachableCallRuns
    StopEndsLoop
    CallsReturn
