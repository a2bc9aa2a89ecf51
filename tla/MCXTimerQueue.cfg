CONSTANTS
    Repeats = {1, 2}
    RunEvery = TRUE
    Intervals = {1, 2}
    MaxTimers = 3
    MaxRepeating = 1
    MaxTime = 3
SPECIFICATION FairSpec
INVARIANTS
    TypeOK
    DueTimersFireInOrder
    RemovedStaysOut
    FiresAsPlanned
PROPERTIES
    EveryTimerFires
