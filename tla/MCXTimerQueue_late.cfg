CONSTANTS
    Repeats = {1}
    RunEvery = TRUE
    Intervals = {1, 2}
    MaxTimers = 2
    MaxRepeating = 1
    MaxTime = 4
SPECIFICATION Spec
INVARIANTS
    DueTimersFire
