CONSTANTS
    Readers = {r1, r2}
    MaxOffset = 1
    MaxNow = 3
SPECIFICATION FairSpec
INVARIANTS
    OneInstance
    ReadIsCurrent
PROPERTIES
    ThreadEnds
CHECK_DEADLOCK FALSE
