CONSTANTS
    Sizes <- MCSizes
    MaxGiven = 1
    MaxNet = 0
    MaxShort = 1
    MaxEmpty = 0
    MaxFunctors = 0
SPECIFICATION Spec
INVARIANTS WillNotifyAgain
CHECK_DEADLOCK FALSE
