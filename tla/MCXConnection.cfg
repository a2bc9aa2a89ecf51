CONSTANTS
    Sizes <- MCSizes
    MaxGiven = 3
    MaxNet = 2
    MaxShort = 1
    MaxEmpty = 1
    MaxFunctors = 1
SPECIFICATION Spec
INVARIANTS TypeOK NothingSkipped CommittedInOrder FreedOnlyByCallBack
PROPERTIES ArmedDrains
CHECK_DEADLOCK FALSE
