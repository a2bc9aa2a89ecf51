CONSTANTS
    Producers = {p1, p2}
    Consumers = {c1, c2}
    Modes = {"none", "timed", "forever"}
    Fronts = TRUE
    Signalling = TRUE
    SpuriousWakeups = TRUE
    MaxPushes = 3
SPECIFICATION FairSpec
INVARIANTS
    TypeOK
    SizeAccounting
    NoWaitOnData
PROPERTIES
    ChannelSpec
    EveryItemPopped
CHECK_DEADLOCK FALSE
