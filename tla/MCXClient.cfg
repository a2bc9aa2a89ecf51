CONSTANTS
    Callers = {c1, c2}
    ReConnMaxTimeMs = 1000
    ReConnntervalMs = 500
    MaxStarts = 2
    MaxTasks = 2
SPECIFICATION FairSpec
INVARIANTS
    TypeOK
    OneOutcomePerStart
    RetriesBounded
    ConnectionsOwned
PROPERTIES
    EveryStartAnswered
    StopCloses
CHECK_DEADLOCK FALSE
