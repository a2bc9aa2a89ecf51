CONSTANTS
    Fds = {1, 2}
    Handlers = {h1}
    ConnectedThrows = TRUE
    MaxConns = 3
    MaxMsgs = 1
    MaxCloses = 1
SPECIFICATION FairSpec
INVARIANTS
    TypeOK
    AssertionsHold
    TablesAgree
    StrayOnlyAfterClose
PROPERTIES
    QueueDrains
CHECK_DEADLOCK FALSE
