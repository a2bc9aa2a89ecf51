CONSTANTS
    Fds = {1}
    Handlers = {h1}
    ConnectedThrows = FALSE
    MaxConns = 2
    MaxMsgs = 1
    MaxCloses = 1
SPECIFICATION Spec
INVARIANTS
    AnswerReachesAsker
CHECK_DEADLOCK FALSE
