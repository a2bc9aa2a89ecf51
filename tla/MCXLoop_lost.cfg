CONSTANTS
    Threads = {t1}
    LoopThread = loop
    MaxCalls = 1
SPECIFICATION FairSpec
PROPERTIES
    EveryCallRuns
