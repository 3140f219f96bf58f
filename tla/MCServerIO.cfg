\* Every channel is soon full, errChan too.
SPECIFICATION Spec
CONSTANTS
    Cap = 1
    ErrCap = 1
    Hwm = 1
    NoteCap = 1
    MaxCalls = 2
    MaxEntries = 2
    MaxEvents = 2
INVARIANTS TypeOK OneReply ReadyMeansRaft ShownIsExplained
PROPERTIES CacheMovesForward CallReturns CacheCatchesUp
CHECK_DEADLOCK FALSE
