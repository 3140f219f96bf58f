\* Get, bootstrapState and Commit call each other until the process dies.
SPECIFICATION Spec
CONSTANTS
    Nodes = {n1, n2}
    Jobs = {j1}
    NoNode = NoNode
    NoJob = NoJob
    LockTimeout = 0
    StackDepth = 3
    MaxClock = 1
    MaxLog = 6
    MaxNet = 1
    MaxCommands = 1
    MaxFaults = 3
INVARIANT GetFailsSafely
CHECK_DEADLOCK FALSE
