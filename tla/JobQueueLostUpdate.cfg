\* A new leader that lags behind overwrites what was agreed.
SPECIFICATION Spec
CONSTANTS
    Nodes = {n1, n2}
    Jobs = {j1}
    NoNode = NoNode
    NoJob = NoJob
    LockTimeout = 0
    StackDepth = 1
    MaxClock = 1
    MaxLog = 6
    MaxNet = 1
    MaxCommands = 3
    MaxFaults = 3
PROPERTY CommitRespectsLease
CHECK_DEADLOCK FALSE
