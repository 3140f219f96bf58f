\* Two electable peers, a job that one of them may have a lease on, a command, and
\* elections and failed commits at any time.
SPECIFICATION Spec
CONSTANTS
    Nodes = {n1, n2}
    Jobs = {j1}
    NoNode = NoNode
    NoJob = NoJob
    LockTimeout = 0
    StackDepth = 1
    MaxClock = 1
    MaxLog = 6
    MaxNet = 1
    MaxCommands = 1
    MaxFaults = 2
INVARIANT TypeOK
PROPERTIES FreshCommitRespectsLease LeaderAckMeansDone HandlerReturns
\* The bounds stop commands, elections and the clock.
CHECK_DEADLOCK FALSE
