SPECIFICATION Spec
CONSTANTS
    a = a
    b = b
    Hosts <- MCHosts
    Lossy <- MCLossy
    Pd = 1
    Ttl = 3
    Slack = 1
    MaxClock = 7
    MaxStarts = 3
INVARIANT TypeOK
INVARIANT AskedIsKnown
INVARIANT SilentIsForgotten
PROPERTY StartupKnowsAll
PROPERTY LiveHostStays
CHECK_DEADLOCK FALSE
