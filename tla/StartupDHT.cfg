\* A server of a WAN queue.
SPECIFICATION StartupSpec
CONSTANTS
    Procs = {p1}
    Pairs = 1
    Solo = TRUE
    MaxKeys = 2
    Server = p1
    Self = self
    Peers = {h1, h2}
    Bootstraps = {b1}
    Methods = {"DHT"}
INVARIANT FoundMeansReady
CHECK_DEADLOCK FALSE
