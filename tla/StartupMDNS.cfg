\* A server of a LAN queue.
SPECIFICATION StartupSpec
CONSTANTS
    Procs = {p1}
    Pairs = 1
    Solo = TRUE
    MaxKeys = 2
    Server = p1
    Self = self
    Peers = {h1, h2}
    Bootstraps = {b1}
    Methods = {"MDNS"}
INVARIANT FoundMeansReady
CHECK_DEADLOCK FALSE
