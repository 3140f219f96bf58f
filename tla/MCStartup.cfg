\* A server, another process that is a server or generate_registry, two pairs of
\* keys; both ways to find a peer, and a bootstrap peer.
SPECIFICATION StartupSpec
CONSTANTS
    Procs = {p1, p2}
    Pairs = 2
    Solo = TRUE
    MaxKeys = 4
    Server = p1
    Self = self
    Peers = {h1}
    Bootstraps = {b1}
    Methods = {"MDNS", "DHT"}
INVARIANTS StartupTypeOK IdentityIsKept RegistryListsKeys RefusedIsExplained ReadyMeansMet
PROPERTY HeardBecomesReady
CHECK_DEADLOCK FALSE
