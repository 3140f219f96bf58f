\* A wake-up on roleAssigned is lost and the handshake goes on.
SPECIFICATION Spec
CONSTANTS
    t1 = t1
    t2 = t2
    l1 = l1
    NoNode = NoNode
    Trusted = {t1, t2}
    Listeners = {l1}
    Links <- Mesh
    Lossy = {}
    MaxElections = 1
PROPERTY HandshakeEnds
CHECK_DEADLOCK FALSE
