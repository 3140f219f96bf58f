\* Everybody is connected, and a trusted peer loses its role.
SPECIFICATION Spec
CONSTANTS
    t1 = t1
    t2 = t2
    l1 = l1
    NoNode = NoNode
    Trusted = {t1, t2}
    Listeners = {l1}
    Links <- Mesh
    Lossy = {}
    MaxElections = 1
INVARIANT TrustedAreElectable
CHECK_DEADLOCK FALSE
