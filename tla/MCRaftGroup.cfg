\* Three trusted peers, as many as the documentation recommends at least.
SPECIFICATION Spec
CONSTANTS
    Nodes = {n1, n2, n3}
    NoNode = NoNode
    Strict = FALSE
    MaxFaults = 2
SYMMETRY Symmetry
INVARIANTS TypeOK OneGroup
