\* Four trusted peers may form two groups.
SPECIFICATION Spec
CONSTANTS
    Nodes = {n1, n2, n3, n4}
    NoNode = NoNode
    Strict = TRUE
    MaxFaults = 0
SYMMETRY Symmetry
INVARIANT OneGroup
