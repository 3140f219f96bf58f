\* A second Connect reports success though the setup of raft had failed.
SPECIFICATION Spec
CONSTANTS
    Nodes = {n1, n2, n3}
    NoNode = NoNode
    Strict = FALSE
    MaxFaults = 1
SYMMETRY Symmetry
INVARIANT AnswersRunRaft
