\* Set, pop and move behind another item, on four keys.
SPECIFICATION Spec
CONSTANTS
    Keys = {k1, k2, k3, k4}
    Values = {v1, v2}
    Nil = Nil
    Missing = Missing
INVARIANTS TypeOK WellLinked
PROPERTY ImplementsQueue
