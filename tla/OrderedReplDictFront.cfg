\* Every call of the class: after a move to the front a pop loses other items.
SPECIFICATION AnySpec
CONSTANTS
    Keys = {k1, k2, k3}
    Values = {v1}
    Nil = Nil
    Missing = Missing
PROPERTY PopTakesOneItem
