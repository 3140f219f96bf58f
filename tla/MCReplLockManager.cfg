\* Two peers whose clocks differ by up to one tick, one lock.
SPECIFICATION Spec
CONSTANTS
    Clients = {c1, c2}
    Locks = {l1}
    None = None
    T = 2
    Skew = 1
    Delay = 0
    MaxClock = 3
    MaxCalls = 3
SYMMETRY Symmetry
INVARIANTS TypeOK Exclusive
PROPERTY GrantedIsHeld
CHECK_DEADLOCK FALSE
