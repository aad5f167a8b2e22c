SPECIFICATION MCSpec
CONSTANTS
    Thread = {t1, t2, t3}
    Value = {v1, v2}
    Size = 2
    MaxPos = 3
    None = None
    Fds = {1, 2, 3}
    Slots = 3
    Events = {e1, e2, e3, e4, e5, e6}
    Times = {1, 2}
SYMMETRY Alike
INVARIANTS
    OneOwner
    
    TimersInOrder
PROPERTIES
    Refines
    TimersKept
CHECK_DEADLOCK FALSE
