SPECIFICATION MCSpec
CONSTANTS
    NoVps = NoVps
    Requests = {r1, r2, r3, r4}
    MaxEntries = 2
    Lifetime = 2
    MaxNow = 4
    Stations = {s1, s2, s3}
    Limit = 2
    MaxRows = 2
    Overlap = FALSE
    SqlFails = FALSE
    Proxying = TRUE
INVARIANTS
    LimitKept
    StateOnce
PROPERTIES
    
    StateKept
CHECK_DEADLOCK FALSE
