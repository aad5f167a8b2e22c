SPECIFICATION MCSpec
CONSTANTS
    a1 = a1
    a2 = a2
    Packet = {a1, a2, b1, c1}
    KeyOf <- Keys
    Accounting = {b1}
    Slot = {s1, s2, s3}
    MaxRequests = 1
    MaxQueue = 2
    RejectDelay = TRUE
    Stalls = FALSE
    NoPacket = NoPacket
    NoReply = NoReply
    Job = {q1, q2, q3}
    AcctJob = {q1}
    PriorityOf <- Priorities
    NumFifos = 2
    MaxThreads = 2
    StartThreads = 2
    MinSpare = 1
    MaxSpare = 1
    CleanupDelay = 1
    MaxPerThread = 0
    AutoLimitAcct = TRUE
    CreateFails = TRUE
    MaxTime = 3
SYMMETRY SlotSymmetry
INVARIANTS
    NotFreedInUse
    OneAtATime
    TimerArmed
    PoolRequestsSafe
    PoolCountsFit
CHECK_DEADLOCK FALSE
