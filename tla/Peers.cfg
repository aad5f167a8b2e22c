SPECIFICATION MCSpec
CONSTANTS
    t1 = t1
    t2 = t2
    t3 = t3
    None = None
    Thread = {t1, t2, t3}
    MaxConns = 2
    MinConns = 0
    StartConns = 0
    SpareConns = 1
    MaxUses = 1
    Lifetime = 0
    IdleTimeout = 2
    CleanupInterval = 2
    RetryDelay = 1
    MaxCall = 1
    Requests = {r1, r2}
    Pings = {p1, p2}
    MaxOutstanding = 2
    PingCheck = "status"
    PingsToAlive = 1
    MaxTimeouts = 1
    MaxSent = 2
    Overlap = TRUE
    Lossy = TRUE
    SocketFails = TRUE
    NoIds = FALSE
    Admin = FALSE

SYMMETRY Alike
INVARIANTS
    ChecksContinue
    NeverOvercounted
    ConnSound
CHECK_DEADLOCK FALSE
