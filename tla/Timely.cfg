SPECIFICATION Spec
CONSTANTS
    x1 = x1
    x2 = x2
    alice = alice
    bras1 = bras1
    s1 = s1
    s2 = s2
    NoRow = NoRow
    Null = Null
    Uid = {x1, x2}
    User = {alice}
    Nas = {bras1}
    Sid = {s1, s2}
    UserOf <- OneUser
    NasOf <- OneBras
    SidOf <- OwnSid
    ByteGrant <- Quota
    SecondGrant <- NoQuota
    w1 = w1
    w2 = w2
    Worker = {w1}
    StaleAfter = 1
    Interval = 1
    MaxOctets = 1
    MaxTime = 3
    Horizon = 2
SYMMETRY AlikeSessions
INVARIANTS
    BilledOnce
    LedgerExact
    LiveSessionsOnline
    QuotaExact
PROPERTIES
    LedgerSpec
CHECK_DEADLOCK FALSE
