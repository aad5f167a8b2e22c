SPECIFICATION Spec
CONSTANTS
    alice = alice
    bras1 = bras1
    s1 = s1
    NoRow = NoRow
    Null = Null
    Uid = {x1}
    User = {alice}
    Nas = {bras1}
    Sid = {s1}
    UserOf <- OneUser
    NasOf <- OneBras
    SidOf <- OneSid
    ByteGrant <- Quota
    SecondGrant <- NoQuota
    Worker = {w1}
    StaleAfter = 1
    MaxOctets = 1
    MaxId = 1
    MaxTime = 2
    Horizon = 2
    MaxPackets = 2
INVARIANTS
    StopCreatesOnlyNewSessions
CHECK_DEADLOCK FALSE
