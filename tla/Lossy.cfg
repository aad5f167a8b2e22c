SPECIFICATION Spec
CONSTANTS
    alice = alice
    bras1 = bras1
    s1 = s1
    NoRow = NoRow
    Null = Null
    Uid = {x1}
    User = {alice}
    Nas = {bras1}
    Sid = {s1}
    UserOf <- OneUser
    NasOf <- OneBras
    SidOf <- OneSid
    ByteGrant <- Quota
    SecondGrant <- NoQuota
    Worker = {w1}
    StaleAfter = 1
    MaxOctets = 2
    MaxId = 2
    MaxTime = 3
    Horizon = 3
    MaxPackets = 3
INVARIANTS
    OvershootBounded
    SweptOnce
    LedgerCovered
PROPERTIES
    RemovalRecorded
CHECK_DEADLOCK FALSE
