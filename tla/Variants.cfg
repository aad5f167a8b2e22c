SPECIFICATION MCSpec
CONSTANTS
    x1 = x1
    alice = alice
    bras1 = bras1
    bras2 = bras2
    sid1 = sid1
    w1 = w1
    w2 = w2
    Null = Null
    NoRow = NoRow
    Uid = {x1, x2}
    User = {alice}
    Nas = {bras1, bras2}
    Sid = {sid1}
    UserOf <- OneUser
    NasOf <- TwoBras
    SidOf <- SameSid
    ByteGrant <- Quota
    SecondGrant <- NoQuota
    Worker = {w1}
    StaleAfter = 1
    MaxOctets = 1
    MaxId = 2
    MaxTime = 3
    Horizon = 3
    MaxPackets = 2
    r1 = r1
    r2 = r2
    p1 = p1
    s1 = s1
    s2 = s2
    r = r
    f = f
    sub = sub
    l = l
    Top = Top
    a = a
    b = b
INVARIANTS
    StillRecorded

    
CHECK_DEADLOCK FALSE
