SPECIFICATION MCSpec
CONSTANTS
    x1 = x1
    alice = alice
    bras1 = bras1
    sid1 = sid1
    w1 = w1
    NoRow = NoRow
    Null = Null
    q1 = q1
    q2 = q2
    None = None
    a1 = a1
    a2 = a2
    b1 = b1
    k1 = k1
    k2 = k2
    NoPacket = NoPacket
    NoReply = NoReply
    r1 = r1
    p1 = p1
    p2 = p2
    t1 = t1
    t2 = t2
PROPERTIES
    SessionsEnd
    RequestsEnd
    PeersRecover
CHECK_DEADLOCK FALSE
