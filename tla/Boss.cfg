SPECIFICATION MCSpec
CONSTANTS
    a1 = a1
    a2 = a2
    v1 = v1
    v2 = v2
    c3 = c3
    NoRow = NoRow
    NoToken = NoToken
    Account = {a1, a2}
    MacLists <- TwoMacs
    Value = {v1}
    Call = {c1, c2}
    Environment = {"loss", "ui"}
    Used = {"Register", "IpoeRegister", "ChangeUserInfo", "EraseCustomer"}
    MaxCalls = 2
    MaxTokens = 1
    MaxLives = 1
SYMMETRY AlikeCalls
INVARIANT
    RegisteredOnce
PROPERTIES
    ErasedStaysErased
    BossService
CHECK_DEADLOCK FALSE
