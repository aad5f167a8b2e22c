SPECIFICATION Spec
CONSTANTS
    NoRow = NoRow
    NoToken = NoToken
    Account = {a1}
    MacLists = {}
    Value = {v1, v2}
    Call = {c1}
    Used <- Methods
    Environment = {}
    MaxCalls = 2
    MaxTokens = 1
    MaxLives = 0
PROPERTIES
    MergeKeepsColumns
CHECK_DEADLOCK FALSE
