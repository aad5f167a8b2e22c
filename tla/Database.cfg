SPECIFICATION MCSpec
CONSTANTS
    r = r
    f = f
    g = g
    h = h
    l = l
    b = b
    Top = Top
    Node <- Nodes
    Pid <- Pids
    Folder = {r, f, g, h}
    Existing = {r, f, g}
    Admin = {b}
    RootOf <- BelowF
    MaxPosts = 1
    Overlap = TRUE
    StatNode = {top, fold, sub, x, y}
    Leaf = {x, y}
    Trees <- SmallTrees
    Realm = {s1, s2}
    MaxAccounts = 1
    MaxRecursion = 2
    Walk = {c1, c2}
    Asked <- AskTop
    top = top
    fold = fold
    sub = sub
    x = x
    y = y
    c1 = c1
    c2 = c2
    PostAuth = {d1, d2}
    Retain = 3
    MaxBack = 2
    First = mysql01
    Second = mysql02
    MaxWait = 2
INVARIANTS
    
    StatisticExact
    MastersSettled
PROPERTIES
    TreePruned
    RowsKept
    DatabaseSettles
CHECK_DEADLOCK FALSE
