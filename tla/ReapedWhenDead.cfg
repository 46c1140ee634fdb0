SPECIFICATION FairSpec
CONSTANTS
    p1 = p1
    p2 = p2
    h1 = h1
    Prog <- MCProg
    Hash <- MCHash
    HashOf <- MCHashOf
    MaxExtensions = 0
PROPERTY
    ReapedWhenDead
CHECK_DEADLOCK FALSE
