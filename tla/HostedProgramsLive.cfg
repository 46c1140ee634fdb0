SPECIFICATION FairSpec
CONSTANTS
    p1 = p1
    p2 = p2
    h1 = h1
    Prog <- MCProg
    Hash <- MCHash
    HashOf <- MCHashOf
    MaxExtensions = 0
PROPERTIES
    ReapedIfSubscribed
    ShutdownTerminates
    WaitAnswered
CHECK_DEADLOCK FALSE
