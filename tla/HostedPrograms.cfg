SPECIFICATION Spec
CONSTANTS
    p1 = p1
    p2 = p2
    h1 = h1
    Prog <- MCProg
    Hash <- MCHash
    HashOf <- MCHashOf
    MaxExtensions = 1
SYMMETRY Symmetry
INVARIANTS
    TypeOK
    Reachable
    ShutdownComplete
    WaitMeansReaped
    WaitFailsForCause
CHECK_DEADLOCK FALSE
