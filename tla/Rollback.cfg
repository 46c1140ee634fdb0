SPECIFICATION Spec
CONSTANTS
    t1 = t1
    t2 = t2
    e1 = e1
    e2 = e2
    Caller <- OneCaller
    Entry <- TwoEntries
    InitValue <- ZeroOrTwo
    MaxSeals = 2
    MaxRestarts = 2
    NoTable = NoTable
    NoEntry = NoEntry
    NoFile = NoFile
    Garbage = Garbage
SYMMETRY Symmetry
INVARIANTS
    TypeOK
    Durable
    OnlyNewestUnseals
    
PROPERTY
    CountersGrow
CHECK_DEADLOCK FALSE
