SPECIFICATION Spec
CONSTANTS
    t1 = t1
    t2 = t2
    e1 = e1
    e2 = e2
    Caller <- OneCaller
    Entry <- OneEntry
    InitValue <- ZeroOrTwo
    MaxSeals = 2
    MaxRestarts = 2
    NoTable = NoTable
    NoEntry = NoEntry
    NoFile = NoFile
    Garbage = Garbage
CHECK_DEADLOCK FALSE
INVARIANT SurvivesRestarts
