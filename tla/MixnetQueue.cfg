SPECIFICATION FairSpec
CONSTANTS
    Id = {c1, c2, c3}
    BatchSize = 2
    MaxMsgs = 4
    NoError = NoError
INVARIANTS
    TypeOK
    CtExact
    InOrder
    Accounted
    PanicsOnlyAfterLeak
    PromptBatch
PROPERTIES
    BatchCompletes
CHECK_DEADLOCK FALSE
