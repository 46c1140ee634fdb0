SPECIFICATION FairSpec
CONSTANTS
    Id = {c1, c2, c3}
    BatchSize = 2
    MaxMsgs = 3
    NoError = NoError
INVARIANT
    CtCountsReady
CHECK_DEADLOCK FALSE
