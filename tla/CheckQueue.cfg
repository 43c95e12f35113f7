CONSTANTS
    Workers = {w1, w2}
    Master = Master
    Checks = {c1, c2, c3}
    Good = {c1, c2}
    nBatchSize = 2
SPECIFICATION FairSpec
INVARIANTS
    ControlFindsQueueIdle
    VerdictIsExact
    ChecksHaveTheirData
PROPERTIES
    WaitReturns
