SPECIFICATION FairSpec
CONSTANTS
    Requests = {r1, r2}
    Workers = {w1, w2}
    Admins = {a1}
    InitialWorkers = 1
    QueueSize = 1
    Sizes = {1, 2}
    None = None
INVARIANT TypeOK
INVARIANT CountersAreExact
INVARIANT RunsOnce
INVARIANT ClosedMeansStopped
PROPERTY EveryRequestReturns
PROPERTY ShutdownEnds
CHECK_DEADLOCK FALSE
