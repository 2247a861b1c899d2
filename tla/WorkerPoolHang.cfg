SPECIFICATION FairSpec
CONSTANTS
    Requests = {r1}
    Workers = {w1, w2, w3}
    Admins = {a1}
    InitialWorkers = 1
    QueueSize = 1
    Sizes = {3}
    None = None
PROPERTY GracefulReturns
CHECK_DEADLOCK FALSE
