SPECIFICATION FairSpec
CONSTANTS
    Messages <- ThreeMessages
    Workers = {w1}
    BatchSize = 2
    MaxPublished = 2
    Faults = {"kafka"}
    None = None
INVARIANT FailedIsKept
INVARIANT PublishedOnce
PROPERTY PublishedInOrder
PROPERTY EveryMessageEnds
