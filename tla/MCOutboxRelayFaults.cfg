SPECIFICATION Spec
CONSTANTS
    Messages <- TwoMessages
    Workers = {w1}
    BatchSize = 2
    MaxPublished = 2
    Faults = {"kafka", "ack", "db", "crash"}
    None = None
INVARIANT TypeOK
INVARIANT CompletedIsPublished
INVARIANT AtMostThreeAttempts
INVARIANT BuriedOnce
PROPERTY FinalStatusStays
