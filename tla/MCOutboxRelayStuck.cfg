SPECIFICATION FairSpec
CONSTANTS
    Messages <- TwoMessages
    Workers = {w1}
    BatchSize = 2
    MaxPublished = 2
    Faults = {"kafka", "crash"}
    None = None
PROPERTY ExhaustedIsFinished
