SPECIFICATION Spec
CONSTANTS
    Orders <- TwoIds
    Receivers <- TwoClients
    Calls = {c1, c2}
    c1 = c1
    Batched = {"import", "broken", "issue", "twice", "nothing"}
    Single = {"accept", "heavy", "bare", "late", "single", "foreign", "courier", "unnamed",
              "mine", "last", "returns", "rest", "empty", "second", "whole", "lines"}
    Messages <- SentBy
    Tables <- SomeTables
    MaxTime = 2
    Horizon = 5
    Day = 3
    ReturnWindow = 0
    WorkerLimit = 2
    Limit = 1
    Word = 64
    Absent = Absent
    None = None
INVARIANT TypeOK
INVARIANT AnswersAreTrue
INVARIANT CountersFollowTheLedger
INVARIANT StoredAsSent
PROPERTY ListsAreCutIntoPages
PROPERTY ImplementsLedger
