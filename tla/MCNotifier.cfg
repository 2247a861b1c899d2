SPECIFICATION FairSpec
CONSTANTS
    MaxLog = 3
    MaxSessions = 2
    Attempts = 2
INVARIANT TypeOK
INVARIANT NothingSkipped
INVARIANT LoggedInOrder
INVARIANT TelegramIsBounded
PROPERTY CommittedIsDone
PROPERTY EveryEventIsLogged
