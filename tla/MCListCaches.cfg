SPECIFICATION FairSpec
CONSTANTS
    Orders = {o1}
    r1 = r1
    Receivers = {r1}
    Owner <- OwnedByOne
    Calls = {c1, c2}
    Written <- StoredOrReturned
    MaxChanges = 2
    None = None
    MaxSize = 2
    TTL = 1
INVARIANT TypeOK
INVARIANT CachesAreSound
PROPERTY NoOldCopySurvives
PROPERTY ListsSettle
