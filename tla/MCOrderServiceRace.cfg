SPECIFICATION Spec
CONSTANTS
    Orders = {o1}
    Receivers = {r1, r2}
    None = None
    Calls = {c1, c2, c3}
    Deadlines <- OneDeadline
    ReturnWindow = 1
    MaxTime = 2
    MaxInFlight = 2
    CacheEnabled = TRUE
SYMMETRY Symmetry
INVARIANT TypeOK
INVARIANT RowMatchesHistory
INVARIANT OneEventPerChange
INVARIANT AcceptedOnce
INVARIANT KnownVersions
INVARIANT LockedInsideTransaction
INVARIANT SuccessIsRecorded
PROPERTY ImplementsLedger
