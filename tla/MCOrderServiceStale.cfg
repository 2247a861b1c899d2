SPECIFICATION Spec
CONSTANTS
    Orders = {o1}
    Receivers = {r1}
    None = None
    Calls = {c1, c2, c3, c4}
    Deadlines <- OneDeadline
    ReturnWindow = 1
    MaxTime = 0
    MaxInFlight = 2
    CacheEnabled = TRUE
SYMMETRY Symmetry
PROPERTY GivenIsSeenAsGiven
