SPECIFICATION Spec
CONSTANTS
    Orders = {o1}
    Receivers = {r1, r2}
    None = None
    Calls = {c1, c2, c3, c4}
    Deadlines <- OneDeadline
    ReturnWindow = 1
    MaxTime = 2
    MaxInFlight = 1
    CacheEnabled = FALSE
SYMMETRY Symmetry
INVARIANT GoneWithTheCourier
