CONSTANTS
    Procs = {p1, p2}
    Targets = {t1}
    Calls = {c1, c2}
    Threshold = 3
    Window = 2
    Recovery = 2
    MaxClosedTTL = 3
    MaxFaults = 1
    p1 = p1
    p2 = p2
    t1 = t1
    c1 = c1
    c2 = c2
SPECIFICATION FairSpec
INVARIANTS
    LagBounded
    TripJustified
PROPERTIES
    KeepsTrying
