CONSTANTS
    Procs = {p1}
    Targets = {t1, t2}
    Calls = {c1, c2}
    Threshold = 2
    Window = 3
    Recovery = 3
    MaxClosedTTL = 2
    MaxFaults = 0
    p1 = p1
    t1 = t1
    t2 = t2
    c1 = c1
    c2 = c2
SPECIFICATION Spec
INVARIANTS
    TargetsIsolated
