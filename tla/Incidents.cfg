CONSTANTS
    a1 = a1
    a2 = a2
    b1 = b1
    b2 = b2
    r1 = r1
    u1 = u1
    i1 = i1
    i2 = i2
    k1 = k1
    o1 = o1
    s1 = s1
    Workers = {c1, c2}
    Interval = 1
    ClaimTTL = 2
    MaxRun = 2
    MaxTier = 1
    Attempts = 2
    Schedulers = 1
    MaxFaults = 1
    MaxRestarts = 1
    None = None
SPECIFICATION MCSpec
SYMMETRY ReplicaSymmetry
INVARIANTS
    IncidentsHold
    JobsHold
CHECK_DEADLOCK FALSE
