CONSTANTS
    Records = {r1}
    Pollers = {p1, p2}
    Gateways = {Default, Other}
    Default = Default
    Masking = FALSE
    MaxText = 2
    Hits = 2
    MaxErrors = 2
    Degrade = TRUE
    Timeout = 2
    FirstDelay = 1
    MaxDelay = 2
    Multiplier = 2
    Lease = 2
    MaxAttempts = 1
    Budgets <- OneFault
    Nobody = Nobody
    Other = Other
    r1 = r1
    p1 = p1
    p2 = p2
SPECIFICATION Spec
INVARIANTS
    CollectedWhereSubmitted
CHECK_DEADLOCK FALSE
