CONSTANTS
    Records = {r1}
    Pollers = {o1, o2}
    Gateways = {default}
    Default = default
    Masking = FALSE
    MaxText = 2
    Hits = 2
    MaxErrors = 2
    Degrade = TRUE
    Timeout = 2
    FirstDelay = 1
    MaxDelay = 2
    Multiplier = 2
    Lease = 1
    MaxAttempts = 1
    Budgets <- FaultsOrRetry
    Nobody = Nobody
    Operators = {o1, o2}
    NoView = NoView
SPECIFICATION MCSpec
SYMMETRY OperatorSymmetry
INVARIANTS
    DeepVerdict
    InsightHolds
    ScreensHold
PROPERTIES
    AdviceHolds
CHECK_DEADLOCK FALSE
