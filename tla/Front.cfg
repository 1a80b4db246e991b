CONSTANTS
    Requests = {r1, r2}
    Workers = {w1, w2}
    None = None
    Orphan = Orphan
    Window = 1
    LiveWindow = 1
    ReuseWindow = 3
    MaxTime = 2
    MaxDeliveries = 2
    Prompt = FALSE
    Answers = {"real", "degraded"}
    Faults <- AnyFault
    MaxFaults = 1
    r1 = r1
    r2 = r2
    w1 = w1
    w2 = w2
    Shapes = {x, y}
SPECIFICATION MCSpec
SYMMETRY FrontSymmetry
INVARIANTS
    RecentOriginalWins
    CountMatches
    IngressBounded
    SourcesHold
    LiteHolds
PROPERTIES
    BudgetHolds
CHECK_DEADLOCK FALSE
