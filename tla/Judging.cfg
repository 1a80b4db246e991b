CONSTANTS
    Scenarios <- Mishaps
    TableStates <- FourTables
    RoutingWorkers = {w1, w2}
    Cooldown = 1
    Reminder = 2
    FlapWindow = 1
    MinTransitions = 2
    DigestTicks = 1
    MaxRoutingTime = 2
    MaxEvents = 3
    NoiseWorkers = {w1, w2}
    Kinds <- NoiseKinds
    Unmanaged = 0
    NoiseWindow = 1
    Limit = 2
    MinConfidence = 700
    RelatedMin = 350
    SuppressDerived = TRUE
    MinCorrections = 2
    Lookback = 1
    MaxAlerts = 3
    MaxCorrections = 2
    MaxNoiseFaults = 0
SPECIFICATION MCSpec
SYMMETRY WorkerSymmetry
INVARIANTS
    RoutingKept
    RootCauseTold
PROPERTIES
    RoutingHolds
    LevelHasGrounds
CHECK_DEADLOCK FALSE
