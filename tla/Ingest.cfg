CONSTANTS
    Requests = {r1}
    Workers = {w1, w2}
    Scanners = {s1}
    NoMsg = NoMsg
    MaxRetries = 1
    Faults <- AnyFault
    MaxFaults = 2
    MaxDuplicates = 1
    MaxSheds = 1
    MaxReplays = 1
    Handlers = {w1, w2}
    NoHolder = NoHolder
    Thresholds <- ThresholdsToTry
    Window = 2
    LockTTL = 3
    Renewal = 1
    WaitTimeout = 2
    ProbeInterval = 2
    MaxLate = 3
    MaxGateFaults = 2
SPECIFICATION MCSpec
INVARIANTS
    OneRearm
    NotLost
    GateHolds
PROPERTIES
    RetryNeverReopens
    EventuallySettled
    DeepDone
    KeyReopens
CHECK_DEADLOCK FALSE
