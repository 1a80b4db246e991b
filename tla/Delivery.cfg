CONSTANTS
    Ids = {1}
    DigestIds = {}
    FollowUpIds = {1}
    NoticeFor <- NoNotices
    Events = {1}
    EventsOf <- OwnEvent
    Rules = {"r"}
    RuleOf <- OneRule
    Workers = {w1, w2}
    NoJob = NoJob
    RetryDelay <- Backoff
    MaxAttempts = 2
    StaleAfter = 2
    MaxAge = 0
    DigestWait = 1
    GroupMax = 2
    ScanLimit = 5
    MaxHold = 1
    MaxRequeues = 1
    MaxCrashes = 1
    Procs = {w1, w2}
    CacheTTL = 1
    MaxLoad = 1
    MaxVersion = 1
    MaxFaults = 1
    None = None
    Interval = 2
    MaxRefresh = 1
    MaxOverrides = 1
    MaxMishaps = 1
    Proposals = {1}
    Proposers = {w1, w2}
    Deciders = {d1, d2}
    Presses <- TwoPresses
    Actions <- Commands
    MaxPending = 1
    ProposalTTL = 1
    MaxDeaths = 1
SPECIFICATION MCSpec
SYMMETRY ProcessSymmetry
INVARIANTS
    ExclusiveHolder
    OneFollowUp
    OutboxAccounts
    DigestAccounts
    ConfigFresh
    DecisionsKept
    NoiseUndoable
PROPERTIES
    SentIsFinal
    ImplementsIntent
CHECK_DEADLOCK FALSE
