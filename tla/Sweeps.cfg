CONSTANTS
    Ids = {1, 3}
    DigestIds = {1}
    FollowUpIds = {}
    NoticeFor <- NoticeIsRow3
    Events = {1, 3}
    EventsOf <- OwnEvent
    Rules = {"r"}
    RuleOf <- OneRule
    Workers = {w1, w2}
    NoJob = NoJob
    RetryDelay <- Backoff
    MaxAttempts = 1
    StaleAfter = 1
    MaxAge = 1
    DigestWait = 3
    GroupMax = 2
    ScanLimit = 5
    MaxHold = 3
    MaxRequeues = 0
    MaxCrashes = 1
    w1 = w1
    w2 = w2
    Incidents = {1, 2}
    Operators = {o1}
    DraftBatch = 2
    MaxSaves = 1
    MaxReviews = 2
    MaxFaults = 1
    Windows = {win}
    Schedules <- TwoSchedules
    Slots = 2
    MaxNow = 3
    MaxEdits = 1
    MaxTouches = 1
    Stored = {1, 2}
    Profiles <- Kinds
    ImportanceDays <- ByImportance
    SourceDays <- BySource
    DefaultDays = 1
    OutboxDays = 0
    ArchiveDays = 0
    BatchLimit = 1
    Runs = {w1, w2}
    MaxDay = 2
    MaxDeaths = 1
    MaxChildren = 1
    None = None
SPECIFICATION MCSpec
INVARIANTS
    SweptOnce
PROPERTIES
    NeverExpiredUndue
    SweepsRespect
    DigestSettles
    SweepsFinish
CHECK_DEADLOCK FALSE
