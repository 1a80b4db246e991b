------------------------------ MODULE MCInsight ------------------------------
(***************************************************************************)
(* What reads alerts and incidents afterwards: the deep analysis, the      *)
(* runbook advice, the insights into a service, the work list of the       *)
(* response centre and the quality report of the sources.  They share no   *)
(* state a property relates, so a behaviour exercises one of them and the  *)
(* others rest.                                                            *)
(***************************************************************************)
EXTENDS DeepAnalysis, Integers, TLC

CONSTANTS
    Operators,  \* operators, readers and workers of the other components
    NoView      \* no quality report in the cache

VARIABLES
    part,   \* the component the behaviour exercises
    \* RunbookAdvice
    published, execution, adviceVerdict, start,
    \* ServiceInsight
    insightBudget, clock, alerts, change, rollback, delivery, ingested, incident,
    \* ResponseCenter
    now, incidents, deskPublished, runs, desk, gaps, writes,
    \* AlertQuality
    qualityNow, events, members, qualityIncidents, conns, cache, readers, left

\* A runbook and a change that may bear on the incident.
Recommended ==
    {[incident |-> 1, type |-> "runbook", ref |-> "a"],
     [incident |-> 1, type |-> "change", ref |-> "c"]}
RecommendedFor == [c \in Recommended |-> IF c.ref = "a" THEN {"service"} ELSE {}]
NoCoverage == [c \in Recommended |-> 0]

\* The reports of a deployment, and what a behaviour of the insights may contain.
ChangeReports == {[phase |-> "started", version |-> 1], [phase |-> "finished", version |-> 1],
                  [phase |-> "finished", version |-> 2]}
Outages == {"i1", "i2"}
InsightBudgets ==
    {[alerts |-> 6, deliveries |-> {}, incidents |-> {}, rollback |-> FALSE],
     [alerts |-> 4, deliveries |-> {}, incidents |-> {}, rollback |-> TRUE],
     [alerts |-> 0, deliveries |-> Operators, incidents |-> {}, rollback |-> FALSE],
     [alerts |-> 0, deliveries |-> {}, incidents |-> Outages, rollback |-> FALSE]}

\* What the desk lists: an urgent incident due late, and a lesser one due soon.
NoOwner == [who |-> "", tidy |-> TRUE]
DeskCase(importance, due, count) ==
    [alerts |-> count, status |-> "active", workflow |-> "open", importance |-> importance,
     assignee |-> NoOwner, acked |-> FALSE, due |-> due,
     scope |-> [service |-> "api", environment |-> "", words |-> {"api"}],
     pattern |-> [name |-> "p", words |-> {"disk", "full"}, long |-> {}]]
DeskCases == {DeskCase("high", 5, 1), DeskCase("medium", 1, 2)}
DeskDocuments == [d1 |-> [kind |-> "runbook", services |-> {"api"}, environments |-> {},
                          patterns |-> {}, words |-> {"disk", "full", "api"}]]
DeskOwners == {[who |-> "ann", tidy |-> TRUE], [who |-> "ann", tidy |-> FALSE]}

\* What a source sends: alerts with and without a recovery, a key or a service.
Sample(o, l, k, ends, missing) ==
    [origin |-> o, label |-> l, key |-> k, recovery |-> ends, missing |-> missing,
     offsets |-> IF o = "s1" THEN {-3} ELSE {-3, 0}, dup |-> FALSE, at |-> 0]
SourceSamples == {Sample("c1", "a", "k", FALSE, {}), Sample("c1", "b", "k", TRUE, {}),
                  Sample("s1", "a", "k", TRUE, {"missing_service"})}
QualityBudgets == {[touches |-> 1, racing |-> 0, asks |-> 1], [touches |-> 0, racing |-> 1, asks |-> 1],
                   [touches |-> 0, racing |-> 0, asks |-> 2]}

\* Two faults, or a manual retry: their product is out of reach.
AtRest == [faults |-> 2, retries |-> 0]
FaultsOrRetry == {AtRest, [faults |-> 0, retries |-> 1]}

ASSUME DeepAnalysisAssumption

\* Two operators who try what is recommended, and rate it.
Advice == INSTANCE RunbookAdvice WITH
    Candidates <- Recommended, Features <- RecommendedFor, Coverage <- NoCoverage,
    Steps <- {1, 2}, MinSample <- 1, Prior <- 1, Limit <- 1,
    verdict <- adviceVerdict

\* The change reports of a service, its comparison of before and after, its health.
Insight == INSTANCE ServiceInsight WITH
    Workers <- Operators, Payloads <- ChangeReports, Incidents <- Outages,
    Window <- 1, SideLimit <- 2, Budgets <- InsightBudgets, SlowMinutes <- 240,
    budget <- insightBudget

\* The work list of the response centre while two incidents change.
Desk == INSTANCE ResponseCenter WITH
    Profiles <- DeskCases, Ids <- {1, 2, 3}, Documents <- DeskDocuments,
    Assignees <- DeskOwners, Nobody <- NoOwner, Actor <- "ann", Never <- 99,
    Soon <- 0, Risk <- 1, PageLimit <- 1, Window <- 1, IncidentLimit <- 3,
    DocumentLimit <- 2, ExecutionLimit <- 2, FrequentIncidents <- 2,
    FrequentAlerts <- 3, HighMttr <- 1, MaxNow <- 1, MaxWrites <- 4, MaxRuns <- 3,
    published <- deskPublished

\* The quality report of three sources, its cache and its reader.
Quality == INSTANCE AlertQuality WITH
    Origins <- {"c1", "s1", "probe"}, Managed <- {"c1"}, Synthetic <- {"probe"},
    Samples <- SourceSamples, NoKey <- "", Readers <- {"q1"}, NoView <- NoView,
    StaleTolerance <- 2, FutureTolerance <- 1, Window <- 1, ScanLimit <- 3,
    SampleLimit <- 1, ChurnFloor <- 2, UnattendedAfter <- 1, UnrecoveredAfter <- 1,
    CacheTTL <- 1, SourceLimit <- 1, MaxRun <- 1, MaxNow <- 2, MaxEvents <- 3,
    MaxIncidents <- 1, Budgets <- QualityBudgets, now <- qualityNow,
    incidents <- qualityIncidents

------------------------------------------------------------------------------
adviceState == <<published, execution, adviceVerdict, start>>
AdviceRests ==
    /\ published = "off" /\ execution = "off" /\ adviceVerdict = "off" /\ start = "off"
insightState == <<insightBudget, clock, alerts, change, rollback, delivery, ingested, incident>>
InsightRests ==
    /\ insightBudget = "off" /\ clock = "off" /\ alerts = "off" /\ change = "off" /\ rollback = "off"
    /\ delivery = "off" /\ ingested = "off" /\ incident = "off"
deskState == <<now, incidents, deskPublished, runs, desk, gaps, writes>>
DeskRests ==
    /\ now = "off" /\ incidents = "off" /\ deskPublished = "off" /\ runs = "off"
    /\ desk = "off" /\ gaps = "off" /\ writes = "off"
qualityState == <<qualityNow, events, members, qualityIncidents, conns, cache, readers,
                  left>>
QualityRests ==
    /\ qualityNow = "off" /\ events = "off" /\ members = "off"
    /\ qualityIncidents = "off" /\ conns = "off" /\ cache = "off" /\ readers = "off"
    /\ left = "off"

MCInit ==
    /\ part \in {"advice", "deep", "insight", "desk", "quality"}
    /\ Init
    /\ part # "deep" => budget = AtRest
    /\ IF part = "advice" THEN Advice!AdviceInit ELSE AdviceRests
    /\ IF part = "insight" THEN Insight!InsightInit ELSE InsightRests
    /\ IF part = "desk" THEN Desk!DeskInit ELSE DeskRests
    /\ IF part = "quality" THEN Quality!QualityInit ELSE QualityRests

MCVars == <<part, vars, adviceState, insightState, deskState, qualityState>>

MCNext ==
    \/ part = "advice" /\ Advice!AdviceNext
       /\ UNCHANGED <<part, vars, insightState, deskState, qualityState>>
    \/ part = "deep" /\ Next
       /\ UNCHANGED <<part, adviceState, insightState, deskState, qualityState>>
    \/ part = "insight" /\ Insight!InsightNext
       /\ UNCHANGED <<part, vars, adviceState, deskState, qualityState>>
    \/ part = "desk" /\ Desk!DeskNext
       /\ UNCHANGED <<part, vars, adviceState, insightState, qualityState>>
    \/ part = "quality" /\ Quality!QualityNext
       /\ UNCHANGED <<part, vars, adviceState, insightState, deskState>>

MCSpec == MCInit /\ [][MCNext]_MCVars

OperatorSymmetry == Permutations(Operators)

------------------------------------------------------------------------------
\* A recommendation is rated after it was tried and counted as one sample, and ranks
\* only on grounds it has; and starting a run twice keeps the progress of the first.
AdviceHolds ==
    /\ [](part = "advice" =>
            Advice!AdviceTypeOK /\ Advice!RatedMeansOver /\ Advice!CountedOnce
            /\ Advice!AdviceHasGrounds)
    /\ [][part = "advice" => Advice!ProgressStep]_adviceState

\* The comparison around a change does not turn the direction of the change round, a
\* report delivered twice is one change, and a healthy service ends its incidents in
\* time.
InsightHolds ==
    part = "insight" =>
        Insight!InsightTypeOK /\ Insight!DeltaNotReversed /\ Insight!IngestedOnce
        /\ Insight!HealthyMeansOnTime

\* Walking the work list while it changes, a reader meets the severe incidents first
\* and misses or repeats no more than moved under the walk; each item is in the bucket
\* it is listed in; and a proven runbook is not listed as missing.
DeskHolds ==
    part = "desk" =>
        Desk!DeskTypeOK /\ Desk!HighFirst /\ Desk!ItemInItsBucket /\ Desk!PagesCover
        /\ Desk!ProvenNotListed

\* A source is blamed only for what its samples show, the report is no older than its
\* cache may be, and the worst sources are the ones it shows.
QualityHolds ==
    part = "quality" =>
        Quality!QualityTypeOK /\ Quality!BlameHasGrounds /\ Quality!EvidenceTrue
        /\ Quality!AnswerRecent /\ Quality!WorstShown

\* What an operator's screens show holds although others write between the reads they
\* are made of: the work list paged by offset (response_center.py) and the report that
\* joins five reads (alert_quality.py).
ScreensHold == DeskHolds /\ QualityHolds
==============================================================================
