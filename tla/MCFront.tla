------------------------------- MODULE MCFront -------------------------------
(***************************************************************************)
(* The front of a deployment: the limits a request meets, the connection   *)
(* of its source, the adapter that reads it, the check for duplicates, the *)
(* model that judges it under a budget, and the lite edition, which does   *)
(* all of it in one process.  They share no state a property relates, so a *)
(* behaviour exercises one of them and the others rest.                    *)
(***************************************************************************)
EXTENDS AlertDedup, Sequences, TLC

CONSTANT Shapes     \* of the payloads a source sends

VARIABLES
    part,   \* the component the behaviour exercises
    \* IngressLimits
    config, clock, bucket, passed, storm, backlog, trimmed, cache, req, blind, up,
    limitsFaults,
    \* SourceOnboarding
    connection, operator, post, posts, queued, log, edits, failures,
    \* SourceAdapters
    directory, registry, passes, todo, keying, adaptLog,
    \* AiAnalysis
    setting, job, aiCache, original, override, table, buffer, writing, sum, paid,
    over, lost, aiFaults, changes,
    \* LiteEdition
    events, decisions, outbox, rules, silences, requests, courier, budget

\* Redis and the workers may fail; a stage that fails is retried.
AnyFault == FaultKinds

\* A burst tier of one tick and a sustained tier of two, whose previous window weighs
\* one half at its second tick.
TwoTiers == {[window |-> 1, limit |-> 2], [window |-> 2, limit |-> 2]}

\* Documents a sender may deliver, and any prefix of one: a body cut off in transit.
Scalar(k, v) == [key |-> k, object |-> FALSE, scalar |-> v, pairs |-> <<>>]
Object(k, ps) == [key |-> k, object |-> TRUE, scalar |-> "", pairs |-> ps]
Prefixes(d) == {SubSeq(d, 1, n) : n \in 0 .. Len(d)}
GrafanaAlert == <<Scalar("alertname", "a1"), Scalar("instance", "i1")>>
HealthEvent == <<Scalar("source", "h1"), Scalar("host", "h1"),
                 Object("detail", <<Scalar("code", "c1"), Scalar("zone", "z1")>>)>>
GrafanaBatch == <<Object("alerts", GrafanaAlert), Scalar("orgId", "g1"), Scalar("host", "h2")>>
CutShort(d) ==
    UNION {{[k \in DOMAIN e |-> IF k = Len(e) /\ e[k].object THEN [e[k] EXCEPT !.pairs = ps]
                                ELSE e[k]] :
            ps \in IF e # <<>> /\ e[Len(e)].object THEN Prefixes(e[Len(e)].pairs) ELSE {<<>>}} :
           e \in Prefixes(d)}
SomeDocuments ==
    CutShort(HealthEvent) \cup CutShort(GrafanaBatch)
    \cup {<<Scalar("source", "h2")>>, <<Scalar("source", "h1"), Scalar("host", "")>>}

\* Adapters on disk, in the order their files are read.
Reading == [name |-> <<<<"detail", "code">>, <<"source">>>>, resource |-> <<<<"host">>>>,
            fingerprint |-> <<>>, severity |-> <<<<"detail", "zone">>>>]
KeySettings ==
    {[paths |-> <<>>, excluded |-> {}], [paths |-> <<<<"source">>, <<"host">>>>, excluded |-> {"instance"}],
     [paths |-> <<>>, excluded |-> {"instance"}]}
Placing(n, al, p, needs) ==
    [name |-> n, aliases |-> al, priority |-> p, needs |-> {needs}, reads |-> Reading]
Health(p) == Placing("aws_health", {"aws"}, p, {<<"source">>, <<"detail", "code">>})
SomeDirectories ==
    {<<Health(0), Placing("org", {}, 1, {<<"orgId">>}), Placing("prometheus", {}, 5, {<<"source">>})>>,
     <<Placing("other", {"aws_health"}, 0, {<<"zzz">>}), Health(2)>>}

\* A money alert that the model calls informational, and the policies of the budget.
PlainAlert == [level |-> "other", name |-> "plain", money |-> FALSE, recovery |-> FALSE,
               metric |-> "none", used |-> "none", memory |-> "none"]
MoneyAlert == [h \in {"c1"} |-> [PlainAlert EXCEPT !.level = "info", !.money = TRUE, !.metric = "reached"]]
Policies ==
    {[mode |-> "enforce", excluded |-> {}, routing |-> {"low", "medium"}, available |-> TRUE],
     [mode |-> "shadow", excluded |-> {}, routing |-> {}, available |-> FALSE],
     [mode |-> "off", excluded |-> {"c1"}, routing |-> {"low"}, available |-> TRUE]}

\* Alerts, forwarding rules and silences of the lite edition.
LiteAlert(resolved, words) ==
    [source |-> "prom", name |-> "disk", resolved |-> resolved, words |-> words]
LiteSeen == {LiteAlert(FALSE, {"high", "low"}), LiteAlert(TRUE, {"low"})}
LiteForm(n, l, k, p, s) ==
    [name |-> n, sources |-> {}, levels |-> l, kind |-> k, priority |-> p, stop |-> s]
LiteForms == {LiteForm("oncall", {"high"}, "feishu", 1, TRUE),
              LiteForm("archive", {}, "generic", 0, FALSE)}
LitePatterns == {{LiteAlert(FALSE, {"high", "low"})}}
LiteBudgets == {[posts |-> 2, edits |-> 0, crashes |-> 1], [posts |-> 1, edits |-> 1, crashes |-> 0]}

\* Two web processes that admit requests before anything else is done.
Limits == INSTANCE IngressLimits WITH
    Procs <- Workers, Tiers <- TwoTiers, StormLimits <- {0, 1}, StormWindow <- 2,
    MaxLen <- 4, HighWater <- 1, CacheTTL <- 1, Cycle <- 2, MaxFaults <- 1,
    faults <- limitsFaults

\* The connection of one source: its token, its observed shape and its counters.
Board == INSTANCE SourceOnboarding WITH
    Operators <- Workers, Alerts <- Requests, Shapes <- Shapes, NoShape <- None,
    MaxToken <- 2, MaxEdits <- 2, MaxFailures <- 1, MaxPosts <- 2

\* The registry of adapters and the documents it detects and normalizes.
Adapt == INSTANCE SourceAdapters WITH
    Directories <- SomeDirectories, Hints <- {"alertmanager", "unknown"},
    Placeholders <- {"unknown"}, Documents <- SomeDocuments, Wrappers <- {0, 2},
    Keyings <- KeySettings, MaxSalvage <- 3, MaxPasses <- 2, log <- adaptLog

\* Two workers that ask the model for a verdict under a monthly budget.
Ai == INSTANCE AiAnalysis WITH
    Conditions <- {"c1"}, Profile <- MoneyAlert, Scenarios <- Policies,
    Judgements <- {"low", "high"}, Budget <- 1, FlushAfter <- 1, SumTTL <- 1,
    MaxAttempts <- 1, MaxAnswers <- 1, MaxFaults <- 1, MaxChanges <- 1,
    cache <- aiCache, faults <- aiFaults

\* The lite edition: one process, one database, no queue.
Lite == INSTANCE LiteEdition WITH
    Requests <- Requests, Alerts <- LiteSeen, RuleForms <- LiteForms,
    Patterns <- LitePatterns, Verdicts <- {"low"}, DedupWindow <- 1, Cooldown <- 2,
    SilenceFor <- 1, Backoff <- 1, MaxAttempts <- 2, BatchLimit <- 2,
    Budgets <- LiteBudgets

------------------------------------------------------------------------------
limitsState == <<config, clock, bucket, passed, storm, backlog, trimmed, cache, req,
                 blind, up, limitsFaults>>
LimitsRests ==
    /\ config = "off" /\ clock = "off" /\ bucket = "off" /\ passed = "off"
    /\ storm = "off" /\ backlog = "off" /\ trimmed = "off" /\ cache = "off"
    /\ req = "off" /\ blind = "off" /\ up = "off" /\ limitsFaults = "off"
boardState == <<connection, operator, post, posts, queued, log, edits, failures>>
BoardRests ==
    /\ connection = "off" /\ operator = "off" /\ post = "off" /\ posts = "off"
    /\ queued = "off" /\ log = "off" /\ edits = "off" /\ failures = "off"
adaptState == <<directory, registry, passes, todo, keying, adaptLog>>
AdaptRests ==
    /\ directory = "off" /\ registry = "off" /\ passes = "off" /\ todo = "off"
    /\ keying = "off" /\ adaptLog = "off"
aiState == <<setting, job, aiCache, original, override, table, buffer, writing, sum,
             paid, over, lost, aiFaults, changes>>
AiRests ==
    /\ setting = "off" /\ job = "off" /\ aiCache = "off" /\ original = "off"
    /\ override = "off" /\ table = "off" /\ buffer = "off" /\ writing = "off"
    /\ sum = "off" /\ paid = "off" /\ over = "off" /\ lost = "off" /\ aiFaults = "off"
    /\ changes = "off"
liteState == <<events, decisions, outbox, rules, silences, requests, courier, budget>>
LiteRests ==
    /\ events = "off" /\ decisions = "off" /\ outbox = "off" /\ rules = "off"
    /\ silences = "off" /\ requests = "off" /\ courier = "off" /\ budget = "off"

MCInit ==
    /\ part \in {"dedup", "limits", "board", "adapt", "ai", "lite"}
    /\ Init
    /\ part # "dedup" => silenced = FALSE
    /\ IF part = "limits" THEN Limits!LimitInit ELSE LimitsRests
    /\ IF part = "board" THEN Board!OnboardingInit ELSE BoardRests
    /\ IF part = "adapt" THEN Adapt!AdapterInit ELSE AdaptRests
    /\ IF part = "ai" THEN Ai!Init ELSE AiRests
    /\ IF part = "lite" THEN Lite!LiteInit ELSE LiteRests

MCVars == <<part, vars, limitsState, boardState, adaptState, aiState, liteState>>

MCNext ==
    \/ part = "dedup" /\ Next
       /\ UNCHANGED <<part, limitsState, boardState, adaptState, aiState, liteState>>
    \/ part = "limits" /\ Limits!LimitNext
       /\ UNCHANGED <<part, vars, boardState, adaptState, aiState, liteState>>
    \/ part = "board" /\ Board!OnboardingNext
       /\ UNCHANGED <<part, vars, limitsState, adaptState, aiState, liteState>>
    \/ part = "adapt" /\ Adapt!AdapterNext
       /\ UNCHANGED <<part, vars, limitsState, boardState, aiState, liteState>>
    \/ part = "ai" /\ Ai!Next
       /\ UNCHANGED <<part, vars, limitsState, boardState, adaptState, liteState>>
    \/ part = "lite" /\ Lite!LiteNext
       /\ UNCHANGED <<part, vars, limitsState, boardState, adaptState, aiState>>

MCSpec == MCInit /\ [][MCNext]_MCVars

FrontSymmetry == Permutations(Requests) \cup Permutations(Workers) \cup Permutations(Shapes)

------------------------------------------------------------------------------
\* What the rate limiter lets through in a window stays within the limit plus what the
\* estimate may miss, a refusal costs the sender nothing, and the high-water mark of
\* the queue is checked before anything would be trimmed.
IngressBounded ==
    part = "limits" =>
        Limits!LimitTypeOK /\ Limits!RateHonoured /\ Limits!RefusalsAreFree /\ Limits!NothingTrimmed

\* A revoked token stays shut, an accepted alert is queued once whatever fails after
\* the enqueue, and the counters of the connection say what arrived.  Adapters on disk
\* do not displace the built-in ones, a document salvaged from a body that was cut
\* short says nothing its sender did not, and alerts that differ where it matters keep
\* apart.
SourcesHold ==
    /\ part = "board" =>
        Board!OnboardingTypeOK /\ Board!RevokedStaysShut /\ Board!QueuedOnce /\ Board!CountersTrue
    /\ part = "adapt" =>
        Adapt!AdapterTypeOK /\ Adapt!BuiltinWinsTie /\ Adapt!SalvageTrue /\ Adapt!NoCollapse

\* The cost of a call reaches the budget or is lost with a worker, a money alert does
\* not leave the rules below high, and a spent budget stops the calls within a flush and
\* the life of a cached sum.
BudgetHolds ==
    /\ [](part = "ai" => Ai!TypeOK /\ Ai!SpendAccounted /\ Ai!MoneyStaysHigh)
    /\ [][part = "ai" => Ai!BrakeStep]_aiState

\* In the lite edition the trace of an alert tells what happened to it, alerts are
\* paced by the cool-down, and what counts as sent was taken by the receiver.
LiteHolds ==
    part = "lite" => Lite!LiteTypeOK /\ Lite!TraceTrue /\ Lite!Paced /\ Lite!SentWasTaken
==============================================================================
