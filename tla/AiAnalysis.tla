----------------------------- MODULE AiAnalysis -----------------------------
(***************************************************************************)
(* The analysis of an alert (services/analysis/ai_analyzer.py): an earlier *)
(* firing's analysis reused, the Redis cache, the routes that need no      *)
(* model, the budget brake (ai_budget.py), the model call with its retries *)
(* (ai_llm_client.py), the rules it degrades to, and the operator's        *)
(* corrections applied to the result (importance_overrides.py).  The spend *)
(* the brake reads is what ai_usage.py has written: rows wait in a         *)
(* per-process buffer before they reach the table.                         *)
(*                                                                         *)
(* A condition is an alert_hash; Profile says what the rules can read of   *)
(* it.  Every answer of the model costs 1.                                 *)
(***************************************************************************)
EXTENDS Naturals, FiniteSets, Functions

CONSTANTS
    Workers,        \* worker processes, each with one analysis under way
    Conditions,     \* alert hashes of one alert rule
    Profile,        \* [Conditions -> Profiles]
    Scenarios,      \* settings of the deployment to start with
    Judgements,     \* importances the model and the operators give
    Budget,         \* AI_COST_MONTHLY_BUDGET_USD, in answers
    FlushAfter,     \* _FLUSH_AFTER_SECONDS, in ticks
    SumTTL,         \* _CACHE_TTL_SECONDS of the month-to-date sum, in ticks
    MaxAttempts,    \* attempts at the provider, 3 in the code
    MaxAnswers,     \* bound: answers paid for
    MaxFaults,      \* bound: faults
    MaxChanges      \* bound: corrections made or forgotten

VARIABLES
    setting,    \* the scenario: mode, excluded, routing, available
    job,        \* [Workers -> Job]
    cache,      \* [Conditions -> Importance \cup {Nothing}]   the Redis analysis cache
    original,   \* [Conditions -> Analysis]   the analysis a repeat may reuse
    override,   \* [Conditions -> Importance \cup {Nothing}]   importance_overrides
    table,      \* what ai_usage_logs sums to
    buffer,     \* [Workers -> [cost, left]]   usage rows waiting, and the flush timer
    writing,    \* [Workers -> Nat]   cost of the rows taken out to be written
    sum,        \* [value, left]   the cached month-to-date sum
    paid,       \* history: answers paid for
    over,       \* history: ticks since paid reached the budget
    lost,       \* history: cost whose rows never reached the table
    faults, changes

vars == <<setting, job, cache, original, override, table, buffer, writing, sum, paid, over, lost, faults, changes>>

spendVars == <<table, buffer, writing, sum, paid, over, lost>>
memory == <<cache, original, override>>

Nothing == "none"
Importance == {"low", "medium", "high"}
Answer == Importance \cup {Nothing}

-----------------------------------------------------------------------------
(* analyze_with_rules: what the keywords and thresholds say *)

Profiles ==
    [level : {"high", "warning", "info", "other"},     \* keyword class of the severity label
     name : {"high", "warning", "plain"},              \* keyword class of the rule name
     money : BOOLEAN,                                  \* a content keyword hits
     recovery : BOOLEAN,
     metric : {"none", "below", "reached", "far"},     \* current value against the threshold
     used : {"none", "normal", "warning", "high"},     \* GPU utilisation
     memory : {"none", "normal", "warning", "high"}]   \* GPU memory

ByLabel(p) ==
    IF "high" \in {p.level, p.name} THEN "high"
    ELSE IF "warning" \in {p.level, p.name} THEN "medium"
    ELSE IF p.level = "info" THEN "low" ELSE "medium"

\* A money or account alert is high whatever its label, unless it is a recovery.
ByContent(p) == IF p.money /\ ~p.recovery THEN "high" ELSE ByLabel(p)

ByMetricFlat(p) ==
    CASE p.metric = "far" -> "high"
      [] p.metric = "reached" -> "medium"
      [] OTHER -> ByContent(p)

\* The multiple of the threshold that makes it high, the threshold that lifts
\* a low to medium.
ByMetric(p) ==
    CASE p.metric = "far" -> "high"
      [] p.metric = "reached" /\ ByContent(p) # "high" -> "medium"
      [] OTHER -> ByContent(p)

\* _assess_gpu_risk: utilisation before memory, high before warning.
AssessGpuRisk(p) ==
    CASE "high" \in {p.used, p.memory} -> "gpu_high"
      [] "warning" \in {p.used, p.memory} -> "gpu_warning"
      [] "normal" \in {p.used, p.memory} -> "gpu_normal"
      [] OTHER -> "gpu_unknown"

ResourceOverride(p, importance) == IF AssessGpuRisk(p) = "gpu_high" THEN "high" ELSE importance

RuleVerdict(h) == ResourceOverride(Profile[h], ByMetric(Profile[h]))

\* The verdict to act now or later, read off the final importance.
TriageVerdict(p, importance) ==
    CASE p.recovery \/ importance = "low" -> "defer"
      [] importance = "high" -> "act_now"
      [] OTHER -> "monitor"

-----------------------------------------------------------------------------
Routes == {"ai", "cache", "rule", "rule_routed", "rule_excluded", "reuse"}

\* An analysis as it is stored: degraded ones are not reused.
Analysis == [importance : Answer, degraded : BOOLEAN]
NoAnalysis == [importance |-> Nothing, degraded |-> FALSE]

Job == [pc : {"idle", "cache", "route", "budget", "sum", "call", "save", "log", "correct", "store"},
        hash : Conditions, verdict : Answer, route : Routes \cup {Nothing}, degraded : BOOLEAN,
        attempt : 0 .. MaxAttempts, read : Nat, told : BOOLEAN]

Idle == [pc |-> "idle", hash |-> CHOOSE h \in Conditions : TRUE, verdict |-> Nothing, route |-> Nothing,
         degraded |-> FALSE, attempt |-> 0, read |-> 0, told |-> FALSE]

Empty == [cost |-> 0, left |-> 0]

TypeOK ==
    /\ setting \in Scenarios
    /\ job \in [Workers -> Job]
    /\ cache \in [Conditions -> Answer]
    /\ original \in [Conditions -> Analysis]
    /\ override \in [Conditions -> Answer]
    /\ table \in Nat /\ paid \in Nat /\ lost \in Nat
    /\ buffer \in [Workers -> [cost : Nat, left : 0 .. FlushAfter]]
    /\ writing \in [Workers -> Nat]
    /\ sum \in [value : Nat, left : 0 .. SumTTL]
    /\ over \in 0 .. FlushAfter + SumTTL
    /\ faults \in 0 .. MaxFaults /\ changes \in 0 .. MaxChanges

Init ==
    /\ setting \in Scenarios
    /\ job = [w \in Workers |-> Idle]
    /\ cache = [h \in Conditions |-> Nothing]
    /\ original = [h \in Conditions |-> NoAnalysis]
    /\ override = [h \in Conditions |-> Nothing]
    /\ table = 0 /\ sum = [value |-> 0, left |-> 0]
    /\ buffer = [w \in Workers |-> Empty] /\ writing = [w \in Workers |-> 0]
    /\ paid = 0 /\ over = 0 /\ lost = 0
    /\ faults = 0 /\ changes = 0

Fault == faults < MaxFaults /\ faults' = faults + 1
Step(w, pc) == job' = [job EXCEPT ![w].pc = pc]

-----------------------------------------------------------------------------
(* log_ai_usage and its buffer *)

\* A row goes into the process's buffer; the first one starts the timer.  The
\* rows that cost nothing are left out: they would only start it earlier.
Append(w) ==
    buffer' = [buffer EXCEPT ![w] =
        [cost |-> @.cost + 1, left |-> IF @.cost = 0 THEN FlushAfter ELSE @.left]]

FlushKeeping(w) ==
    /\ buffer[w].cost > 0 /\ writing[w] = 0
    /\ writing' = [writing EXCEPT ![w] = buffer[w].cost]
    /\ buffer' = [buffer EXCEPT ![w].left = FlushAfter]
    /\ UNCHANGED <<setting, job, memory, table, sum, paid, over, lost, faults, changes>>

\* The timer fires, the process shuts down, or the buffer is full: the rows are
\* taken out and written in a transaction of their own ...
FlushAiUsage(w) ==
    /\ buffer[w].cost > 0 /\ writing[w] = 0
    /\ writing' = [writing EXCEPT ![w] = buffer[w].cost]
    /\ buffer' = [buffer EXCEPT ![w] = Empty]
    /\ UNCHANGED <<setting, job, memory, table, sum, paid, over, lost, faults, changes>>

\* ... that may fail, and then they are gone.
WriteRows(w) ==
    /\ writing[w] > 0
    /\ writing' = [writing EXCEPT ![w] = 0]
    /\ \/ table' = table + writing[w] /\ UNCHANGED <<lost, faults>>
       \/ Fault /\ lost' = lost + writing[w] /\ UNCHANGED table
    /\ UNCHANGED <<setting, job, memory, buffer, sum, paid, over, changes>>

-----------------------------------------------------------------------------
(* The pipeline in front of the analysis *)

ReusableAnalysis(a) == a.importance # Nothing /\ ~a.degraded

\* resolve_dedup: a repeat within the window reuses the stored analysis and
\* goes straight to being stored; anything else is analysed afresh.
Receive(w, h) ==
    /\ job[w].pc = "idle"
    /\ LET reuse == ReusableAnalysis(original[h]) IN
       /\ job' = [job EXCEPT ![w] =
              [Idle EXCEPT !.pc = IF reuse THEN "store" ELSE "cache",
                           !.hash = h,
                           !.verdict = IF reuse THEN original[h].importance ELSE Nothing,
                           !.route = IF reuse THEN "reuse" ELSE Nothing,
                           !.told = override[h] # Nothing]]
    /\ UNCHANGED <<setting, memory, spendVars, faults, changes>>

\* The window of the condition passes: its next firing is a new one.
WindowPasses(h) ==
    /\ original[h] # NoAnalysis
    /\ original' = [original EXCEPT ![h] = NoAnalysis]
    /\ UNCHANGED <<setting, job, cache, override, spendVars, faults, changes>>

-----------------------------------------------------------------------------
(* analyze_webhook_with_ai *)

Verdict(w, importance, route, degraded) ==
    job' = [job EXCEPT ![w] = [Idle EXCEPT !.pc = "correct", !.hash = job[w].hash, !.told = job[w].told,
                                           !.verdict = importance, !.route = route, !.degraded = degraded]]

\* get_cached_analysis: a hit costs nothing; a Redis error is a miss.
GetCachedAnalysis(w) ==
    LET h == job[w].hash IN
    /\ job[w].pc = "cache"
    /\ \/ /\ cache[h] # Nothing
          /\ Verdict(w, ResourceOverride(Profile[h], cache[h]), "cache", FALSE)
          /\ UNCHANGED faults
       \/ /\ cache[h] = Nothing
          /\ Step(w, "route")
          /\ UNCHANGED faults
       \/ /\ cache[h] # Nothing /\ Fault
          /\ Step(w, "route")
    /\ UNCHANGED <<setting, memory, spendVars, changes>>

\* The rules an operator excluded, then the tiered routing; neither is a
\* degradation.
RouteToRules(w) ==
    LET h == job[w].hash IN
    /\ job[w].pc = "route"
    /\ \/ /\ h \in setting.excluded
          /\ Verdict(w, RuleVerdict(h), "rule_excluded", FALSE)
       \/ /\ h \notin setting.excluded
          /\ RuleVerdict(h) \in setting.routing
          /\ Verdict(w, RuleVerdict(h), "rule_routed", FALSE)
       \/ /\ h \notin setting.excluded
          /\ RuleVerdict(h) \notin setting.routing
          /\ Step(w, "budget")
    /\ UNCHANGED <<setting, memory, spendVars, faults, changes>>

\* _degrade_to_rules.
Degrade(w) == Verdict(w, RuleVerdict(job[w].hash), "rule", TRUE)

BrakeLate(w, spent) ==
    IF (spent > Budget /\ setting.mode = "enforce") \/ ~setting.available THEN Degrade(w)
    ELSE job' = [job EXCEPT ![w].pc = "call", ![w].read = 0]

\* What the brake makes of a spend: refuse, or go on to the provider.
Brake(w, spent) ==
    IF (spent >= Budget /\ setting.mode = "enforce") \/ ~setting.available THEN Degrade(w)
    ELSE job' = [job EXCEPT ![w].pc = "call", ![w].read = 0]

\* budget_exhausted: nothing is read unless the brake is on; a meter that
\* cannot be read lets the call through.
BudgetExhausted(w) ==
    /\ job[w].pc = "budget"
    /\ \/ /\ setting.mode = "off"
          /\ Brake(w, 0) /\ UNCHANGED faults
       \/ /\ setting.mode # "off" /\ Fault
          /\ Brake(w, 0)
       \/ /\ setting.mode # "off" /\ sum.left > 0
          /\ Brake(w, sum.value + buffer[w].cost) /\ UNCHANGED faults
       \/ /\ setting.mode # "off" /\ sum.left = 0
          /\ job' = [job EXCEPT ![w].pc = "sum", ![w].read = table]
          /\ UNCHANGED faults
    /\ UNCHANGED <<setting, memory, spendVars, changes>>

\* month_to_date_spend: the sum read above is cached, if Redis takes it, and
\* the process's own buffer added.
MonthToDateSpend(w) ==
    /\ job[w].pc = "sum"
    /\ \/ sum' = [value |-> job[w].read, left |-> SumTTL] /\ UNCHANGED faults
       \/ Fault /\ UNCHANGED sum
    /\ Brake(w, job[w].read + buffer[w].cost)
    /\ UNCHANGED <<setting, memory, table, buffer, writing, paid, over, lost, changes>>

\* The model answers, and the answer is paid for.
Answered(w) ==
    /\ paid < MaxAnswers
    /\ paid' = paid + 1
    /\ \E v \in Judgements :
          job' = [job EXCEPT ![w].pc = "save", ![w].attempt = 0, ![w].route = "ai",
                             ![w].verdict = ResourceOverride(Profile[job[w].hash], v)]
    /\ UNCHANGED faults

\* A retryable error of the provider is tried again with the same prompt.
Retried(w) ==
    /\ Fault /\ job[w].attempt + 1 < MaxAttempts
    /\ job' = [job EXCEPT ![w].attempt = @ + 1]
    /\ UNCHANGED paid

\* An open breaker, a refusal, or an error of the provider where degrading is
\* allowed.
GaveUp(w) == Fault /\ Degrade(w) /\ UNCHANGED paid

\* An error of the provider where it is not, or a bug, fails the alert: its
\* ingest is retried.
Raised(w) == Fault /\ job' = [job EXCEPT ![w] = Idle] /\ UNCHANGED paid

\* call_ai_with_breaker and the handlers around it.
CallAi(w) ==
    /\ job[w].pc = "call"
    /\ Answered(w) \/ Retried(w) \/ GaveUp(w) \/ Raised(w)
    /\ UNCHANGED <<setting, memory, table, buffer, writing, sum, over, lost, changes>>

\* save_to_cache: what the model said, before any correction; a Redis error
\* leaves the cache as it was.
SaveToCache(w) ==
    /\ job[w].pc = "save"
    /\ \/ cache' = [cache EXCEPT ![job[w].hash] = job[w].verdict] /\ UNCHANGED faults
       \/ Fault /\ UNCHANGED cache
    /\ Step(w, "log")
    /\ UNCHANGED <<setting, original, override, spendVars, changes>>

LogAiUsage(w) ==
    /\ job[w].pc = "log"
    /\ Append(w)
    /\ Step(w, "correct")
    /\ UNCHANGED <<setting, memory, table, writing, sum, paid, over, lost, faults, changes>>

\* apply_override: a fresh analysis takes the operator's correction, unless the
\* lookup fails.
ApplyOverride(w) ==
    /\ job[w].pc = "correct"
    /\ \/ /\ job' = [job EXCEPT ![w].pc = "store",
                                ![w].verdict = IF override[job[w].hash] # Nothing THEN override[job[w].hash] ELSE @]
          /\ UNCHANGED faults
       \/ Fault /\ job' = [job EXCEPT ![w].pc = "store", ![w].told = FALSE]
    /\ UNCHANGED <<setting, memory, spendVars, changes>>

\* The event is stored; a fresh analysis is what repeats will reuse.
Store(w) ==
    /\ job[w].pc = "store"
    /\ job' = [job EXCEPT ![w] = Idle]
    /\ original' = IF job[w].route = "reuse" THEN original
                   ELSE [original EXCEPT ![job[w].hash] = [importance |-> job[w].verdict, degraded |-> job[w].degraded]]
    /\ UNCHANGED <<setting, cache, override, spendVars, faults, changes>>

-----------------------------------------------------------------------------
(* add_feedback, forget_override, the rest of the spending, and time *)

\* A firing under way when the operator changes his mind may go either way.
Untold(h) == [w \in Workers |-> IF job[w].hash = h THEN [job[w] EXCEPT !.told = FALSE] ELSE job[w]]

\* add_feedback with a corrected importance: the event row and the override
\* take it; the stored analysis that repeats reuse does not.
AddFeedback(h, importance) ==
    /\ changes < MaxChanges /\ changes' = changes + 1
    /\ override[h] # importance
    /\ override' = [override EXCEPT ![h] = importance]
    /\ job' = Untold(h)
    /\ UNCHANGED <<setting, cache, original, spendVars, faults>>

ForgetOverride(h) ==
    /\ changes < MaxChanges /\ changes' = changes + 1
    /\ override[h] # Nothing
    /\ override' = [override EXCEPT ![h] = Nothing]
    /\ job' = Untold(h)
    /\ UNCHANGED <<setting, cache, original, spendVars, faults>>

\* summarize_incident: paid for without asking the brake, logged like the rest.
SummarizeIncident(w) ==
    /\ setting.available /\ paid < MaxAnswers
    /\ paid' = paid + 1
    /\ Append(w)
    /\ UNCHANGED <<setting, job, memory, table, writing, sum, over, lost, faults, changes>>

\* A hard crash takes the buffered rows and the analysis along.
Crash(w) ==
    /\ Fault
    /\ job' = [job EXCEPT ![w] = Idle]
    /\ lost' = lost + buffer[w].cost + writing[w] + (IF job[w].pc \in {"save", "log"} THEN 1 ELSE 0)
    /\ buffer' = [buffer EXCEPT ![w] = Empty]
    /\ writing' = [writing EXCEPT ![w] = 0]
    /\ UNCHANGED <<setting, memory, table, sum, paid, over, changes>>

\* A tick: a due flush, a write, a sum and the logging of an answer do not wait
\* for the next one.
Tick ==
    /\ \A w \in Workers :
        /\ buffer[w].cost = 0 \/ buffer[w].left > 0
        /\ writing[w] = 0
        /\ job[w].pc \notin {"sum", "save", "log"}
    /\ buffer' = [w \in Workers |-> [buffer[w] EXCEPT !.left = IF @ > 0 THEN @ - 1 ELSE 0]]
    /\ sum' = IF sum.left > 1 THEN [sum EXCEPT !.left = @ - 1] ELSE [value |-> 0, left |-> 0]
    /\ over' = IF paid >= Budget /\ over < FlushAfter + SumTTL THEN over + 1 ELSE over
    /\ <<buffer', sum', over'>> # <<buffer, sum, over>>
    /\ UNCHANGED <<setting, job, memory, table, writing, paid, lost, faults, changes>>

Next ==
    \/ \E w \in Workers :
        \/ \E h \in Conditions : Receive(w, h)
        \/ GetCachedAnalysis(w) \/ RouteToRules(w) \/ BudgetExhausted(w) \/ MonthToDateSpend(w)
        \/ CallAi(w) \/ SaveToCache(w) \/ LogAiUsage(w) \/ ApplyOverride(w) \/ Store(w)
        \/ FlushAiUsage(w) \/ WriteRows(w) \/ SummarizeIncident(w) \/ Crash(w)
    \/ \E h \in Conditions :
        \/ WindowPasses(h) \/ ForgetOverride(h)
        \/ \E i \in Judgements : AddFeedback(h, i)
    \/ Tick

Spec == Init /\ [][Next]_vars

-----------------------------------------------------------------------------
\* With the brake enforced a model call begins only within one flush and one
\* caching of the sum after the month's money was spent, unless rows of the
\* spend were lost or the meter could not be read: the overrun ai_budget.py
\* promises to bound, by every process's buffer and every stale sum together.
BrakeStep ==
    \A w \in Workers :
        (job[w].pc \in {"budget", "sum"} /\ job'[w].pc = "call" /\ setting.mode = "enforce" /\ lost = 0 /\ faults' = faults)
            => over < FlushAfter + SumTTL

BrakeHolds == [][BrakeStep]_vars

\* A money alert that is still firing leaves the path to the model low only if
\* a person corrected it: neither the label, the thresholds, the routing nor
\* the degradation to the rules files it low or medium.
MoneyStaysHigh ==
    \A w \in Workers :
        LET p == Profile[job[w].hash] IN
        (job[w].route \in {"rule", "rule_routed", "rule_excluded"} /\ p.money /\ ~p.recovery /\ job[w].pc = "correct")
            => job[w].verdict = "high" /\ TriageVerdict(p, job[w].verdict) = "act_now"

\* Every answer paid for is accounted for in exactly one place: in the table,
\* in a buffer, in a write under way, in the hands of the analysis that paid
\* for it, or lost to a crash or a failed write; none is counted twice.
SpendAccounted ==
    LET unlogged == {w \in Workers : job[w].pc \in {"save", "log"}}
        cost == [w \in Workers |-> buffer[w].cost + writing[w]]
    IN paid = table + lost + Cardinality(unlogged) + FoldFunction(+, 0, cost)

\* A correction covers every later firing of its condition: a firing that was
\* received after the correction is stored with it ("one correction covers
\* every future firing of the same thing", models/operations.py:80).
\* The code does not keep this: README, section 6.
CorrectionHonoured ==
    \A w \in Workers :
        (job[w].pc = "store" /\ job[w].told) => job[w].verdict = override[job[w].hash]
=============================================================================
