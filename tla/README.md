# WebhookWise: verification project

TLA+ models of WebhookWise, the TLC runs that check them on small instances and
the theorems TLAPS proves about them for every instance. Paths are relative to
the repository's source tree (`src/`).

## 1. The system

WebhookWise receives alerts as webhooks, analyses them, and forwards what is
worth a person's attention. It is one Python code base run as three kinds of
process (API, worker, scheduler) over PostgreSQL, which holds the truth, and
Redis, which holds the TaskIQ stream, locks, counters and caches. The broker
delivers a task at least once: a message that is not acknowledged in time is
claimed by another consumer. Everything that must survive is a row, and every
row that waits for work is found again by a periodic scan. A *lite edition*
does the same in one process over one SQLite file.

An alert passes, in this order: ingress limits, onboarding (the source's
token), the stream, the worker with its retries, adapter and keys, the gate,
deduplication, silence, analysis (rules, model or an earlier verdict), noise
reduction, routing, the save, the outbox. Around that path stand the
incidents, deep analysis, remediation, the periodic jobs, retention, the
configuration with its caches, and the reports operators read.

What is hard here is never one function: it is two workers with the same
message, a scan beside a slow delivery, a TTL that runs out during a commit, a
kick that is lost, a process that dies between two transactions, an operator
who acts on what he read a minute ago.

| Component (module) | State | Operations | What makes it correct |
|---|---|---|---|
| Forwarding outbox (`ForwardOutbox`) | `forward_outbox`, `webhook_events.forward_status`, kicks | create, claim, claim siblings, deliver, finalize, park, scan, requeue | one holder, sent once and for good, no row left behind, every row settled |
| Raw ingest (`RawIngest`) | `processing_status`, retry record, stream, delayed schedule | process, record retry, scan, dead-letter, replay | never lost, never reopened, settled |
| Gate (`AlertGate`) | slot counter, lock with TTL, health flag | reserve, acquire, renew, release, commit | two in one key only after a fault; never closed for good |
| Dedup and persistence (`AlertDedup`) | Redis window, events under an advisory lock | resolve, save with recheck, remember | one original per window, exact counts |
| Routing (`AlertRouting`) | rule tables, flapping window, events and rows | shape, decide, file, edit tables | every target told, ceilings and cadence kept |
| AI analysis (`AiAnalysis`) | cache, usage buffers and table, overrides | analyse, degrade, flush, correct | cost accounted, brake within bounds |
| Noise reduction (`NoiseReduction`) | stored verdicts, corrections | judge, compare, suppress, correct | the root cause is told |
| Circuit breaker (`CircuitBreaker`) | Redis circuit, local caches | check, record, probe, evict | opens for enough failures; stale CLOSED bounded; lets calls through again |
| Deep analysis (`DeepAnalysis`) | rows with lease and round, stability snapshot, tasks | submit, poll, compare, time out, announce, retry, scan | a verdict belongs to its round; everything settles |
| Incidents (`Incidents`) | incidents, members, transitions, summaries | scan, workflow, chat card, undo, merge, split, summarise, close old ones | counts, endings and decisions right unless two transactions overlap; a failed attempt strands no summary |
| Service insight (`ServiceInsight`), runbook advice (`RunbookAdvice`), response centre (`ResponseCenter`), alert quality (`AlertQuality`) | read models over the above; runs of runbooks, calibration | read in several statements; start, rate, ingest | what is shown has grounds |
| Remediation (`Remediation`) | proposals, receipts | propose, decide, run, verify | outcome on record, a press acted on once |
| Noise centre (`NoiseCenter`) | actions with undo | count, suggest, apply, undo | what is quiet can be undone, once |
| Maintenance windows (`MaintenanceWindows`) | windows, silences | sweep, edit, lift | silences agree with the windows; a lift sticks |
| Configuration (`ConfigCache`, `RuntimeSettings`) | tables, process caches, notices | edit, publish, load, refresh | bounded staleness |
| Ingress limits (`IngressLimits`), onboarding (`SourceOnboarding`), adapters (`SourceAdapters`) | Redis windows, connection rows, registry | admit, count, authenticate, detect, normalize | limits hold, revoked stays shut, alerts that differ keep apart |
| Periodic jobs (`ScheduledJobs`), retention (`DataRetention`), knowledge (`KnowledgeBase`) | leader lock, markers; archive; drafts | lead, send, catch up; archive; draft, review, publish | no report lost unexplained; one place per event; approved text stays |
| Lite edition (`LiteEdition`) | events, decisions, outbox of one SQLite file | gates, enqueue, deliver, edit | the trace tells what happened |

`PROJECT.json` lists the components with what is left out of each, and the
hazards at their lines with the properties that would catch each.

## 2. Modules

Every module above is one specification: its header says which files it
follows; an action is a handler, or a step of one that ends at a commit, an
`await` or a call another process can get in between. `DeliveryIntent` is the
abstract specification `ForwardOutbox` implements (`INSTANCE ... WITH`).
`Controls` (`ConfigCache` beside `RuntimeSettings` and `Remediation`) and `Sweeps`
(`KnowledgeBase` beside `MaintenanceWindows` and `DataRetention`) compose components
that run side by side and state what they promise together: a behaviour of
`ControlsSpec` or `SweepsSpec` is one of each component at once. `*_proofs` modules
extend the module they are about, and hold the theorems.

How state corresponds to the code, for the four modules theorems are about
most:

- **ForwardOutbox.** A row is `status`, `attempts`, `wait` (time to
  `next_attempt_at`), `idle` (time since `updated_at`) and `age` (time since the
  age basis). Each worker has a program counter that stands at the transactions
  of `process_forward_outbox`: claim, digest siblings, the remote call, one
  transaction per row for the success, the failure finalizer as a read and a
  write (the code loads the row without a lock), the notice, the park. The scan
  is one step: it expires, recovers stale rows, selects and kicks. `Kick` may
  lose any of its messages. `Redeliver` is the broker, `Crash` a worker's death,
  `RequeueForwardOutbox` the operator. `MaxHold` is the longest time a live
  worker keeps a row; nothing in the code bounds it by the stale threshold.
- **RawIngest.** An event has `processing_status`, `retryCount` and whether its
  retry is due. Messages carry the retry count. `HandleFailure` branches as
  `_handle_raw_webhook_failure` does. Faults are named by the call that fails.
  The scan is three steps: select, lease, enqueue.
- **AlertDedup.** One dedup key. A row is named by its request and keeps the
  `timestamp` windows are measured from, its commit, its original and count, and
  what its analysis is worth. A worker walks through the stages of the pipeline;
  `LockExpires` and `RenewalFails` take the lock away. `DuplicateOf` is
  `_resolve_duplicate_status`.
- **CircuitBreaker.** Everything is a countdown, so time is never bounded. A
  check is two steps, the read in Redis and the use of the reply. `Rebuild` is
  the eviction of a breaker object, `RedisError` marks Redis unhealthy.

The other modules are built in the same way: rows are records, times are
countdowns or ages that saturate, a text is a small value, a budget (`faults`,
`edits`, `MaxRoutingTime` ...) bounds what would be unbounded, and each is a CONSTANT.

The MC modules compose the components: `MCDelivery` extends `ForwardOutbox` and
`Controls`, `MCIngest` extends `RawIngest` and `AlertGate`, `MCSweeps` extends
`ForwardOutbox` and `Sweeps`, `MCIncidents` extends `ScheduledJobs`, `MCInsight`
`DeepAnalysis`, `MCFront` `AlertDedup` and `MCJudging` `AlertRouting` and
`NoiseReduction`; so what a run
checks of them is the definition the theorems are about. The other components are
instances with variables of their own. `part` says which component a behaviour
exercises; the others rest in an initial state. They share no variable a property relates, so interleaving them would multiply the
states and show nothing; what components do exchange (the dead letter and the
outbox rows a command retries, the notices a transaction publishes, the alerts a
noise action silences) is inside one module, with the other side as its
environment.

## 3. Runs

| Run | Module | Properties |
|---|---|---|
| `breaker_shared` (pass) | `CircuitBreaker` | `LagBounded`, `TripJustified`, `KeepsTrying`: Two processes, two concurrent calls and a Redis error between any two steps: until that error a cached CLOSED outlives a trip by at most its TTL, the circuit opens only for enough failures within the window, and calls are let through again and again. |
| `breaker_isolation` (violation) | `CircuitBreaker` | `TargetsIsolated`: Failures of one gateway open the circuit of another: their breaker objects share the Redis keys. |
| `deep_gateway` (violation) | `MCDeepAnalysis` | `CollectedWhereSubmitted`: A run submitted to a second gateway is collected from the default one, and fails there. |
| `routing_excluded` (violation) | `MCJudging` | `ExcludedNotInvestigated`: An inbound rule excludes an alert rule, by its name, from investigations; the alert is filed for one all the same. |
| `delivery` (pass) | `MCDelivery` | `ExclusiveHolder`, `OneFollowUp`, `OutboxAccounts`, `DigestAccounts`, `ConfigFresh`, `DecisionsKept`, `NoiseUndoable`, `SentIsFinal`, `ImplementsIntent`: One outbox row, a digest of two, the caches and overrides that feed the outbox, one remediation proposal with two deciders and the noise centre with two operators: with short deliveries a row has one holder, is sent once and implements the delivery intent, whatever crashes and races there are, and no decision, notice or undo is lost to another. |
| `ingest` (pass) | `MCIngest` | `OneRearm`, `NotLost`, `GateHolds`, `RetryNeverReopens`, `EventuallySettled`, `DeepDone`, `KeyReopens`: One webhook with a duplicate message, two workers, the retry scan, retries and a replay; the processing gate with leaked slots and lost locks; one deep analysis with two faults: an accepted webhook is never lost and comes to rest unless an error its failure handler does not catch ends the attempt, the gate holds and reopens, a deep analysis is settled in the end. |
| `front` (pass) | `MCFront` | `RecentOriginalWins`, `CountMatches`, `IngressBounded`, `SourcesHold`, `LiteHolds`, `BudgetHolds`: Two redelivered webhooks of one identity under every fault of Redis and of the workers, two web processes at the rate limiter and the queue, the onboarding of a source, the adapters on cut-off documents, the model's budget and the lite edition. |
| `judging` (pass) | `MCJudging` | `RoutingKept`, `RoutingHolds`, `RootCauseTold`, `LevelHasGrounds`: Three alerts of one condition through two workers with one edit of the tables, a crash or a Redis failure, and the stage that relates alerts: every covering rule files its row, ceilings and cadence hold on every way to an analysis, and no root cause is swallowed with its derived alerts. |
| `incidents` (pass) | `MCIncidents` | `IncidentsHold`, `JobsHold`: Operators at the console and at the chat card, the quiet scan, merges, splits, retention and a crashing summary on two incidents, and scheduled reports led by two workers with restarts and lost answers: counts, endings and decisions stay right unless two transactions write the same of an incident from their own copies, a failed attempt strands no summary, and reports are neither lost without an explanation nor successfully sent more than twice. |
| `insight` (pass) | `MCInsight` | `DeepVerdict`, `InsightHolds`, `ScreensHold`, `AdviceHolds`: Readers that scan in several statements while others write: recommendations under trial, overlapping polls of one deep analysis, change reports delivered twice, the paged work list and the quality report with its cache. |
| `sweeps` (pass) | `MCSweeps` | `SweptOnce`, `NeverExpiredUndue`, `SweepsRespect`, `DigestSettles`, `SweepsFinish`: The background sweeps with rows that change under them and runs that overlap: a row expires only when it was due and too old, an operator's lift, an approved document and a dependent row are respected, and every sweep gets done. |
| `remediation_approved` (violation) | `MCRemediation` | `ApprovedOnce`: A command that commits inside its decider's transaction releases the lock on the proposal; a second approval executes it again. |

Some properties gather named invariants of one component; the parts are defined
in the component's module, each under a comment that states it:

| Property | Parts |
|---|---|
| `OutboxAccounts` | `TypeOK`, `SentWasAccepted`, `EventAgrees`, `AttemptBudget`, `NoOrphan` (ForwardOutbox) |
| `DigestAccounts` | `ExclusiveHolder`, `EventAgrees`, `NoOrphan` of a digest of two |
| `ConfigFresh` | `NoticeHonoured`, `EditIsLive`, `BoundedStaleness` (ConfigCache); `SnapshotCatchesUp` (RuntimeSettings) |
| `DecisionsKept` | `OutcomeRecorded`, `PressOnce`, `LockedRunsOnce` (Remediation) |
| `NoiseUndoable` | `TablesSum`, `QuietHasOwner`, `UndoneOnce` (NoiseCenter) |
| `GateHolds` | `RunsAlone`, `StormBounded`, `OutageForgotten` (AlertGate) |
| `IngressBounded` | `RateHonoured`, `RefusalsAreFree`, `NothingTrimmed` (IngressLimits) |
| `SourcesHold` | `RevokedStaysShut`, `QueuedOnce`, `CountersTrue` (SourceOnboarding); `BuiltinWinsTie`, `SalvageTrue`, `NoCollapse` (SourceAdapters) |
| `BudgetHolds` | `SpendAccounted`, `MoneyStaysHigh`, `BrakeStep` (AiAnalysis) |
| `LiteHolds` | `TraceTrue`, `Paced`, `SentWasTaken` (LiteEdition) |
| `RoutingKept` | `RoutingTypeOK`, `CapRespected`, `CadenceKept`, `JudgedBeforeForwarded` (AlertRouting) |
| `RoutingHolds` | `MutedOnlyWhileFlapping`, `RoutedToAll` (AlertRouting) |
| `RootCauseTold` | `StageTypeOK`, `RootTold` (NoiseReduction) |
| `IncidentsHold` | `CountAgrees`, `EndedIsClosed`, `ConnectionBoundary`, `UndoKeepsDecisions`, `SummaryNotStranded` |
| `JobsHold` | `OneLeader`, `MarkerMeansSent`, `MissExplained`, `AtMostTwice`, `TierSentOnce` |
| `DeepVerdict` | `NoticeBudget`, `VerdictOfRound`, `ReportSettled` (DeepAnalysis) |
| `InsightHolds`, `ScreensHold`, `AdviceHolds` | the invariants of ServiceInsight, ResponseCenter with AlertQuality, and RunbookAdvice |
| `SweptOnce`, `SweepsRespect`, `SweepsFinish` | `LiftSticks`, `OnePlace`, `ChildrenKept`; `ArchiveStep`, `PublishStep`, `AmendStep`; `Muted`, the events held, the drafts composed |

A run that expects a violation states what a comment, a document or a test of
the repository says, and shows a behaviour of the code that contradicts it.

### Bounds, and why they are enough

- *Two of each actor.* Every hazard is between one party and another (a second
  worker, the scan, an operator). A third repeats the second: the theorems say so for
  the components that have one. Three deciders appear in `remediation_approved`,
  where a press, a rival press and a late callback meet.
- *Outbox:* one row for what concerns a row alone, two for a digest group,
  row 3 of `Sweeps.cfg` for the notice of an exhausted row. `MaxAttempts = 2`
  gives a first, a retry and an exhausted attempt; `MaxHold` at and above
  `StaleAfter` separates slow from dead; `MaxAge` 0 and 1 disables and forces
  expiry; `DigestWait = 3 > MaxAge` is the case the age basis is about. A row
  that may expire always settles, so `DigestSettles` is asked without expiry.
- *Ingest:* `MaxRetries = 1` gives a first attempt, a retry and a dead letter,
  one redelivery and one replay race the copies, and there is a fault anywhere.
- *Breaker:* `Threshold = 3` with `Window = 2`: three failures can be further
  apart than the window although each is within it of the one before.
- *Dedup:* two alerts, each delivered twice, are an original and a rival, or a
  duplicate and its redelivery.
- *Routing:* four states of the tables (nothing, a silence, a ceiling, an
  exclusion) with one edit between them, three alerts of one condition, because
  a cool-down and a reminder need a first, a held back and a due one.
- *Incidents:* two incident slots, six alerts (four of one rule and connection, a
  recovery, one of an unmanaged source), one operator beside the scan and one
  summariser: an undo needs a decision of another in between, which the chat card,
  the scan and retention (`AutoClose = 1`) also make.
- *Jobs:* one cadence, an interval of one tick, `MaxRun` equal to the lock's TTL of
  two intervals, so a run may outlive its lock, a claim of two ticks, one fault
  and one restart in an occurrence, and two of the four posts a send may make
  (`Attempts`): one whose answer is lost and the one that repeats it. Longer intervals are the theorems' part.
- *Ingress:* a burst tier of one tick and a sustained tier of two, so a request may
  pass the one and be refused by the other, and a previous window weighs one half
  at the second tick; `MaxLen = 4` leaves over the high-water mark exactly the
  headroom `NothingTrimmed` asks for.
- *Noise centre:* a table of one row (`MaxSources = 1`, 12 in the code), with windows
  of one and of two sources, and a card whose alert is older than the window.
- *Response centre:* pages of one, three incidents and four writes, which may fall
  between the count of a bucket and its page and between two pages.
- *Knowledge:* fewer saves than a batch has places (`MaxSaves < DraftBatch`):
  re-saved drafts that are never fresh again and fill every batch, so that the
  others starve, are outside `SweepsFinish`.
- *The others* have one object and the two actors that meet on it, with one
  fault (Redis, database, crash or late timer) anywhere.
- *Symmetry* (of workers, calls or requests) is used only in runs without
  liveness. Deadlock is not checked where budgets let the system stop.

### Fairness

- *Outbox (digest):* weak fairness of each worker's next step (a live process
  runs), of the tick and of a scan whose kicks reach the broker; strong fairness
  of taking the kick of a row: the stream is first in, first out, so a kick that
  is there again and again is taken in the end.
- *Ingest:* the same for workers, the delayed schedule, the scan and time, and
  strong fairness per message. *Deep analysis:* deliveries of tasks, polls and
  the end of an overrun one, the scan and time. *Gate:* time, Redis's recovery
  and each task's own steps; nothing obliges Redis to stay up.
- *Breaker:* time passes; checks, replies and returns are weakly fair since the
  HTTP clients have timeouts. `KeepsTrying` also needs calls that keep coming,
  which weak fairness of `Check` states.
- *Sweeps:* the scheduler calls the sweep again and again and its statements are
  executed; a retention run goes on; operators are never obliged to act.

## 4. Proofs

For every value of the constants under the modules' `ASSUME`s. In a module that is
composed with others the same thing is a definition, `Sane` (`CacheSane`,
`StageSane`, `GateAssumption`, `DeepAnalysisAssumption`; of the compositions `ControlsSane` and
`SweepsSane`): what the constants are (numbers, a set of processes, a value that is
none of them), and no more. The MC modules assume it of their own values, so that
every run evaluates it.

| Theorem | Statement | Hypothesis |
|---|---|---|
| `TypeCorrect`, `IngestTypeCorrect`, `BreakerTypeCorrect`, `DedupTypeCorrect` | `[]TypeOK` | none |
| `RemediationTypeCorrect`, `ConfigTypeCorrect`, `JobsTypeCorrect`, `DeepTypeCorrect` | `[]TypeOK` | `Sane` |
| `LeaseIsExclusive` | `[]ExclusiveHolder` | `ShortDeliveries` |
| `SentStaysSent` | `SentIsFinal` | `ShortDeliveries` |
| `FollowUpOnce` | `[]OneFollowUp` | `ShortDeliveries` |
| `OutboxImplementsIntent` | `ImplementsIntent` | `ShortDeliveries` |
| `UndueNotExpired` | `NeverExpiredUndue` | none; the property itself ends at the first requeue |
| `SentMeansAccepted` | `[]SentWasAccepted` | none |
| `EventsAgree` | `[]EventAgrees` | `ShortDeliveries` |
| `NobodyLeftBehind` | `[]NoOrphan` | `ShortDeliveries`; the property itself ends at the first crash |
| `AttemptsBounded` | `[]AttemptBudget` | `ShortDeliveries`; the same |
| `AccountsHold` | `[]OutboxAccounts`, the above four and the types | `ShortDeliveries` |
| `NeverLost` | `[]NotLost` | none; the property itself leaves out webhooks a failure record of which was refused, or whose attempt ended in an error the handler does not catch |
| `NeverReopened` | `RetryNeverReopens` | none |
| `RearmedOnce` | `OneRearm` | `OneScanner` |
| `GateIsSafe` | `[]GateHolds` (`RunsAlone`, `StormBounded`, `OutageForgotten`) | `GateAssumption` |
| `LagIsBounded` | `[]LagBounded` | none; the property itself ends at the first Redis error |
| `TripIsJustified` | `TripJustified` | none |
| `RecheckProtects` | `[]RecentOriginalWins` | none |
| `CountIsExact` | `[]CountMatches` | none |
| `RootIsTold` | `[]RootCauseTold` | `StageSane` |
| `LevelsHaveGrounds` | `LevelHasGrounds` | `StageSane` |
| `RoutingIsKept` | `[]RoutingKept` (`CapRespected`, `CadenceKept`, `JudgedBeforeForwarded`, the types) | none |
| `OriginalsApart` | `[]OneOriginal` | `QuietFaults`: crashes and lost Redis reads and writes only |
| `OutcomeStays`, `PressedOnce`, `LockedRunOnce`; `DecisionsAreKept` | `[]OutcomeRecorded`, `[]PressOnce`, `[]LockedRunsOnce`; all three as `[]DecisionsKept` of `ControlsSpec` | `Sane`; `ControlsSane` |
| `NoticesHonoured`, `EditsAreLive`, `StalenessBounded` | `[]NoticeHonoured`, `[]EditIsLive`, `[]BoundedStaleness` | `CacheSane` |
| `SnapshotsCatchUp`; `ConfigIsFresh` | `[]SnapshotCatchesUp` of the runtime settings; with the cache's, `[]ConfigFresh` of `ControlsSpec` | `Sane`; `ControlsSane` |
| `LeaderAlone`, `MarkerIsHonest`, `MissesAreExplained`, `ReportedAtMostTwice`, `TierAlertedOnce` | `[]OneLeader`, `[]MarkerMeansSent`, `[]MissExplained`, `[]AtMostTwice`, `[]TierSentOnce` | `Sane` |
| `JobsAreSafe` | `[]JobsHold`, all of the above | `Sane` |
| `LiftIsRespected`, `PlacedOnce`; `SweepsDoOnce` | `[]LiftSticks`, `[](OnePlace /\ ChildrenKept)`; together `[]SweptOnce` of `SweepsSpec` | `Sane`; `SweepsSane` |
| `ApprovedTextStays`, `ArchivedWhenOver`; `SweepsKeepTheRules` | `ApprovalBoundary /\ AmendmentSticks`, `ArchivedWhenDue`; together `SweepsRespect` of `SweepsSpec` | `Sane`; `SweepsSane` |
| `NoticesArePaidFor`, `VerdictOfItsRound`, `ReportsAreSettled`; `VerdictsHold` | `[]NoticeBudget`, `[]VerdictOfRound`, `[]ReportSettled`; all three as `[]DeepVerdict` | `DeepAnalysisAssumption` |

Any other hypothesis is there because the property is false without it
(section 6).

The arguments:

- *Outbox.* `TypeOK` needs `JobOK`: a busy worker has a row that is not among its
  siblings. The lease is `LeaseInv`: holdings are disjoint, and a held row is
  PROCESSING and has been idle no longer than its holder has held it. A row the
  scan recovers has been idle longer than `StaleAfter >= MaxHold`, so nobody
  holds it. `SentIsFinal` and `OneFollowUp` follow, because a finalizer writes
  only rows it holds. The refinement maps statuses to open, sent, dead and shows
  each action to be an allowed change of each row. All four rest on `RowMove`,
  which says how a step may change a row and who makes each change.
  `UndueNotExpired` needs `Untried`: a row with no attempt that still waits has
  an age no greater than minus its wait (its age counts from the end of its digest
  window), and a claimed row has an attempt until an operator resets the count.
- *Outbox, the accounts.* `Confirmed`: a worker
  about to mark rows sent has had their message accepted; it needs no lease.
  `HandInv`: what a finalizer read of its row is still so (`Reading`), only digest
  rows are siblings (`Grouped`), and without a crash every processing row is in
  somebody's hands (`Handled`); the lease says such a row is not stale, so the scan
  leaves it alone. `AttemptLeft`: without a crash a row outside a digest that
  waits to be tried has an attempt left, because a retry is scheduled only by a finalizer whose reading still holds.
- *Ingest.* `NotLost` alone is not inductive: a worker that schedules a retry
  forgets its message. `Backed` says every schedule, and every worker about to
  make one, has left a row behind, or tried to. A message that an uncaught error
  took away without a row shows in `unhandled`. `OneRearm` needs `Leased`: a row that is overdue, or
  still in a scan's hands, has not been enqueued since it fell due, and a leased
  one is not overdue.
- *Breaker.* `LagBounded` needs `Fresh`: a CLOSED on its way to a process was
  read in the instant the circuit opened, so what it caches counts from there.
  `TripJustified` needs `Counted`: the failures the counter stands for are as
  recent as its expiry says, which later failures do not renew.
- *Dedup.* The names that workers, Redis and duplicates hold are those of
  completed rows (`WorkersLinked`, `StateLinked`, `RowsLinked`); so a save decides
  for an original only when the recheck finds no rival (`NoneOnlyAlone`), and
  nobody counts for a row before it is there. `OriginalsApart` adds that the
  worker inside the gate has the lock (`Gated`) and that rows are dated with
  their commit (`Dated`), which turns `RecentOriginalWins` into `OneOriginal`.
- *Noise stage* (in `AlertDedup_proofs`). What a worker has decided names a root that
  is stored, of its alert's connection and another identity (`Rooted`); what is
  stored never changes but for its age, so the alert stored next derives from an
  earlier one. A level other than the model's comes from `Prior`, whose verdicts are
  a singleton of a finite set.
- *Routing* (in `AlertDedup_proofs`). An analysis and every run that carries one
  obey the ceilings of the inbound table they were made under (`CapsKept`); a run
  or event without a judgement was silenced when it was shaped (`UnjudgedSilenced`).
  For the cadence, `last_notified_at` is the date of the thread's newest sent row
  (`Stamped`), and a thread has one original (`ThreadsSound`), so what a decision
  reads of its thread is what was really sent. `RoomLeft` counts the runs in flight, so that event ids stay within their bound.
  `TablesAssumption` says what the tables' validation accepts: a ceiling names an
  importance, no criterion holds the empty value.
- *Remediation.* The holder of a proposal's row lock is the only one past its
  status check; a receipt is answered before the lock is given up; and from the
  moment a command takes effect until nobody decides, its outcome is recorded, or
  its decider is about to record it, or died.
- *Configuration cache.* What is cached, and what a clean load will cache, is no
  older than the last notice acted on (`Honoured`); without a fault a process is
  current, or has a notice on the way, or an editor is about to announce (`Live`);
  a load has been superseded for no longer than it is out, and a cached value for
  no longer than a load and its age (`Bounded`).
- *Jobs.* A leader that has not outlived its lock owns it, and the lock has as much
  left as the run has not used up (`Led`); a lock taken in this occurrence is an
  active leader's unless something went wrong, and one of the last occurrence runs
  out at the next, so after a quiet occurrence the report is sent, dispatched or
  being sent (`Explained`); while a catch-up runs its claim lasts, and after it the
  marker stands, so a second one is turned away (`Once`); a worker about to alert
  has claimed its tier alone (`Claimed`).
- *Gate* (in `RawIngest_proofs`). The lock is its holder's, and as much of it is
  left as of the renewal, less what the renewal is late, unless it is late by the
  whole margin or Redis lost its data (`Held`); the counter stays within the
  threshold and counts every task inside unless it lapsed under one (`Counting`); a
  probe's wait and the time Redis has answered fit in a probe interval (`Probing`).
- *Runtime settings* (in `Controls_proofs`). What a refresh has read was superseded
  for no longer than it is out (`Reading`); a snapshot will be replaced within one
  bound, and one more for each turn of its loop that failed (`Timely`).
- *Sweeps.* A lifted occurrence is nothing a sweep under way means to write, unless
  one held it when it was lifted (`Spared`). A picked event is live and past its
  window, or archived by another run that day, and one that gained a child shows as
  raced (`Holding`). The sweep of drafts holds an incident only while no fresh
  amendment from before its selection stands (`Queue`, `Drafted`), and locks it
  before it looks for an approved text.
- *Deep analysis.* A poll that may still announce holds a right to one notice
  (`Holders`), and so does a pending row that a task may claim although no poll
  within its lease guards it (`Free`): the notices sent and those rights never
  exceed one for the round and one for each disturbed poll (`Paid`). A poll within
  its lease guards its row because `next_poll_at` lies no earlier than the end of
  the lease. `PollOK` says what a poll knows of its round and of the texts it
  fetched: a poll of an earlier round, or one past its lease, shows as trouble; a
  hit counts a fetch (`SnapOK`), so a stable text was fetched as often as its hits.

Each of these invariants was checked by TLC on small instances first.

Only model-checked: the liveness properties (`EventuallySettled`, `DigestSettles`,
`DeepDone`, `KeyReopens`, `KeepsTrying`, `SweepsFinish`: fairness and `ENABLED`
are outside the prover), and, of routing, that every
matching rule files its row and the counts of flaps (`RoutingHolds`: a fold over the
rules, a count over a window); and the components without a theorem: incidents (`IncidentsHold`),
the read models (`InsightHolds`, `ScreensHold`, `AdviceHolds`), the noise
centre (`NoiseUndoable`), the AI's budget (`BudgetHolds`) and the lite edition
(`LiteHolds`). Several of these, and `IngressBounded` and `SourcesHold`, rest on sums,
counts or sorted sequences, which would need an induction over data.
`DigestAccounts` is the digest's instance of what `LeaseIsExclusive`, `EventsAgree`
and `NobodyLeftBehind` prove for any rows and groups.

## 5. Assumptions of the models

- A database transaction is one step where nothing can come between its
  statements (a row lock, an advisory lock, or a single statement); a read and a
  later write without a lock are two steps. READ COMMITTED where statements of
  one transaction are separate steps.
- Redis answers within a tick or fails; a Lua script is one step.
- SQLAlchemy writes the columns whose value changed (`Flush` in `Incidents`).
- The outbox scan runs on one leader at a time; `Scanners` of `RawIngest` may be
  any set in the model and in the theorems, one in the run.
- What the failure handler of the ingest catches is `_TASK_PROCESSING_ERRORS`; any
  other error of the pipeline is `Escape`: the message is acknowledged.
- A breaker threshold of 0, which turns a breaker off, is not modelled.
- In `AlertDedup` all alerts of a key have one alert hash, and rows are never
  deleted. The dead letter over a completed row is `RawIngest`'s subject.
- Remote ends, the LLM, gateways and (in `RawIngest`) the pipeline as a whole
  answer anything. Upstreams retry what was answered with an error.

## 6. Findings and other disagreements

| Run | Source | What the run shows |
|---|---|---|
| `breaker_isolation` | `services/forwarding/circuit_breakers.py:99` | Failures of one gateway open the circuit of another: their breaker objects share the Redis keys. |
| `deep_gateway` | `services/analysis/deep_analysis_poll.py:562` | A run submitted to one gateway is polled at the default one. |
| `routing_excluded` | `services/forwarding/outbox_records.py:153` | A rule excluded from AI analysis reaches the investigator: the inbound rules are asked with the request envelope. |
| `remediation_approved` | `services/operations/remediation_proposals.py:289` | A command that commits inside its decider's transaction releases the proposal's lock; a second approval executes it again. |

The quoted promise of each is in `PROJECT.json`.

The models also disagree with these comments. The property that says so is in
the module, marked, and no run asks for it:

- *Outbox.* With a delivery longer than the stale threshold the failure finalizer
  (`outbox.py:730`) overwrites a row another worker has marked sent, the row is
  delivered again and spawns a second DeepAnalysis record (`OneFollowUp` without
  the hypothesis of section 4; `outbox.py:639` promises one finalizer wins).
  `_park_digest_siblings` (`outbox.py:489`) exhausts siblings when the leader was
  claimed again before the park reads it. An expired row may be requeued while
  its worker still delivers (`outbox.py:823` says only quiescent rows are).
- *Ingest.* The dead letter overwrites a completed event (`ingest_failure.py:112`,
  `CompletedIsFinal`). Of two racing scans both enqueue (`ingest_retry.py:86`;
  `OneRearm` with two scanners). A dead letter the database refuses is
  acknowledged all the same (`tasks.py:203`), and so is a message whose processing
  failed with an error outside `_TASK_PROCESSING_ERRORS` (`tasks.py:457` and 476, a
  `TypeError` or a `KeyError`; `taskiq_broker.py:101`): a first attempt that ends so
  leaves no row. `NotLost` leaves such webhooks out; `AtLeastOnce` is what
  `docs/capabilities.md:142` promises.
- *Dedup.* A retried row keeps the timestamp of its reception
  (`models/webhook.py:184`), so the next alert's recheck does not see it
  (`OneOriginal`). With the window raised at runtime a repeat may be filed under a
  duplicate (`DuplicateOfOriginal`). The placeholder of a silenced alert is reused
  after the silence (`services/dedup.py:428`).
- *Breaker.* A CLOSED assumed after a Redis error is cached
  (`core/circuit_breaker.py:123`), and so is a reply that arrives after another
  coroutine tripped the circuit (line 124).
- *Deep analysis.* A console request has no `pseudonym_map`
  (`api/v1/deep_analysis.py:96`) and a degraded completion does not unmask
  (`deep_analysis_poll.py:399`): the report keeps its placeholders
  (`ReportUnmasked`).
- *AI.* A correction made while an analysis is under way is not applied to it
  (`CorrectionHonoured`).
- *Incidents.* Neither `reopen_incident_endpoint`, nor the buttons of the chat card
  (`feishu_actions.py:484`), nor retention's closing (`data_maintenance.py:280`)
  record a transition, so an undo may take back what they decided
  (`NothingHappenedSince`; `workflow.py:169`); and an undo that loaded the incident
  before somebody else's change commits over it (`UndoNeverDiscards`;
  `workflow.py:169`). The scan adds to the `alert_count` it loaded
  (`grouping.py:482`) while a merge or split recounts (`workflow.py:558`), and one
  of the two is lost (`CountNeverDrifts`). A scan that loaded an incident while it
  was active calls it quiet after an operator ended it (`EndedStaysClosed`). A
  summary whose run dies on the last attempt stays in `processing` for good
  (`summary.py:165`, `SummaryNeverStranded`). `IncidentsHold` says what is left.
- *Jobs.* With a second scheduler its task finds the leader lock released by the
  first one's, and the report is sent twice (`OneScheduledReport`, with
  `Schedulers = 2`; `scheduled_reports.py:38`).
  `_send_report_with_retry` (`periodic_report.py:734`) posts up to four times
  without an idempotency key, also when the group took the card and the answer was
  lost (`forwarding/remote.py:254`): a report may appear several times
  (`NoReportRepeated`), and so may the alert on a budget tier, of which
  `periodic_report.py:894` says "at most once per month" (`TierToldOnce`;
  `TierSentOnce` is what holds).
- *Noise centre.* The undo compares its target without locking it
  (`UndoMatchesApplied`). The tables of sources and rules show twelve rows
  (`noise_center.py:286` and 376) and count alerts and cards in two windows
  (lines 104 and 105), so they need not sum to the summary as the comment at
  line 107 says (`TablesAddUp`; `TablesSum` is what holds). An apply that adopts a
  digest rule writes only the columns it changes, so a rule another undo disabled
  meanwhile stays disabled under an applied action (`AppliedInForce`). *Alert quality.* The totals and the scan are separate
  reads (`CountIsFullWindow`). *Response centre.* An assignee with inner runs of
  blanks is in "my" for Python and not for SQL (`response_center.py:282`).
- *Knowledge.* A draft may be re-composed between a reviewer's read and the
  publication (`ReviewedBeforePublished`, `FreshIsCurrent`). A sweep selects its
  incidents first (`incident_sediment.py:172`) and under the document's lock looks
  again only for a published text (lines 86 to 114), so it replaces a draft that was
  amended after the selection (`AmendedKept`).
- *Sweeps.* `LiftSticks` leaves out a lift that commits while a sweep holds the
  occurrence as live, and `ChildrenKept` a child that comes between the pick of an
  event and its archive: the code takes both along.
- *Adapters.* With a configured fingerprint field missing, alerts that the
  built-in key tells apart may collapse (`HalfMatchFragments`). *Lite.* The
  duplicate gate also counts the alerts it suppressed, so an alert that keeps
  firing faster than the window is not announced again (`KeepsNotifying`). The
  event, the rows of the outbox and the decision are committed one after the other,
  so a crash leaves an alert, or a delivery, without its decision, where
  `lite/store.py:45` ("in the same transaction"), `lite/pipeline.py:52` and
  `lite/README.md:45` promise exactly one (`EveryAlertDecided`).

## 7. Not modelled

Message layout and HTTP (`services/notifications`, `forwarding/remote.py`,
`channels.py`), prompts, embeddings and similarity scores, post-mortem and handoff
texts, statistics inside reports, the console's queries, observability,
deployment files and migrations: I/O, data or text with no state another
component depends on. Two dedup keys of one alert hash, which two advisory locks
do not serialise (`command_service.py:429`), and the creation race on an
outbox row's idempotency key (a unique index decides) are not modelled either. `AiAnalysis` counts as paid
what reaches the ledger: a billed answer that fails validation does not, in the
code either. `NoiseReduction` judges without the Redis cache of verdicts
(`ai_analyzer.py:344`), which `AiAnalysis` has.
