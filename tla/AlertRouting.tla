---------------------------- MODULE AlertRouting ----------------------------
(***************************************************************************)
(* From an alert to the rows that announce it: the analysis an alert is    *)
(* given (pipeline_stages.py), the operator's inbound rules that cap or    *)
(* digest it (inbound_rules.py), the flapping window (flapping.py), the    *)
(* forward decision (decisioning.py) and the outbox rows it files in the   *)
(* same transaction (forwarding_stage.py, outbox_records.py).  Operators   *)
(* edit the three rule tables, and correct importances, at any moment.     *)
(*                                                                         *)
(* The model follows one alert identity, a condition that fires and        *)
(* recovers.  Its two states have dedup keys of their own, so two workers  *)
(* may process a firing and a recovery at the same time, while the alert   *)
(* gate keeps two of one key apart.  When a memory of the key answers is   *)
(* AlertDedup's subject; here it may or may not answer.                    *)
(***************************************************************************)
EXTENDS Integers, Sequences, FiniteSets, SequencesExt, TLC

CONSTANTS
    Scenarios,      \* the alert identity, the tables a behaviour starts with, and
                    \* the edits and faults it may contain
    TableStates,    \* the tables an operator may set: rules and inbound rules in
                    \* priority order, active silences
    RoutingWorkers,
    Cooldown, Reminder,         \* the forwarding policy, in ticks
    FlapWindow, MinTransitions, \* the flapping policy
    DigestTicks,    \* the ticks a digest row waits for its window to close
    MaxRoutingTime, MaxEvents  \* bounds of the exploration

ASSUME PolicyAssumption ==
    /\ Cooldown \in Nat /\ Reminder \in Nat /\ Cooldown < Reminder
    /\ FlapWindow \in Nat \ {0} /\ MinTransitions \in Nat \ {0}
    /\ DigestTicks \in Nat
    /\ MaxRoutingTime \in Nat /\ MaxEvents \in Nat
    /\ \A sc \in Scenarios : /\ sc.tables \in TableStates
                             /\ sc.left \in [edits : Nat, faults : Nat]

Keys == {"firing", "recovery"}
Unset == -1
EventIds == 1 .. MaxEvents
Time == 0 .. MaxRoutingTime

---------------------------------------------------------------------------
\* Matching: which alerts a rule, a silence or an inbound rule covers.

\* A CSV criterion: the values it asks for and, after "!", those it refuses.
\* An alert: source, alert rule name, the project values of the payload in the
\* order the key groups find them, region, environment and payload texts, the
\* fields of the payload, and the verdicts a fresh analysis may give it: an
\* importance, whether the analysis cache answers and whether the noise stage
\* finds the alert derived.  Projects, environments and texts are sequences of
\* tokens.
NoCriteria == [etype |-> {}, imp |-> {}, src |-> {}, dup |-> "all",
               project |-> [pos |-> {}, neg |-> {}], region |-> [pos |-> {}, neg |-> {}],
               env |-> [pos |-> {}, neg |-> {}], pay |-> <<>>]

\* _ENVIRONMENT_ALIASES
EnvironmentAliases ==
    [t \in {"prod", "production", "prd", "live"} |-> "prod"]
    @@ [t \in {"dev", "development"} |-> "dev"] @@ [t \in {"test", "testing"} |-> "test"]
    @@ [t \in {"staging", "stage"} |-> "staging"] @@ [t \in {"gray", "grey"} |-> "gray"]
    @@ [t \in {"pre", "preprod", "preproduction"} |-> "pre"]
    @@ ("uat" :> "uat" @@ "qa" :> "qa")

\* The first token of the text that names an environment; failing that the text
\* itself, where an unknown environment is allowed.
CanonicalEnvironment(text, allowUnknown) ==
    LET named == SelectSeq(text, LAMBDA t : t \in DOMAIN EnvironmentAliases)
    IN  IF named # <<>> THEN <<EnvironmentAliases[Head(named)]>>
        ELSE IF allowUnknown THEN text ELSE <<>>

ProjectPlaceholders == {<<>>} \cup {<<p>> : p \in {"default", "unknown", "none", "null", "-"}}

\* The project a text such as shop-prod-3 names: its tokens before the
\* environment's.
ProjectOfText(text) ==
    LET at == {i \in 2 .. Len(text) : text[i] \in DOMAIN EnvironmentAliases}
    IN  IF at = {} THEN <<>>
        ELSE SubSeq(text, 1, (CHOOSE j \in at : \A l \in at : l <= j) - 1)

ExtractProject(a) ==
    LET real == SelectSeq(a.projects, LAMBDA p : p \notin ProjectPlaceholders)
        inferred == SelectSeq([i \in DOMAIN a.texts |-> ProjectOfText(a.texts[i])],
                              LAMBDA p : p # <<>>)
        held == SelectSeq(a.projects, LAMBDA p : p # <<>>)
    IN  IF real # <<>> THEN Head(real)
        ELSE IF inferred # <<>> THEN Head(inferred)
        ELSE IF held # <<>> THEN Head(held) ELSE <<>>

ExtractEnvironment(a) ==
    LET keyed == CanonicalEnvironment(a.env, TRUE)
        texts == SelectSeq([i \in DOMAIN a.texts |-> CanonicalEnvironment(a.texts[i], FALSE)],
                           LAMBDA e : e # <<>>)
    IN  IF keyed # <<>> THEN keyed ELSE IF texts # <<>> THEN Head(texts) ELSE <<>>

CsvMatches(c, value) == value \notin c.neg /\ (c.pos # {} => value \in c.pos)

EnvironmentMatches(c, env) ==
    CsvMatches([pos |-> {CanonicalEnvironment(e, TRUE) : e \in c.pos},
                neg |-> {CanonicalEnvironment(e, TRUE) : e \in c.neg}], env)

PayloadMatches(wanted, a) ==
    \A f \in DOMAIN wanted : f \in DOMAIN a.fields /\ a.fields[f] = wanted[f]

\* _rule_matches.  What the caller knows of the alert: etype, imp, src and dup;
\* a list criterion takes its items literally and an empty one is not stated.
RuleMatches(m, a, seen) ==
    /\ m.etype # {} => seen.etype \in m.etype
    /\ m.imp # {} => seen.imp \in m.imp
    /\ m.src # {} => seen.src \in m.src
    /\ CsvMatches(m.project, ExtractProject(a))
    /\ CsvMatches(m.region, a.region)
    /\ EnvironmentMatches(m.env, ExtractEnvironment(a))
    /\ m.dup = "new" => ~seen.dup
    /\ m.dup = "duplicate" => seen.dup
    /\ PayloadMatches(m.pay, a)

\* Mutant: the search stops at the first rule that stops, matched or not.
SelectStopsEarly(rules, a, seen) ==
    FoldLeft(LAMBDA acc, r :
                 IF acc.stopped THEN acc
                 ELSE [rules |-> IF RuleMatches(r.m, a, seen) THEN Append(acc.rules, r)
                                 ELSE acc.rules,
                       stopped |-> r.stop],
             [rules |-> <<>>, stopped |-> FALSE], rules).rules

\* select_forward_rules: in priority order, up to a match that stops.
SelectForwardRules(rules, a, seen) ==
    FoldLeft(LAMBDA acc, r :
                 IF acc.stopped \/ ~RuleMatches(r.m, a, seen) THEN acc
                 ELSE [rules |-> Append(acc.rules, r), stopped |-> r.stop],
             [rules |-> <<>>, stopped |-> FALSE], rules).rules

\* _first_matching_silence: a silence covers new and duplicate alerts alike.
Silenced(sils, a, seen) ==
    \E i \in DOMAIN sils : RuleMatches([sils[i] EXCEPT !.dup = "all"], a, seen)

---------------------------------------------------------------------------
\* Inbound rules.

InboundMatches(r, a, seen, name) == CsvMatches(r.name, name) /\ RuleMatches(r.m, a, seen)

\* _first_matching_inbound_value: the highest-priority rule with this verb; ""
\* when there is none.  A ceiling with no value is passed over.
FirstInboundValue(rules, action, a, seen) ==
    LET found == {i \in DOMAIN rules : /\ rules[i].action = action
                                       /\ action = "cap_importance" => rules[i].value # ""
                                       /\ InboundMatches(rules[i], a, seen, a.name)}
    IN  IF found = {} THEN "" ELSE rules[Min(found)].value

\* matching_inbound_actions: every verb a matching rule asks for.
InboundActions(rules, a, seen, name) ==
    {rules[i].action : i \in {j \in DOMAIN rules : InboundMatches(rules[j], a, seen, name)}}

\* What the analysis path knows of the alert: no event type, no duplicate, and
\* the importance judged so far ("" before there is one).
AtAnalysis(a, imp) == [etype |-> "", imp |-> imp, src |-> a.source, dup |-> FALSE]

Rank == [low |-> 1, medium |-> 2, high |-> 3]
RankOf(imp) == IF imp \in DOMAIN Rank THEN Rank[imp] ELSE Rank["high"]

\* apply_importance_cap: a ceiling, never a floor; an importance it does not
\* know counts as high.
ApplyImportanceCap(imp, cap) ==
    IF cap \in DOMAIN Rank /\ Rank[cap] < RankOf(imp) THEN cap ELSE imp

\* parse_digest_window_minutes, on the shapes a stored value has: unset, a window
\* within the bounds, or one the parser rejects.
DigestWindow(value) == value \in {"default", "bounded"}

\* What the API and the parsers let into a table: a ceiling names an importance
\* (VALID_IMPORTANCE_CAPS), and no list of criteria holds the empty value
\* (split_csv_lower); and what an analysis may answer.
ASSUME TablesAssumption ==
    /\ IsFiniteSet(RoutingWorkers)
    /\ \A t \in TableStates :
          /\ DOMAIN t.inbound \subseteq Nat
          /\ \A i \in DOMAIN t.inbound :
                t.inbound[i].action = "cap_importance" => t.inbound[i].value \in DOMAIN Rank \cup {""}
          /\ \A i \in DOMAIN t.silences :
                /\ DOMAIN t.silences[i] = DOMAIN NoCriteria
                /\ "" \notin t.silences[i].etype \cup t.silences[i].imp
    /\ \A sc \in Scenarios : \A v \in sc.alert.verdicts :
          v.imp \in DOMAIN Rank /\ v.derived \in BOOLEAN

---------------------------------------------------------------------------
\* State.

VARIABLES
    time,
    alert,      \* the identity this behaviour is about
    tables,     \* [rules, silences, inbound] as committed and served
    override,   \* the operator's importance correction, "" if none
    memo,       \* dedup memory per key: an analysis, its thread, or None
    runs,       \* the pipeline run of each worker
    events,     \* persisted events, by id
    rows,       \* forward_outbox
    notified,   \* webhook_events.last_notified_at
    flap,       \* Redis: the last status and the times it changed
    edited,     \* whether a table changed
    left        \* the edits and faults still to come

routingVars == <<time, alert, tables, override, memo, runs, events, rows, notified, flap,
                 edited, left>>

\* An analysis: importance, the route it came by, and the digest marker.
NoAnalysis == [imp |-> "", route |-> "none", digest |-> FALSE]
Unknown == [imp |-> "unknown", route |-> "silenced_skip", digest |-> FALSE]
Pending == [imp |-> "unknown", route |-> "pending", digest |-> FALSE]
FreeRun == [pc |-> "idle", key |-> "firing", act |-> "new", root |-> Unset, an |-> NoAnalysis,
            noise |-> FALSE, flapping |-> FALSE, hushed |-> FALSE, inbound |-> <<>>,
            seenAt |-> Unset]

Importances == DOMAIN Rank \cup {"unknown", ""}
Routes == {"none", "silenced_skip", "pending", "ai", "rule_excluded", "redis_reuse",
           "rechain"}
Analyses == [imp : Importances, route : Routes, digest : BOOLEAN]
SkipCodes == {"none", "noise_suppressed", "flapping", "silenced", "cooldown",
              "periodic_no_rule", "duplicate_no_rule", "no_match"}

Inbounds == {t.inbound : t \in TableStates} \cup {<<>>}
PipelineRun == [pc : {"idle", "ai", "persist"}, key : Keys, act : {"new", "reuse", "rechain"},
                root : EventIds \cup {Unset}, an : Analyses, noise : BOOLEAN, flapping : BOOLEAN,
                hushed : BOOLEAN, inbound : Inbounds, seenAt : Time \cup {Unset}]
Event == [key : Keys, dup : BOOLEAN, root : EventIds, an : Analyses, skip : SkipCodes,
          reminder : BOOLEAN, at : Time, hushed : BOOLEAN, lastSent : Time \cup {Unset},
          seenAt : Time \cup {Unset}, inbound : Inbounds]

RoutingTypeOK ==
    /\ time \in Time /\ alert \in {sc.alert : sc \in Scenarios} /\ tables \in TableStates
    /\ override \in DOMAIN Rank \cup {""}
    /\ memo \in [Keys -> [an : Analyses, root : EventIds \cup {Unset}, hushed : BOOLEAN]]
    /\ runs \in [RoutingWorkers -> PipelineRun]
    /\ events \in Seq(Event) /\ Len(events) <= MaxEvents
    /\ \A e \in DOMAIN events : events[e].root \in 1 .. e
    /\ \A r \in rows : r.event \in DOMAIN events
    /\ notified \in [EventIds -> Time \cup {Unset}]
    /\ flap.last \in Keys \cup {"none"}

RoutingInit ==
    /\ \E sc \in Scenarios : alert = sc.alert /\ tables = sc.tables /\ left = sc.left
    /\ time = 0 /\ override = ""
    /\ memo = [k \in Keys |-> [an |-> NoAnalysis, root |-> Unset, hushed |-> FALSE]]
    /\ runs = [w \in RoutingWorkers |-> FreeRun]
    /\ events = <<>> /\ rows = {} /\ notified = [e \in EventIds |-> Unset]
    /\ flap = [last |-> "none", flips |-> <<>>]
    /\ edited = FALSE

InFlight == Cardinality({w \in RoutingWorkers : runs[w].pc # "idle"})

---------------------------------------------------------------------------
\* The flapping window (flapping.py).

\* The script of one observation: a change of status is recorded, what left the
\* window is dropped.
Observed(status) ==
    LET changed == flap.last # "none" /\ flap.last # status
        flips == IF changed THEN Append(flap.flips, time) ELSE flap.flips
    IN  [last |-> status, flips |-> SelectSeq(flips, LAMBDA t : t > time - FlapWindow)]

\* The observation that ends a run's analysis, before its transaction; or a Redis
\* that fails, or answers too late, with the change recorded or not: then the
\* alert counts as not flapping.  An alert without a rule name is not observed.
ObserveFlapping(w, run) ==
    \E done, answered \in BOOLEAN :
        /\ done => alert.name # ""
        /\ answered => done
        /\ alert.name # "" /\ ~answered => left.faults > 0
        /\ flap' = IF done THEN Observed(run.key) ELSE flap
        /\ runs' = [runs EXCEPT ![w] =
               [run EXCEPT !.pc = "persist", !.inbound = tables.inbound,
                           !.seenAt = IF done THEN time ELSE Unset,
                           !.flapping = answered /\ Len(flap'.flips) >= MinTransitions]]
        /\ left' = IF alert.name # "" /\ ~answered THEN [left EXCEPT !.faults = @ - 1] ELSE left

---------------------------------------------------------------------------
\* The analysis of an alert (pipeline_stages.py).

\* The ceiling and the digest marker, decided for this alert against the rules
\* as they are now, whichever way its analysis came.
Shaped(an) ==
    LET cap == FirstInboundValue(tables.inbound, "cap_importance", alert, AtAnalysis(alert, an.imp))
        imp == ApplyImportanceCap(an.imp, cap)
        window == FirstInboundValue(tables.inbound, "digest", alert, AtAnalysis(alert, imp))
    IN  [an EXCEPT !.imp = imp, !.digest = DigestWindow(window)]

\* _has_reusable_analysis
HasReusable(an) == an.route \notin {"none", "pending"}

\* A free worker takes an alert of a key nobody else processes.
Receive(w, k) ==
    /\ runs[w].pc = "idle" /\ Len(events) + InFlight < MaxEvents
    /\ \A v \in RoutingWorkers : runs[v].pc # "idle" => runs[v].key # k

\* resolve_dedup answers from the memory: a duplicate of the thread, or a new
\* alert that starts a thread of its own on the remembered analysis.
ReuseAnalysis(w, k, act) ==
    LET dup == act = "reuse" IN
    /\ Receive(w, k) /\ HasReusable(memo[k].an)
    /\ ObserveFlapping(w,
           [FreeRun EXCEPT !.key = k, !.act = act, !.hushed = memo[k].hushed,
                        !.root = IF dup THEN memo[k].root ELSE Unset,
                        !.an = Shaped([memo[k].an EXCEPT !.route = IF dup THEN "redis_reuse"
                                                                   ELSE "rechain"])])
    /\ UNCHANGED <<time, alert, tables, override, memo, events, rows, notified, edited>>

\* No answer, and a silence covers the alert as far as it is known: the paid
\* analysis is skipped.
SilencedSkip(w, k) ==
    /\ Receive(w, k) /\ Silenced(tables.silences, alert, AtAnalysis(alert, ""))
    /\ ObserveFlapping(w, [FreeRun EXCEPT !.key = k, !.hushed = TRUE, !.an = Shaped(Unknown)])
    /\ UNCHANGED <<time, alert, tables, override, memo, events, rows, notified, edited>>

\* No answer and no silence: the placeholder is remembered and the model asked.
StartAnalysis(w, k) ==
    /\ Receive(w, k) /\ ~Silenced(tables.silences, alert, AtAnalysis(alert, ""))
    /\ memo' = [memo EXCEPT ![k] = [an |-> Pending, root |-> Unset, hushed |-> FALSE]]
    /\ runs' = [runs EXCEPT ![w] = [FreeRun EXCEPT !.pc = "ai", !.key = k]]
    /\ UNCHANGED <<time, alert, tables, override, events, rows, notified, flap, edited, left>>

\* The verdict of the model, of the analysis cache, or of the rule pass where an
\* inbound rule excludes the alert from AI and the cache has no answer; a correction
\* on the condition outranks either.  The noise stage may then find it derived from
\* another alert.
Analysed(w, v) ==
    LET skips == InboundActions(tables.inbound, alert, AtAnalysis(alert, ""), alert.name)
        route == IF "skip_ai" \in skips /\ ~v.cached THEN "rule_excluded" ELSE "ai"
        judged == IF override # "" THEN override ELSE v.imp
    IN  /\ runs[w].pc = "ai"
        /\ ObserveFlapping(w, [runs[w] EXCEPT !.noise = v.derived,
               !.an = Shaped([imp |-> judged, route |-> route, digest |-> FALSE])])
        /\ UNCHANGED <<time, alert, tables, override, memo, events, rows, notified, edited>>

\* The worker dies while the model is asked; the broker delivers again later.
AnalysisDies(w) ==
    /\ runs[w].pc = "ai" /\ left.faults > 0
    /\ runs' = [runs EXCEPT ![w] = FreeRun] /\ left' = [left EXCEPT !.faults = @ - 1]
    /\ UNCHANGED <<time, alert, tables, override, memo, events, rows, notified, flap, edited>>

---------------------------------------------------------------------------
\* The decision (decisioning.py).

Skip(code) == [forward |-> FALSE, skip |-> code, reminder |-> FALSE, rules |-> <<>>]
Forward(rules, reminder) ==
    [forward |-> TRUE, skip |-> "none", reminder |-> reminder, rules |-> rules]

\* _decide_duplicate_alert, on the time since the thread was last announced.
DecideDuplicate(rules, last) ==
    IF last # Unset /\ time - last < Cooldown THEN Skip("cooldown")
    ELSE IF last # Unset /\ time - last >= Reminder
         THEN IF rules = <<>> THEN [Skip("periodic_no_rule") EXCEPT !.reminder = TRUE]
              ELSE Forward(rules, TRUE)
    ELSE IF rules = <<>> THEN Skip("duplicate_no_rule") ELSE Forward(rules, FALSE)

\* decide_forwarding: noise, flapping, silences, then the rules.
DecideForwarding(seen, noise, flapping, last) ==
    LET rules == SelectForwardRules(tables.rules, alert, seen)
    IN  IF noise THEN Skip("noise_suppressed")
        ELSE IF flapping THEN Skip("flapping")
        ELSE IF Silenced(tables.silences, alert, seen) THEN Skip("silenced")
        ELSE IF seen.dup THEN DecideDuplicate(rules, last)
        ELSE IF rules = <<>> THEN Skip("no_match") ELSE Forward(rules, FALSE)

\* What the decision knows of the alert.
AtDecision(an, dup) ==
    [etype |-> "webhook_forward", imp |-> an.imp, src |-> alert.source, dup |-> dup]

\* create_outbox_records asks the inbound rules again for a deep-analysis target,
\* with the request envelope as the payload: the alert rule's name is not a key
\* of it and the source is not passed, so both are empty.
AtOutbox(an) == [etype |-> "webhook_forward", imp |-> an.imp, src |-> "", dup |-> FALSE]
AiExcluded(an) ==
    \/ an.route = "rule_excluded"
    \/ InboundActions(tables.inbound, alert, AtOutbox(an), "")
           \cap {"skip_ai", "skip_deep_analysis"} # {}

\* The rows of a decision: a reminder is left to the digest, a chat target of a
\* digested alert waits for its window, an excluded alert is not investigated,
\* and a rule without an address files nothing.
OutboxRecords(id, root, d, an) ==
    LET digested(r) == an.digest /\ r.target = "chat"
        filed == {i \in DOMAIN d.rules :
                     LET r == d.rules[i] IN
                     /\ ~(digested(r) /\ d.reminder)
                     /\ ~(r.target = "deep_analysis" /\ AiExcluded(an))
                     /\ r.target # "deep_analysis" => r.url}
    IN  {[event |-> id, root |-> root, rule |-> d.rules[i].id, target |-> d.rules[i].target,
          digest |-> digested(d.rules[i]), reminder |-> d.reminder,
          due |-> IF digested(d.rules[i]) THEN time + DigestTicks ELSE time,
          sent |-> Unset] : i \in filed}

\* The newest announcement of a thread, from the rows themselves.
LastSent(root) ==
    LET sent == {r.sent : r \in {x \in rows : x.root = root /\ x.sent # Unset}}
    IN  IF sent = {} THEN Unset ELSE CHOOSE t \in sent : \A u \in sent : u <= t

\* finalize_analysis_transaction and the memory written after it: the event, its
\* decision against the rules and silences as they are now, and its rows.
Persist(w) ==
    LET p == runs[w]
        id == Len(events) + 1
        dup == p.act = "reuse"
        root == IF dup /\ p.root # Unset THEN p.root ELSE id
        d == DecideForwarding(AtDecision(p.an, dup), p.noise, p.flapping, notified[root])
    IN  /\ p.pc = "persist"
        /\ events' = Append(events,
               [key |-> p.key, dup |-> dup, root |-> root, an |-> p.an, skip |-> d.skip,
                reminder |-> d.reminder, at |-> time, hushed |-> p.hushed,
                lastSent |-> LastSent(root), seenAt |-> p.seenAt, inbound |-> p.inbound])
        /\ rows' = rows \cup (IF d.forward THEN OutboxRecords(id, root, d, p.an) ELSE {})
        /\ memo' = [memo EXCEPT ![p.key] = [an |-> p.an, root |-> root, hushed |-> p.hushed]]
        /\ runs' = [runs EXCEPT ![w] = FreeRun]
        /\ UNCHANGED <<time, alert, tables, override, notified, flap, edited, left>>

---------------------------------------------------------------------------
\* Mutant: only the event itself is stamped.
AnnouncedEventOnly(r) == [e \in EventIds |-> IF e = r.event THEN time ELSE notified[e]]

\* The rest of the system.

\* A delivery stamps the event it announces and the original of its thread.
Announced(r) == [e \in EventIds |-> IF e \in {r.event, r.root} THEN time ELSE notified[e]]

Announce(r) ==
    /\ r.sent = Unset /\ r.due <= time
    /\ rows' = (rows \ {r}) \cup {[r EXCEPT !.sent = time]}
    /\ notified' = Announced(r)
    /\ UNCHANGED <<time, alert, tables, override, memo, runs, events, flap, edited, left>>

\* An operator edits one of the tables, or a silence starts or ends.
EditTables(t) ==
    /\ left.edits > 0
    /\ \E f \in DOMAIN tables : t = [tables EXCEPT ![f] = t[f]] /\ t[f] # tables[f]
    /\ tables' = t /\ edited' = TRUE /\ left' = [left EXCEPT !.edits = @ - 1]
    /\ UNCHANGED <<time, alert, override, memo, runs, events, rows, notified, flap>>

\* add_feedback with a corrected importance, on an event that exists.
CorrectImportance(imp) ==
    /\ left.edits > 0 /\ events # <<>> /\ imp # override
    /\ override' = imp /\ left' = [left EXCEPT !.edits = @ - 1]
    /\ UNCHANGED <<time, alert, tables, memo, runs, events, rows, notified, flap, edited>>

TimePasses ==
    /\ time < MaxRoutingTime
    /\ time' = time + 1
    /\ UNCHANGED <<alert, tables, override, memo, runs, events, rows, notified, flap, edited, left>>

RoutingNext ==
    \/ \E w \in RoutingWorkers :
        \/ \E k \in Keys :
            \/ \E act \in {"reuse", "rechain"} : ReuseAnalysis(w, k, act)
            \/ SilencedSkip(w, k)
            \/ StartAnalysis(w, k)
        \/ \E v \in alert.verdicts : Analysed(w, v)
        \/ AnalysisDies(w)
        \/ Persist(w)
    \/ \E r \in rows : Announce(r)
    \/ \E t \in TableStates : EditTables(t)
    \/ \E imp \in DOMAIN Rank : CorrectImportance(imp)
    \/ TimePasses

RoutingSpec == RoutingInit /\ [][RoutingNext]_routingVars

---------------------------------------------------------------------------
\* Properties.

\* A rule announces an alert exactly when it covers it and no covering rule of
\* higher priority stops the search: the selection against its definition.
Covering(seen) ==
    {i \in DOMAIN tables.rules :
        /\ RuleMatches(tables.rules[i].m, alert, seen)
        /\ \A j \in 1 .. i - 1 : ~(tables.rules[j].stop /\ RuleMatches(tables.rules[j].m, alert, seen))}

\* Nothing that covers an alert is lost between the decision and the queue.  An
\* alert that nothing withholds has, when it is persisted, a row for every rule
\* that covers it, except a target without an address, an investigation of an
\* excluded alert, or a chat reminder that the digest stands for.
RoutedToAll ==
    [][\A e \in DOMAIN events' \ DOMAIN events :
         LET ev == events'[e]
             owed == {i \in Covering(AtDecision(ev.an, ev.dup)) :
                        LET r == tables.rules[i] IN
                        CASE r.target = "deep_analysis" -> ~AiExcluded(ev.an)
                          [] r.target = "chat" -> r.url /\ ~(ev.an.digest /\ ev.reminder)
                          [] OTHER -> r.url}
         IN  ev.skip \notin {"noise_suppressed", "flapping", "silenced", "cooldown"} =>
                 {r.rule : r \in {x \in rows' : x.event = e}} = {tables.rules[i].id : i \in owed}]_routingVars

\* The ceilings a table states for an alert, at one importance or another.
Ceilings(a, inbound) ==
    {inbound[i] : i \in {j \in DOMAIN inbound :
        /\ inbound[j].action = "cap_importance" /\ inbound[j].value # ""
        /\ \E imp \in Importances : InboundMatches(inbound[j], a, AtAnalysis(a, imp), a.name)}}

CapKept(a, an, inbound) ==
    LET caps == Ceilings(a, inbound)
    IN  (\E c \in caps : c.m.imp = {}) => \E c \in caps : RankOf(an.imp) <= Rank[c.value]

\* An operator's ceiling holds on every way to an analysis: an alert analysed
\* while its rule was capped whatever its importance is not above every ceiling
\* stated for it, whether its analysis is fresh, remembered or a placeholder.
CapRespected == \A e \in DOMAIN events : CapKept(alert, events[e].an, events[e].inbound)

\* A thread is not announced again while it cools down, and a reminder comes
\* only after the reminder interval: measured from the rows really delivered
\* before the decision, not from the column the decision reads.
CadenceKept ==
    \A r \in rows :
        LET ev == events[r.event] IN
        /\ ev.dup /\ ev.lastSent # Unset => ev.at - ev.lastSent >= Cooldown
        /\ r.reminder => ev.dup /\ ev.lastSent # Unset /\ ev.at - ev.lastSent >= Reminder

\* The observations of the window that ends with an event's.
InWindow(e) ==
    LET recent(t) == t # Unset /\ t > events[e].seenAt - FlapWindow
    IN  Cardinality({x \in DOMAIN events : recent(events[x].seenAt)})
        + Cardinality({w \in RoutingWorkers : runs[w].pc = "persist" /\ recent(runs[w].seenAt)})

\* An alert is withheld as flapping only when the condition was seen at least
\* MinTransitions times within the window, in both of its states.
MutedOnlyWhileFlapping ==
    \A e \in DOMAIN events : events[e].skip = "flapping" => InWindow(e) >= MinTransitions

\* An alert nobody judged is announced only because a silence covered it when it
\* was analysed and no longer when it, or a later alert of its thread, was
\* decided; a placeholder of an analysis under way is never announced.
JudgedBeforeForwarded ==
    \A r \in rows :
        events[r.event].an.imp = "unknown" => events[r.event].hushed /\ edited

\* A ceiling on an alert's importance holds also for a reused verdict, no channel hears
\* of a condition again before its cool-down or reminder is due, and what is forwarded
\* was judged.
RoutingKept == RoutingTypeOK /\ CapRespected /\ CadenceKept /\ JudgedBeforeForwarded

\* outbox_records.py:139: an alert whose rule is excluded from AI analysis must
\* not reach the investigator either.
ExcludedNotInvestigated ==
    [][\A r \in rows' \ rows :
         r.target = "deep_analysis" /\ r.sent = Unset =>
             InboundActions(tables.inbound, alert,
                            AtDecision(events'[r.event].an, events'[r.event].dup), alert.name)
                 \cap {"skip_ai", "skip_deep_analysis"} = {}]_routingVars
=============================================================================
