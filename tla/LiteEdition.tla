------------------------------ MODULE LiteEdition ------------------------------
(* The single-process edition (lite/): one SQLite file, one event loop.  Every *)
(* posted alert walks a chain of gates (duplicate, silence, rules, cooldown)   *)
(* with an await between any two of them, so posts interleave; whatever stops  *)
(* it is named in a decision, and whatever survives leaves one outbox row per  *)
(* rule, which a single loop delivers.  Every statement commits by itself.     *)
(* Time is kept as ages: how long ago an event arrived, how long a row waits.  *)
EXTENDS Naturals, Sequences, FiniteSets, SequencesExt

CONSTANTS
    Requests,       \* posts being handled at once
    Alerts,         \* [source, name, resolved, words]: words = the keyword classes in its text
    RuleForms,      \* [name, sources, levels, kind, priority, stop]: rules an operator adds
    Patterns,       \* sets of alerts: what the text of a silence matches
    Verdicts,       \* the levels the model answers ({} when none is configured)
    DedupWindow, Cooldown, SilenceFor, Backoff, MaxAttempts, BatchLimit,
    Budgets         \* bounds of the model: [posts, edits, crashes]

VARIABLES
    events,      \* the table of events, in id order: [alert, level, route, age, cut];
                 \* cut (history): the process died while its request was in flight
    decisions,   \* [event, outcome, code, rules]
    outbox,      \* [event, rule, kind, card, status, attempts, wait, taken, early]
    rules,       \* the rules in force, in id order
    silences,    \* [hits, left]
    requests,    \* what each request in flight has read so far
    courier,     \* the delivery loop: [batch, answer]
    budget       \* [posts, edits, crashes] left to the environment

liteVars == <<events, decisions, outbox, rules, silences, requests, courier, budget>>

Levels == {"high", "medium", "low"}
Horizon == IF DedupWindow > Cooldown THEN DedupWindow ELSE Cooldown
Idle == [pc |-> "idle"]

(* The identity of an alert: what it is about, and whether it ends it.         *)
Hash(alert) == <<alert.source, alert.name, alert.resolved>>

(* The keyword triage: outage and money words first, medium when none is there. *)
RuleTriage(alert) ==
    IF "high" \in alert.words THEN "high"
    ELSE IF alert.words = {"low"} THEN "low" ELSE "medium"

(* The verdicts triage may give: the model is asked about a firing alert only, *)
(* and any failure of it lands on the keywords.                                *)
Triage(alert) ==
    IF alert.resolved THEN {[level |-> RuleTriage(alert), route |-> "recovery"]}
    ELSE {[level |-> RuleTriage(alert), route |-> "rule"]}
         \cup [level : Verdicts, route : {"ai"}]

Skipped == [level |-> "none", route |-> "skipped"]

(* The message of a delivery.                                                  *)
Colour == [high |-> "red", medium |-> "orange", low |-> "grey"]
BuildPayload(kind, event) ==
    [kind |-> kind, resolved |-> event.alert.resolved,
     colour |-> IF event.alert.resolved THEN "green" ELSE Colour[event.level],
     fallback |-> event.route = "rule"]

RecentDuplicate(alert) ==
    \E e \in DOMAIN events :
        Hash(events[e].alert) = Hash(alert) /\ events[e].age < DedupWindow

Matches(rule, event) ==
    /\ rule.sources = {} \/ event.alert.source \in rule.sources
    /\ rule.levels = {} \/ event.level \in rule.levels

Ordered ==
    LET ids == SetToSortSeq(DOMAIN rules,
                   LAMBDA i, j : \/ rules[i].priority > rules[j].priority
                                 \/ rules[i].priority = rules[j].priority /\ i < j)
    IN  [i \in DOMAIN ids |-> rules[ids[i]]]

(* The rules that claim an event, up to the first one that stops the scan.     *)
Claiming(event) ==
    LET claims == SelectSeq(Ordered, LAMBDA rule : Matches(rule, event))
        stops == {i \in DOMAIN claims : claims[i].stop}
    IN  IF stops = {} THEN claims
        ELSE SubSeq(claims, 1, CHOOSE i \in stops : \A j \in stops : i <= j)

(* Mutant: only deliveries that were sent start a cooldown.                    *)
Deliveries_Sent(alert, name) ==
    {o \in DOMAIN outbox : outbox[o].status = "sent" /\ outbox[o].rule = name
                            /\ Hash(events[outbox[o].event].alert) = Hash(alert)}

(* The deliveries of one identity by one rule, and how long ago the newest of  *)
(* their alerts arrived (the horizon when there is none).                      *)
Deliveries(alert, name) ==
    {o \in DOMAIN outbox :
        outbox[o].rule = name /\ Hash(events[outbox[o].event].alert) = Hash(alert)}
LastForward(alert, name) ==
    LET ages == {events[outbox[o].event].age : o \in Deliveries(alert, name)} \cup {Horizon}
    IN  CHOOSE age \in ages : \A other \in ages : age <= other
Cooling(alert, name) == LastForward(alert, name) < Cooldown

LiteInit ==
    /\ events = <<>> /\ decisions = <<>> /\ outbox = <<>>
    /\ rules = SetToSeq(RuleForms)
    /\ silences = {}
    /\ requests = [r \in Requests |-> Idle]
    /\ courier = [batch |-> <<>>, answer |-> "none"]
    /\ budget \in Budgets

(* The event a request in flight has stored and not decided yet.               *)
InFlight(e) == \E r \in Requests : "event" \in DOMAIN requests[r] /\ requests[r].event = e

Move(r, state) == requests' = [requests EXCEPT ![r] = state]
Spend(what) == budget[what] > 0 /\ budget' = [budget EXCEPT ![what] = @ - 1]

(* A post: normalised, then the duplicate gate.  `earlier` remembers which     *)
(* events were already decided, for Paced.                                     *)
Receive(r, alert) ==
    /\ requests[r] = Idle
    /\ Spend("posts")
    /\ Move(r, [pc |-> IF RecentDuplicate(alert) THEN "duplicate" ELSE "silence",
                alert |-> alert, earlier |-> {decisions[d].event : d \in DOMAIN decisions}])
    /\ UNCHANGED <<events, decisions, outbox, rules, silences, courier>>

CheckSilences(r) ==
    /\ requests[r].pc = "silence"
    /\ Move(r, [requests[r] EXCEPT !.pc =
                  IF \E s \in silences : requests[r].alert \in s.hits THEN "silenced" ELSE "triage"])
    /\ UNCHANGED <<events, decisions, outbox, rules, silences, courier, budget>>

(* Stores the event of a request and goes on to `pc` with its id.              *)
Persist(r, verdict, pc, code) ==
    /\ events' = Append(events, [alert |-> requests[r].alert, age |-> 0, cut |-> FALSE,
                                 level |-> verdict.level, route |-> verdict.route])
    /\ Move(r, [pc |-> pc, event |-> Len(events) + 1, code |-> code, todo |-> <<>>, due |-> <<>>,
                earlier |-> requests[r].earlier])
    /\ UNCHANGED <<decisions, outbox, rules, silences, courier, budget>>

PersistSkipped(r) ==
    /\ requests[r].pc \in {"duplicate", "silenced"}
    /\ Persist(r, Skipped, "decide", requests[r].pc)

Analyse(r) ==
    /\ requests[r].pc = "triage"
    /\ \E verdict \in Triage(requests[r].alert) : Persist(r, verdict, "match", "none")

MatchRules(r) ==
    /\ requests[r].pc = "match"
    /\ LET claims == Claiming(events[requests[r].event])
       IN  Move(r, IF claims = <<>> THEN [requests[r] EXCEPT !.pc = "decide", !.code = "no_match"]
                   ELSE IF Cooldown = 0 THEN [requests[r] EXCEPT !.pc = "enqueue", !.due = claims]
                   ELSE [requests[r] EXCEPT !.pc = "cooldown", !.todo = claims])
    /\ UNCHANGED <<events, decisions, outbox, rules, silences, courier, budget>>

(* The cooldown gate asks about one rule at a time.                            *)
CheckCooldown(r) ==
    LET rq == requests[r]
        cooled == Cooling(events[rq.event].alert, Head(rq.todo).name)
        due == IF cooled THEN rq.due ELSE Append(rq.due, Head(rq.todo))
        code == IF due = <<>> THEN "cooldown" ELSE "none"
    IN  /\ rq.pc = "cooldown"
        /\ Move(r, IF Len(rq.todo) > 1
                   THEN [rq EXCEPT !.todo = Tail(@), !.due = due]
                   ELSE [rq EXCEPT !.pc = IF due = <<>> THEN "decide" ELSE "enqueue",
                                   !.todo = due, !.due = due, !.code = code])
        /\ UNCHANGED <<events, decisions, outbox, rules, silences, courier, budget>>

(* Whether a delivery repeats an alert, decided before this one was posted, of *)
(* the same identity and the same rule, inside the cooldown.                   *)
Early(r, name) ==
    \E o \in DOMAIN outbox :
        /\ outbox[o].rule = name /\ outbox[o].event \in requests[r].earlier
        /\ Hash(events[outbox[o].event].alert) = Hash(events[requests[r].event].alert)
        /\ events[outbox[o].event].age < Cooldown

Enqueue(r) ==
    LET rq == requests[r]
        rule == Head(rq.todo)
    IN  /\ rq.pc = "enqueue"
        /\ outbox' = Append(outbox,
               [event |-> rq.event, rule |-> rule.name, kind |-> rule.kind,
                card |-> BuildPayload(rule.kind, events[rq.event]),
                status |-> "pending", attempts |-> 0, wait |-> 0,
                taken |-> FALSE, early |-> Early(r, rule.name)])
        /\ Move(r, [rq EXCEPT !.todo = Tail(@), !.pc = IF Len(rq.todo) = 1 THEN "decide" ELSE @])
        /\ UNCHANGED <<events, decisions, rules, silences, courier, budget>>

(* Mutant: the decision names every rule that claims the alert by now.         *)
Decide_Claimed(r) ==
    LET rq == requests[r]
    IN  /\ rq.pc = "decide"
        /\ decisions' = Append(decisions,
               [event |-> rq.event, code |-> rq.code,
                outcome |-> IF rq.code = "none" THEN "forwarded" ELSE "skipped",
                rules |-> {rule.name : rule \in ToSet(Claiming(events[rq.event]))}])
        /\ Move(r, Idle)
        /\ UNCHANGED <<events, outbox, rules, silences, courier, budget>>

Decide(r) ==
    LET rq == requests[r]
    IN  /\ rq.pc = "decide"
        /\ decisions' = Append(decisions,
               [event |-> rq.event, code |-> rq.code,
                outcome |-> IF rq.code = "none" THEN "forwarded" ELSE "skipped",
                rules |-> {rq.due[i].name : i \in DOMAIN rq.due}])
        /\ Move(r, Idle)
        /\ UNCHANGED <<events, outbox, rules, silences, courier, budget>>

(* The delivery loop takes the rows that are due, oldest first, and settles    *)
(* them one by one.                                                            *)
Due == {o \in DOMAIN outbox : outbox[o].status = "pending" /\ outbox[o].wait = 0}
DueDeliveries ==
    LET rows == SetToSortSeq(Due, <)
    IN  SubSeq(rows, 1, IF Len(rows) < BatchLimit THEN Len(rows) ELSE BatchLimit)
Batch == IF courier.batch = <<>> THEN DueDeliveries ELSE courier.batch

(* The target answers: it takes the message, refuses it, or, being Feishu,     *)
(* answers 200 with a business error code that the sender has to read.         *)
TargetAnswers(kind) == {"ok", "refused"} \cup IF kind = "feishu" THEN {"code"} ELSE {}
(* Mutant: any answer but a refusal counts as delivered.                       *)
Delivered_AnyAnswer(answer) == answer # "refused"

Delivered(answer) == answer = "ok"
Send ==
    /\ courier.answer = "none" /\ Batch # <<>>
    /\ \E answer \in TargetAnswers(outbox[Head(Batch)].kind) :
        /\ courier' = [batch |-> Batch, answer |-> answer]
        /\ outbox' = [outbox EXCEPT ![Head(Batch)].taken = @ \/ answer = "ok"]
    /\ UNCHANGED <<events, decisions, rules, silences, requests, budget>>

Settled(row, answer) ==
    IF Delivered(answer)
    THEN [row EXCEPT !.status = "sent", !.attempts = @ + 1]
    ELSE [row EXCEPT !.attempts = @ + 1,
                     !.status = IF row.attempts + 1 >= MaxAttempts THEN "exhausted" ELSE "pending",
                     !.wait = IF row.attempts + 1 >= MaxAttempts THEN 0 ELSE Backoff]
Mark ==
    /\ courier.answer # "none"
    /\ outbox' = [outbox EXCEPT ![Head(courier.batch)] = Settled(@, courier.answer)]
    /\ courier' = [batch |-> Tail(courier.batch), answer |-> "none"]
    /\ UNCHANGED <<events, decisions, rules, silences, requests, budget>>

AddRule(form) ==
    /\ Spend("edits") /\ rules' = Append(rules, form)
    /\ UNCHANGED <<events, decisions, outbox, silences, requests, courier>>
DeleteRule(i) ==
    /\ Spend("edits") /\ rules' = RemoveAt(rules, i)
    /\ UNCHANGED <<events, decisions, outbox, silences, requests, courier>>

AddSilence(pattern) ==
    /\ Spend("edits")
    /\ silences' = silences \cup {[hits |-> pattern, left |-> SilenceFor]}
    /\ UNCHANGED <<events, decisions, outbox, rules, requests, courier>>
DeleteSilence(silence) ==
    /\ Spend("edits") /\ silences' = silences \ {silence}
    /\ UNCHANGED <<events, decisions, outbox, rules, requests, courier>>

(* A restart loses the requests in flight and whatever the loop was sending.   *)
Crash ==
    /\ Spend("crashes")
    /\ requests' = [r \in Requests |-> Idle]
    /\ courier' = [batch |-> <<>>, answer |-> "none"]
    /\ events' = [e \in DOMAIN events |-> [events[e] EXCEPT !.cut = @ \/ InFlight(e)]]
    /\ UNCHANGED <<decisions, outbox, rules, silences>>

Tick ==
    /\ \/ \E e \in DOMAIN events : events[e].age < Horizon
       \/ \E o \in DOMAIN outbox : outbox[o].wait > 0
       \/ silences # {}
    /\ events' = [e \in DOMAIN events |-> [events[e] EXCEPT !.age = IF @ < Horizon THEN @ + 1 ELSE @]]
    /\ outbox' = [o \in DOMAIN outbox |-> [outbox[o] EXCEPT !.wait = IF @ > 0 THEN @ - 1 ELSE 0]]
    /\ silences' = {[s EXCEPT !.left = @ - 1] : s \in {t \in silences : t.left > 1}}
    /\ UNCHANGED <<decisions, rules, requests, courier, budget>>

Handle(r) ==
    CheckSilences(r) \/ PersistSkipped(r) \/ Analyse(r) \/ MatchRules(r)
        \/ CheckCooldown(r) \/ Enqueue(r) \/ Decide(r)
Operate ==
    \/ \E form \in RuleForms : AddRule(form)
    \/ \E i \in DOMAIN rules : DeleteRule(i)
    \/ \E pattern \in Patterns : AddSilence(pattern)
    \/ \E silence \in silences : DeleteSilence(silence)

LiteNext ==
    \/ \E r \in Requests : (\E alert \in Alerts : Receive(r, alert)) \/ Handle(r)
    \/ Send \/ Mark
    \/ Operate \/ Crash \/ Tick

LiteSpec == LiteInit /\ [][LiteNext]_liteVars

--------------------------------------------------------------------------------
(* Every table holds rows of its own shape, and every reference is to a row.   *)
LiteTypeOK ==
    /\ \A e \in DOMAIN events : events[e].alert \in Alerts /\ events[e].age \in 0..Horizon
                                /\ events[e].level \in Levels \cup {"none"}
    /\ \A o \in DOMAIN outbox : outbox[o].event \in DOMAIN events
                                /\ outbox[o].status \in {"pending", "sent", "exhausted"}
                                /\ outbox[o].attempts \in 0..MaxAttempts /\ outbox[o].wait \in 0..Backoff
    /\ \A d \in DOMAIN decisions : decisions[d].event \in DOMAIN events
                                   /\ decisions[d].outcome \in {"forwarded", "skipped"}
    /\ \A s \in silences : s.left \in 1..SilenceFor

(* The trace answers "why did this notify me": a decision names exactly the    *)
(* rules whose deliveries it left behind, none for a skip, whatever other      *)
(* alerts and operators did meanwhile, and a stored alert has one, once its    *)
(* request is over, unless the process died in the middle of it.               *)
TraceTrue ==
    /\ \A d \in DOMAIN decisions :
        /\ decisions[d].rules = {outbox[o].rule : o \in {p \in DOMAIN outbox : outbox[p].event = decisions[d].event}}
        /\ decisions[d].outcome = "forwarded" <=> decisions[d].rules # {}
    /\ \A e \in DOMAIN events :
        LET of == {d \in DOMAIN decisions : decisions[d].event = e}
        IN  Cardinality(of) = IF InFlight(e) \/ events[e].cut THEN 0 ELSE 1

(* "Always produces exactly one decision" (pipeline.process), in the           *)
(* transaction that writes the delivery intent (store.py): an alert that is    *)
(* stored, and a delivery above all, has its decision once no request is at it.*)
(* The code does not keep this: README, section 6.                             *)
EveryAlertDecided ==
    \A e \in DOMAIN events : InFlight(e) \/ \E d \in DOMAIN decisions : decisions[d].event = e

(* Each destination paces itself: a rule repeats an identity inside its        *)
(* cooldown only for posts that were in flight together, whatever the state of *)
(* the first delivery and however often it is retried.                         *)
Paced == \A o \in DOMAIN outbox : ~outbox[o].early

(* A delivery is marked sent only when the target took the message, and only a *)
(* spent budget gives it up: a crash between the answer and the mark repeats   *)
(* the message, it never loses it.                                             *)
SentWasTaken ==
    \A o \in DOMAIN outbox :
        /\ outbox[o].status = "sent" => outbox[o].taken
        /\ outbox[o].status = "exhausted" => outbox[o].attempts = MaxAttempts

(* "Cooldown paces re-notification of an identity that keeps firing"           *)
(* (settings.py): while a rule still claims an alert, the duplicate gate holds *)
(* it back only when it was decided about inside the cooldown.                 *)
(* The code does not keep this: README, section 6.                             *)
KeepsNotifying ==
    \A d \in DOMAIN decisions :
        decisions[d].code = "duplicate" /\ events[decisions[d].event].age = 0 =>
            \E c \in DOMAIN decisions :
                /\ Hash(events[decisions[c].event].alert) = Hash(events[decisions[d].event].alert)
                /\ decisions[c].code # "duplicate" /\ events[decisions[c].event].age < Cooldown
================================================================================
