-------------------------- MODULE ServiceInsight --------------------------
(***************************************************************************)
(* What is read off the history of one service: the before/after impact of *)
(* a change (services/incidents/change_impact.py) and the health of the    *)
(* service (service_profiles.py), over alerts, changes and incidents that  *)
(* keep arriving; and the idempotent ingestion of the change itself, which *)
(* two CI workers may deliver at once (upsert_change_event).               *)
(*                                                                         *)
(* The change starts at slot Window of the clock.  An alert of the service *)
(* matches it; the others are traffic the queries fetch and then drop.     *)
(***************************************************************************)
EXTENDS Integers, Sequences, FiniteSets, FiniteSetsExt, SequencesExt

CONSTANTS
    Workers,        \* CI deliveries of the change in flight
    Payloads,       \* change payloads: records [phase, version]
    Incidents,
    Window,         \* slots compared on either side of the change
    SideLimit,      \* rows fetched of each side
    Budgets,        \* bounds: records [alerts, deliveries, incidents, rollback]
    SlowMinutes     \* 240: an average resolution above it is slow

VARIABLES
    budget,         \* what arrives in this history
    clock,          \* 0 .. 2 * Window + 1
    alerts,         \* [at, mine, high, recovery], in order of arrival
    change,         \* the ChangeEvent row, or Absent
    delivery,       \* each delivery: what it loaded and what it brings
    rollback,       \* the slot in which a later change rolled this one back, 0 if none did
    ingested,       \* deliveries that reported a new change
    incident        \* incidents of the service

insightVars == <<budget, clock, alerts, change, rollback, delivery, ingested, incident>>

Absent == [phase |-> "absent", version |-> 0]
Alert  == [at : 0..(2 * Window + 1), mine : BOOLEAN, high : BOOLEAN, recovery : BOOLEAN]

Workflow == {"none", "open", "acknowledged", "resolved", "ignored"}
Incident == [state : Workflow, high : BOOLEAN, due : 0..(2 * Window + 1), minutes : {60, 600}]

InsightTypeOK ==
    /\ clock \in 0..(2 * Window + 1)
    /\ budget \in Budgets /\ Len(alerts) <= budget.alerts /\ \A k \in DOMAIN alerts : alerts[k] \in Alert
    /\ change \in Payloads \cup {Absent} /\ rollback \in 0..(2 * Window + 1)
    /\ \A w \in Workers : delivery[w].pc \in {"idle", "loaded", "done"}
    /\ ingested \subseteq Workers
    /\ incident \in [Incidents -> Incident]

InsightInit ==
    /\ budget \in Budgets
    /\ clock = 0
    /\ alerts = <<>>
    /\ change = Absent /\ rollback = 0
    /\ delivery = [w \in Workers |-> [pc |-> "idle", loaded |-> Absent, brings |-> Absent]]
    /\ ingested = {}
    /\ \E high \in SUBSET budget.incidents, slow \in SUBSET budget.incidents :
          incident = [i \in Incidents |-> [state |-> "none", high |-> i \in high, due |-> Window,
                                            minutes |-> IF i \in slow THEN 600 ELSE 60]]

-----------------------------------------------------------------------------
Tick ==
    /\ clock <= 2 * Window
    /\ clock' = clock + 1
    /\ UNCHANGED <<budget, alerts, change, rollback, delivery, ingested, incident>>

(* An alert of this service, or of another one, is stored.                 *)
Arrive(mine, high, recovery) ==
    /\ Len(alerts) < budget.alerts
    /\ alerts' = Append(alerts, [at |-> clock, mine |-> mine, high |-> high, recovery |-> recovery])
    /\ UNCHANGED <<budget, clock, change, rollback, delivery, ingested, incident>>

(* The first later change of the same service that carries the mark of a   *)
(* rollback (_rollback_marker).                                            *)
RollBack ==
    /\ budget.rollback /\ rollback = 0 /\ clock > Window
    /\ rollback' = clock
    /\ UNCHANGED <<budget, clock, alerts, change, delivery, ingested, incident>>

(* upsert_change_event: the row is looked up by its external id ...        *)
LoadChange(w, p) ==
    /\ w \in budget.deliveries
    /\ delivery[w].pc = "idle"
    /\ clock = Window
    /\ delivery' = [delivery EXCEPT ![w] = [pc |-> "loaded", loaded |-> change, brings |-> p]]
    /\ UNCHANGED <<budget, clock, alerts, change, rollback, ingested, incident>>

(* ... and inserted, or, when another delivery inserted it meanwhile,      *)
(* read again and updated.  Only columns that differ from what was loaded  *)
(* are written.                                                            *)
StoreChange_Twice(w) ==
    LET d == delivery[w]
    IN  /\ d.pc = "loaded"
        /\ change' = d.brings
        /\ ingested' = IF d.loaded = Absent THEN ingested \cup {w} ELSE ingested
        /\ delivery' = [delivery EXCEPT ![w].pc = "done"]
        /\ UNCHANGED <<budget, clock, alerts, rollback, incident>>

StoreChange(w) ==
    LET d     == delivery[w]
        first == change = Absent
        base  == IF d.loaded = Absent THEN change ELSE d.loaded
    IN  /\ d.pc = "loaded"
        /\ change' = IF first THEN d.brings
                     ELSE [phase   |-> IF d.brings.phase # base.phase THEN d.brings.phase ELSE change.phase,
                           version |-> IF d.brings.version # base.version THEN d.brings.version ELSE change.version]
        /\ ingested' = IF first THEN ingested \cup {w} ELSE ingested
        /\ delivery' = [delivery EXCEPT ![w].pc = "done"]
        /\ UNCHANGED <<budget, clock, alerts, rollback, incident>>

(* Incidents of the service open and are worked on (services/incidents).   *)
Work(i, state) ==
    /\ i \in budget.incidents
    /\ incident[i].state \in {"none", "open", "acknowledged"}
    /\ incident[i].state = "none" <=> state = "open"
    /\ state # incident[i].state
    /\ incident' = [incident EXCEPT ![i].state = state]
    /\ UNCHANGED <<budget, clock, alerts, change, rollback, delivery, ingested>>

-----------------------------------------------------------------------------
(* assess_change_impact.  Each side of the change is fetched on its own,   *)
(* nearest rows first, and filtered by identity afterwards.                *)
PlannedEnd == 2 * Window
Side(side) ==
    SelectSeq(alerts, LAMBDA a : IF side = "before" THEN a.at < Window
                                 ELSE a.at >= Window /\ a.at <= Min({PlannedEnd, clock}))

(* One ascending query over both sides spends its rows on the earlier one. *)
Fetched_OneQuery(side) ==
    LET all  == SelectSeq(alerts, LAMBDA a : a.at <= Min({PlannedEnd, clock}))
        rows == SubSeq(all, 1, Min({Len(all), 2 * SideLimit}))
    IN  SelectSeq(rows, LAMBDA a : (a.at < Window) = (side = "before"))

Fetched(side) ==
    LET rows == Side(side)
        n    == Min({Len(rows), SideLimit})
    IN  IF side = "before" THEN SubSeq(rows, Len(rows) - n + 1, Len(rows)) ELSE SubSeq(rows, 1, n)

Matching(rows) == SelectSeq(rows, LAMBDA a : a.mine)
High(rows) == Len(SelectSeq(rows, LAMBDA a : a.high))
Truncated == \E s \in {"before", "after"} : Len(Fetched(s)) >= SideLimit
AlertDelta == Len(Matching(Fetched("after"))) - Len(Matching(Fetched("before")))
HighDelta == High(Matching(Fetched("after"))) - High(Matching(Fetched("before")))
Linked == {i \in Incidents : incident[i].state # "none"}

(* Alerts of one identity share their importance: the severe ones and the  *)
(* others are two identities of the service.                               *)
Identities(rows) == {a.high : a \in ToSet(rows)}
NewIdentities == Identities(Matching(Fetched("after"))) \ Identities(Matching(Fetched("before")))

(* The score, in thousandths, from the increase, the new and the severe    *)
(* alerts and the incidents near the change; a rollback after which the    *)
(* service recovered raises it to 750.                                     *)
RecoveredAfterRollback ==
    /\ rollback > 0
    /\ \E k \in DOMAIN alerts :
          alerts[k].mine /\ alerts[k].recovery /\ alerts[k].at \in rollback..(rollback + Window)

ImpactScore ==
    LET base == Max({1, Len(Matching(Fetched("before")))})
        score == Min({450, (Max({0, AlertDelta}) * 150) \div base})
                 + Min({200, Cardinality(NewIdentities) * 50})
                 + Min({200, Max({0, HighDelta}) * 100})
                 + Min({150, Cardinality(Linked) * 100})
    IN  IF RecoveredAfterRollback THEN Max({score, 750}) ELSE score

ImpactLevel ==
    LET samples == Len(Matching(Fetched("before"))) + Len(Matching(Fetched("after")))
        collecting == clock < PlannedEnd
    IN  IF Linked = {} /\ (IF collecting THEN samples = 0 ELSE samples < 2) THEN "unknown"
        ELSE IF ImpactScore >= 650 THEN "high"
        ELSE IF ImpactScore >= 300 THEN "medium" ELSE "low"

-----------------------------------------------------------------------------
(* _profile_health: points are taken off for what is open, severe, late or *)
(* slow.                                                                   *)
Active(i) == incident[i].state \in {"open", "acknowledged"}
Resolved  == {i \in Incidents : incident[i].state = "resolved"}
Late(i)   == Active(i) /\ incident[i].due <= clock
AverageMinutes ==
    MapThenSumSet(LAMBDA i : incident[i].minutes, Resolved) \div Max({1, Cardinality(Resolved)})

Points_Halved ==
    LET count(P(_)) == Cardinality({i \in Incidents : P(i)})
        severe(i) == Active(i) /\ incident[i].high
    IN  Min({30, count(Active) * 5}) + Min({20, count(severe) * 5}) + Min({30, count(Late) * 5})

Points ==
    LET count(P(_)) == Cardinality({i \in Incidents : P(i)})
        severe(i) == Active(i) /\ incident[i].high
    IN  Min({30, count(Active) * 10}) + Min({20, count(severe) * 10}) + Min({30, count(Late) * 15})
        + IF AverageMinutes > SlowMinutes THEN 10 ELSE 0

HealthScore == Max({0, 100 - Points})
HealthLabel == IF HealthScore >= 80 THEN "healthy" ELSE IF HealthScore >= 55 THEN "watch" ELSE "at_risk"

-----------------------------------------------------------------------------
InsightNext ==
    \/ Tick
    \/ \E m \in BOOLEAN : \E h \in {FALSE, m} :
          \E ends \in {FALSE, budget.rollback /\ m /\ ~h} : Arrive(m, h, ends)
    \/ RollBack
    \/ \E w \in Workers, p \in Payloads : LoadChange(w, p)
    \/ \E w \in Workers : StoreChange(w)
    \/ \E i \in Incidents, s \in Workflow : Work(i, s)

InsightSpec == InsightInit /\ [][InsightNext]_insightVars

-----------------------------------------------------------------------------
(* A busy window does not turn a bad deploy into an improvement: when the  *)
(* service is the only traffic, the sign of the reported difference is     *)
(* never the opposite of the true one, and without truncation the          *)
(* difference is the true one whatever else was stored; and a change after *)
(* which the service was silent is rated above low only when its rollback  *)
(* was followed by a recovery.                                             *)
DeltaNotReversed ==
    LET before == Len(Matching(Side("before")))
        after  == Len(Matching(Side("after")))
    IN  /\ (\A k \in DOMAIN alerts : alerts[k].mine) =>
              /\ after >= before => AlertDelta >= 0
              /\ after <= before => AlertDelta <= 0
        /\ ~Truncated => AlertDelta = after - before
        /\ (after = 0 /\ Linked = {} /\ ~RecoveredAfterRollback) => ImpactLevel \in {"low", "unknown"}

(* Of the deliveries of one change exactly one reports it as new, and once *)
(* any of them is done there is a row that shows what a delivery brought.  *)
IngestedOnce ==
    /\ Cardinality(ingested) <= 1
    /\ (\E w \in Workers : delivery[w].pc = "done") =>
          /\ change # Absent /\ ingested # {}
          /\ \E w, v \in Workers : change.phase = delivery[w].brings.phase /\ change.version = delivery[v].brings.version

(* A service that is called healthy has no incident past its deadline.     *)
HealthyMeansOnTime == HealthLabel = "healthy" => \A i \in Incidents : ~Late(i)
=============================================================================
