---------------------------- MODULE NoiseReduction -----------------------------
(* The noise stage of the pipeline (services/webhooks/noise_stage.py) and the  *)
(* judgement it works from.  A worker judges an alert, with the verdicts that  *)
(* operators gave on other instances of the same rule as a prior               *)
(* (correction_prior.py), compares it with the alerts stored in the last few   *)
(* minutes (noise_reduction.py), and keeps it from being forwarded when it     *)
(* derives from one of them.  NoiseWorkers overlap, and a crash redelivers.         *)
(* Scores are in thousandths; time is kept as the age of what is stored.       *)
EXTENDS Naturals, Sequences, FiniteSets

CONSTANTS
    NoiseWorkers,
    Kinds,          \* [what, rule, source, scope, res, tok, level]: level = the model's own verdict
    Unmanaged,      \* the scope of an alert that came through no managed connection
    NoiseWindow,    \* minutes the stage looks back
    Limit,          \* alerts it compares with at most
    MinConfidence, RelatedMin, SuppressDerived,
    MinCorrections, Lookback,
    MaxAlerts, MaxCorrections, MaxNoiseFaults

VARIABLES
    alerts,     \* stored alerts, in id order: [kind, level, age, relation, root, quiet]
    records,    \* suppressed_records, [hash, root]
    overrides,  \* importance_overrides, hash -> [rule, source, level, age]
    jobs,       \* what each worker is doing
    allowance   \* [alerts, corrections, faults] left to the environment

stageVars == <<alerts, records, overrides, jobs, allowance>>

Levels == {"high", "medium", "low"}

(* What the constants are.                                                     *)
StageSane ==
    /\ \A k \in Kinds : k.level \in Levels
    /\ NoiseWindow \in Nat \ {0} /\ Lookback \in Nat /\ MinCorrections \in Nat \ {0}
    /\ SuppressDerived \in BOOLEAN
SeverityRank == [high |-> 1000, medium |-> 600, low |-> 200]
NoWork == [pc |-> "idle"]

(* The stored identity is namespaced by a managed connection, the one the      *)
(* prior computes for itself is not.                                           *)
Hash(kind) == <<kind.scope, kind.what>>
OwnHash(kind) == <<Unmanaged, kind.what>>

(* Weights of the score.                                                       *)
Weight == [source |-> 150, resource |-> 450, semantic |-> 250,
           severity |-> 100, downgrade |-> 30, time |-> 200]
Jaccard(a, b) == IF a = {} \/ b = {} THEN 0 ELSE (1000 * Cardinality(a \cap b)) \div Cardinality(a \cup b)

ScoreCandidate(kind, level, e) ==
    LET other == alerts[e].kind
        same == IF kind.source = other.source THEN Weight.source ELSE 0
        resources == (Weight.resource * Jaccard(kind.res, other.res)) \div 1000
        words == (Weight.semantic * Jaccard(kind.tok, other.tok)) \div 1000
        severity == IF SeverityRank[alerts[e].level] >= SeverityRank[level] THEN Weight.severity ELSE Weight.downgrade
        time == (Weight.time * (NoiseWindow - alerts[e].age)) \div NoiseWindow
        total == same + resources + words + severity + time
    IN  IF total > 1000 THEN 1000 ELSE total

(* Mutant: alerts of every connection.                                         *)
Neighbours_AnyScope(kind) ==
    {e \in DOMAIN alerts : alerts[e].age <= NoiseWindow /\ Hash(alerts[e].kind) # Hash(kind)}

(* The alerts of the window that the stage compares with: another identity of  *)
(* the same connection, the latest first, at most Limit of them.               *)
Neighbours(kind) ==
    {e \in DOMAIN alerts :
        alerts[e].age <= NoiseWindow /\ Hash(alerts[e].kind) # Hash(kind) /\ alerts[e].kind.scope = kind.scope}
Compared(set) == {e \in set : Cardinality({f \in set : f > e}) < Limit}

Standalone == [relation |-> "standalone", root |-> 0, quiet |-> FALSE]

(* The decision on an alert; the best candidate is any of the best scored.     *)
Decisions(kind, level, found) ==
    LET score(e) == ScoreCandidate(kind, level, e)
        scored == {e \in found : score(e) > 0}
        best == {e \in scored : \A f \in scored : score(f) <= score(e)}
        related == {e \in scored : score(e) >= RelatedMin}
    IN  IF scored = {} THEN {Standalone}
        ELSE IF \E e \in best : score(e) >= MinConfidence
        THEN {[relation |-> "derived", root |-> e, quiet |-> SuppressDerived] : e \in best}
        ELSE IF level = "high" /\ Cardinality(related) >= 2
        THEN {[relation |-> "root_cause", root |-> 0, quiet |-> FALSE]}
        ELSE {Standalone}

(* Mutant: verdicts however old.                                               *)
Corrections_Ever(kind) ==
    {h \in DOMAIN overrides :
        /\ overrides[h].rule = kind.rule /\ overrides[h].source = kind.source /\ h # OwnHash(kind)}

(* The verdicts operators gave on other instances of the rule lately, and the  *)
(* prior they make: one verdict, given often enough.                           *)
Corrections(kind) ==
    {h \in DOMAIN overrides :
        /\ overrides[h].rule = kind.rule /\ overrides[h].source = kind.source
        /\ h # OwnHash(kind) /\ overrides[h].age <= Lookback}
Prior(kind) ==
    LET verdicts == {overrides[h].level : h \in Corrections(kind)}
    IN  IF kind.rule # "none" /\ Cardinality(verdicts) = 1 /\ Cardinality(Corrections(kind)) >= MinCorrections
        THEN verdicts ELSE {}

(* The model may follow the prior or keep to its own verdict; a correction of  *)
(* this very alert replaces either.                                            *)
Judgements(kind) ==
    IF Hash(kind) \in DOMAIN overrides THEN {overrides[Hash(kind)].level}
    ELSE {kind.level} \cup Prior(kind)

--------------------------------------------------------------------------------
StageInit ==
    /\ alerts = <<>> /\ records = {}
    /\ overrides = [h \in {} |-> 0]
    /\ jobs = [w \in NoiseWorkers |-> NoWork]
    /\ allowance = [alerts |-> MaxAlerts, corrections |-> MaxCorrections, faults |-> MaxNoiseFaults]

Spend(what) == allowance[what] > 0 /\ allowance' = [allowance EXCEPT ![what] = @ - 1]

Arrive(w, kind) ==
    /\ jobs[w] = NoWork /\ Spend("alerts")
    /\ jobs' = [jobs EXCEPT ![w] = [pc |-> "analyse", kind |-> kind]]
    /\ UNCHANGED <<alerts, records, overrides>>

Analyse(w) ==
    /\ jobs[w].pc = "analyse"
    /\ \E level \in Judgements(jobs[w].kind) :
        jobs' = [jobs EXCEPT ![w] = [pc |-> "noise", kind |-> jobs[w].kind, level |-> level]]
    /\ UNCHANGED <<alerts, records, overrides, allowance>>

(* The recent alerts may fail to load: the alert then stands alone.            *)
Compute(w, found) ==
    /\ jobs[w].pc = "noise"
    /\ \E d \in Decisions(jobs[w].kind, jobs[w].level, found) :
        jobs' = [jobs EXCEPT ![w] = [pc |-> IF d.quiet THEN "record" ELSE "store",
                                     kind |-> jobs[w].kind, level |-> jobs[w].level, decision |-> d]]
ComputeNoise(w) ==
    Compute(w, Compared(Neighbours(jobs[w].kind))) /\ UNCHANGED <<alerts, records, overrides, allowance>>
LoadFails(w) == Spend("faults") /\ Compute(w, {}) /\ UNCHANGED <<alerts, records, overrides>>

(* The suppressed record commits by itself, before the alert is stored, and    *)
(* its failure is swallowed.                                                   *)
WriteRecord(w) ==
    /\ jobs[w].pc = "record"
    /\ jobs' = [jobs EXCEPT ![w].pc = "store"]
    /\ records' = records \cup {[hash |-> Hash(jobs[w].kind), root |-> jobs[w].decision.root]}
    /\ UNCHANGED <<alerts, overrides, allowance>>
RecordFails(w) ==
    /\ jobs[w].pc = "record" /\ Spend("faults")
    /\ jobs' = [jobs EXCEPT ![w].pc = "store"]
    /\ UNCHANGED <<alerts, records, overrides>>

Store(w) ==
    /\ jobs[w].pc = "store"
    /\ LET j == jobs[w]
       IN  alerts' = Append(alerts, [kind |-> j.kind, level |-> j.level, age |-> 0,
                relation |-> j.decision.relation, root |-> j.decision.root, quiet |-> j.decision.quiet])
    /\ jobs' = [jobs EXCEPT ![w] = NoWork]
    /\ UNCHANGED <<records, overrides, allowance>>

Redeliver(w) ==
    /\ jobs[w] # NoWork /\ jobs[w].pc # "analyse" /\ Spend("faults")
    /\ jobs' = [jobs EXCEPT ![w] = [pc |-> "analyse", kind |-> jobs[w].kind]]
    /\ UNCHANGED <<alerts, records, overrides>>

(* An operator corrects a stored alert: one row per identity.                  *)
Correct(e, level) ==
    /\ Spend("corrections")
    /\ LET k == alerts[e].kind
           row == [rule |-> k.rule, source |-> k.source, level |-> level, age |-> 0]
       IN  overrides' = [h \in DOMAIN overrides \cup {Hash(k)} |-> IF h = Hash(k) THEN row ELSE overrides[h]]
    /\ UNCHANGED <<alerts, records, jobs>>

Older(age, cap) == IF age <= cap THEN age + 1 ELSE age
Minute ==
    /\ alerts # <<>>
    /\ alerts' = [e \in DOMAIN alerts |-> [alerts[e] EXCEPT !.age = Older(@, NoiseWindow)]]
    /\ overrides' = [h \in DOMAIN overrides |-> [overrides[h] EXCEPT !.age = Older(@, Lookback)]]
    /\ <<alerts, overrides>>' # <<alerts, overrides>>
    /\ UNCHANGED <<records, jobs, allowance>>

StageNext ==
    \/ \E w \in NoiseWorkers :
        \/ \E kind \in Kinds : Arrive(w, kind)
        \/ Analyse(w) \/ ComputeNoise(w) \/ LoadFails(w)
        \/ WriteRecord(w) \/ RecordFails(w) \/ Store(w) \/ Redeliver(w)
    \/ \E e \in DOMAIN alerts, level \in Levels : Correct(e, level)
    \/ Minute
StageSpec == StageInit /\ [][StageNext]_stageVars

--------------------------------------------------------------------------------
(* Every table holds rows of its shape.                                        *)
StageTypeOK ==
    /\ \A e \in DOMAIN alerts :
        /\ alerts[e].kind \in Kinds /\ alerts[e].level \in Levels /\ alerts[e].age \in 0..(NoiseWindow + 1)
        /\ alerts[e].relation \in {"standalone", "derived", "root_cause"}
    /\ \A h \in DOMAIN overrides : overrides[h].level \in Levels /\ overrides[h].age \in 0..(Lookback + 1)
    /\ \A r \in records : r.root \in DOMAIN alerts

(* Somebody hears of it: an alert kept from being forwarded derives from one   *)
(* stored before it, of another identity and of the same connection, so the    *)
(* chain of roots ends in an alert of that connection that the stage let pass; *)
(* and an alert that stands at the root of a storm is never kept back.         *)
RootTold ==
    \A e \in DOMAIN alerts :
        alerts[e].quiet =>
            /\ alerts[e].relation = "derived" /\ alerts[e].root \in 1..(e - 1)
            /\ alerts[alerts[e].root].kind.scope = alerts[e].kind.scope
            /\ Hash(alerts[alerts[e].root].kind) # Hash(alerts[e].kind)

(* A root cause is told although the alerts derived from it are held back, and *)
(* every record of a suppression points to a stored alert.                     *)
RootCauseTold == StageTypeOK /\ RootTold

(* No drift: the level leaves the model's own verdict only for a correction of *)
(* this alert, or for one that operators gave, within the lookback, to enough  *)
(* other instances of the same rule and source without a dissenting one.  The  *)
(* alert that bears its name outside every connection counts as itself.        *)
LevelStep ==
    \A w \in NoiseWorkers :
        LET kind == jobs[w].kind
            others == {h \in DOMAIN overrides :
                        /\ h \notin {Hash(kind), OwnHash(kind)} /\ overrides[h].rule = kind.rule
                        /\ overrides[h].source = kind.source /\ overrides[h].age <= Lookback}
        IN  (jobs[w].pc = "analyse" /\ jobs'[w].pc = "noise" /\ jobs'[w].level # kind.level
                /\ Hash(kind) \notin DOMAIN overrides) =>
            /\ Cardinality(others) >= MinCorrections
            /\ \A h \in others : overrides[h].level = jobs'[w].level

LevelHasGrounds == [][LevelStep]_stageVars
================================================================================
