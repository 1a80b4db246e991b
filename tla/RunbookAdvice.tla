--------------------------- MODULE RunbookAdvice ---------------------------
(***************************************************************************)
(* What an incident is advised to do, and what operators answer:           *)
(* services/incidents/intelligence.py ranks similar incidents, changes and *)
(* runbooks; services/incidents/runbooks.py tracks the manual execution of *)
(* a runbook; recommendation_calibration.py turns verdicts and outcomes    *)
(* back into a bounded correction of the scores.                           *)
(*                                                                         *)
(* Scores are in thousandths.  A candidate is a recommendation made to an  *)
(* incident of one service scope; the features it shares with the incident *)
(* are data.  Two operators may start the same runbook at once: the insert *)
(* is a step of its own, and the unique key decides.                       *)
(***************************************************************************)
EXTENDS Integers, FiniteSets, FiniteSetsExt

CONSTANTS
    Candidates,     \* records [incident, type, ref]
    Features,       \* [Candidates -> SUBSET feature]: what the two share; and
                    \* "kind", of a document tagged as a runbook
    Coverage,       \* [Candidates -> 0..1000]: overlap of the texts; of a
                    \* change, how close in time it is to the incident
    Operators,
    Steps,          \* steps of a runbook
    MinSample,      \* _MIN_SAMPLE_SIZE
    Prior,          \* _PRIOR_SUCCESS = _PRIOR_FAILURE
    Limit           \* recommendations shown of a type

VARIABLES
    published,      \* runbooks with a published document
    execution,      \* RunbookExecution rows, by candidate
    verdict,        \* IncidentIntelligenceFeedback rows, by candidate
    start           \* the request of each operator that starts a runbook

adviceVars == <<published, execution, verdict, start>>

Types    == {"similar_incident", "change", "runbook"}
Verdicts == {"relevant", "used", "irrelevant", "not_used"}
Positive == {"relevant", "used"}
Terminal == {"completed", "failed", "abandoned"}
Runbooks == {c \in Candidates : c.type = "runbook"}

(* "unknown" and no rating are told apart nowhere.                         *)
Ratings == {"none", "effective", "ineffective"}
Execution == [status : {"in_progress"} \cup Terminal, rating : Ratings, done : SUBSET Steps]
NoRun == [status |-> "absent", rating |-> "none", done |-> {}]

Start == [pc : {"idle", "read", "inserted"}, of : Candidates, sawVerdict : BOOLEAN]
IdleStart == [pc |-> "idle", of |-> CHOOSE c \in Candidates : TRUE, sawVerdict |-> FALSE]

AdviceTypeOK ==
    /\ published \subseteq Runbooks
    /\ execution \in [Runbooks -> Execution \cup {NoRun}]
    /\ verdict \in [Candidates -> Verdicts \cup {"none"}]
    /\ start \in [Operators -> Start]

AdviceInit ==
    /\ published \in SUBSET Runbooks
    /\ execution = [c \in Runbooks |-> NoRun]
    /\ verdict = [c \in Candidates |-> "none"]
    /\ start = [o \in Operators |-> IdleStart]

-----------------------------------------------------------------------------
(* start_runbook_execution, up to the insert: a run that exists is         *)
(* returned as it is, and only a published document has steps.             *)
BeginStart(o, c) ==
    /\ start[o] = IdleStart
    /\ execution[c] = NoRun
    /\ c \in published
    /\ start' = [start EXCEPT ![o] = [pc |-> "read", of |-> c, sawVerdict |-> FALSE]]
    /\ UNCHANGED <<published, execution, verdict>>

(* The flush of the new row waits for another start of the same candidate  *)
(* that is not committed; the feedback row is then read without a lock.    *)
InsertRun(o) ==
    LET c == start[o].of
    IN  /\ start[o].pc = "read"
        /\ \A p \in Operators \ {o} : ~(start[p].pc = "inserted" /\ start[p].of = c)
        /\ execution[c] = NoRun
        /\ start' = [start EXCEPT ![o].pc = "inserted", ![o].sawVerdict = verdict[c] # "none"]
        /\ UNCHANGED <<published, execution, verdict>>

(* IntegrityError: the run another operator started is adopted as it is.   *)
AdoptRun_Restart(o) ==
    /\ start[o].pc = "read"
    /\ execution[start[o].of] # NoRun
    /\ execution' = [execution EXCEPT ![start[o].of] = [status |-> "in_progress", rating |-> "none", done |-> {}]]
    /\ start' = [start EXCEPT ![o] = IdleStart]
    /\ UNCHANGED <<published, verdict>>

AdoptRun(o) ==
    /\ start[o].pc = "read"
    /\ execution[start[o].of] # NoRun
    /\ start' = [start EXCEPT ![o] = IdleStart]
    /\ UNCHANGED <<published, execution, verdict>>

(* _mark_runbook_used and the commit: the run appears with its "used"      *)
(* verdict, or neither does (the feedback row inserted since it was looked *)
(* for breaks its unique key).                                             *)
CommitStart(o) ==
    LET c == start[o].of
        clash == ~start[o].sawVerdict /\ verdict[c] # "none"
    IN  /\ start[o].pc = "inserted"
        /\ start' = [start EXCEPT ![o] = IdleStart]
        /\ IF clash
           THEN UNCHANGED <<execution, verdict>>
           ELSE /\ execution' = [execution EXCEPT ![c] = [status |-> "in_progress", rating |-> "none", done |-> {}]]
                /\ verdict' = [verdict EXCEPT ![c] = "used"]
        /\ UNCHANGED published

-----------------------------------------------------------------------------
(* _ALLOWED_TRANSITIONS.                                                   *)
Allowed(from) ==
    CASE from = "in_progress" -> {"in_progress"} \cup Terminal
      [] from = "failed"      -> {"failed", "in_progress", "abandoned"}
      [] OTHER                -> {from}

(* update_runbook_execution, under the row's lock: a step is toggled only  *)
(* while the run is, or becomes, in progress; a rating needs a terminal    *)
(* status; resuming a failed run takes its rating back.                    *)
UpdateRun_KeepRating(c, status, done, rating) ==
    LET run == execution[c]
    IN  /\ run # NoRun
        /\ status \in Allowed(run.status)
        /\ done # run.done => status = "in_progress"
        /\ rating # "none" /\ rating # run.rating => status \in Terminal
        /\ execution' = [execution EXCEPT ![c] = [status |-> status, done |-> done, rating |-> rating]]
        /\ UNCHANGED <<published, verdict, start>>

UpdateRun(c, status, done, rating) ==
    LET run == execution[c]
        resumed == run.status # status /\ status = "in_progress"
    IN  /\ run # NoRun
        /\ status \in Allowed(run.status)
        /\ Cardinality((done \ run.done) \cup (run.done \ done)) <= 1
        /\ done # run.done => status = "in_progress"
        /\ rating # "none" /\ rating # run.rating => status \in Terminal
        /\ execution' = [execution EXCEPT ![c] =
                           [status |-> status, done |-> done, rating |-> IF resumed THEN "none" ELSE rating]]
        /\ UNCHANGED <<published, verdict, start>>

(* record_intelligence_feedback: an upsert under the row's lock.           *)
RecordFeedback(c, v) ==
    /\ verdict' = [verdict EXCEPT ![c] = v]
    /\ UNCHANGED <<published, execution, start>>

-----------------------------------------------------------------------------
(* get_recommendation_calibrations.  The outcome of a run, when it says    *)
(* something, replaces the verdict of the same candidate.                  *)
Worked(c) == c \in Runbooks /\ execution[c].status = "completed" /\ execution[c].rating = "effective"

Failed(c) ==
    /\ c \in Runbooks
    /\ execution[c].status \in Terminal
    /\ execution[c].rating = "ineffective" \/ execution[c].status \in {"failed", "abandoned"}

Superseded_Never(c) == FALSE

Superseded(c) == Worked(c) \/ Failed(c)

Praised(type)   == {c \in Candidates : c.type = type /\ ~Superseded(c) /\ verdict[c] \in Positive}
Rejected(type)  == {c \in Candidates : c.type = type /\ ~Superseded(c) /\ verdict[c] \notin Positive \cup {"none"}}
Outcomes(type, Outcome(_)) == {c \in Candidates : c.type = type /\ Outcome(c)}

PositiveSamples(type) == Cardinality(Praised(type)) + Cardinality(Outcomes(type, Worked))
NegativeSamples(type) == Cardinality(Rejected(type)) + Cardinality(Outcomes(type, Failed))

(* RecommendationCalibration.adjustment: the posterior success rate about  *)
(* one half, scaled to at most a tenth of the score.                       *)
MaxAdjustment == 100
Adjustment_Unbounded(pos, neg) ==
    IF pos + neg < MinSample THEN 0 ELSE 300 * (pos - neg)

Adjustment(pos, neg) ==
    LET scaled == (MaxAdjustment * (pos - neg)) \div (pos + neg + 2 * Prior)
    IN  IF pos + neg < MinSample THEN 0
        ELSE Max({-MaxAdjustment, Min({MaxAdjustment, scaled})})

Calibrated(type, raw) ==
    Max({0, Min({1000, raw + Adjustment(PositiveSamples(type), NegativeSamples(type))})})

(* _similarity, _change_score, _runbook_score: a weight per feature, and   *)
(* the overlap of the texts; a change that shares no identity scores none. *)
Identity == {"service", "environment", "project", "region"}
Weight(type, f) ==
    CASE type = "similar_incident" /\ f \in Identity \cup {"rule", "metric", "resource", "source"} ->
           [service |-> 250, environment |-> 120, project |-> 120, region |-> 60,
            rule |-> 200, metric |-> 100, resource |-> 80, source |-> 30][f]
      [] type = "change" /\ f \in Identity \cup {"resource"} ->
           [service |-> 300, environment |-> 150, project |-> 150, region |-> 80, resource |-> 120][f]
      [] type = "runbook" /\ f \in Identity \cup {"source", "kind"} ->
           [service |-> 300, environment |-> 120, project |-> 120, region |-> 60, source |-> 80, kind |-> 80][f]
      [] OTHER -> 0
TextWeight(type) == CASE type = "similar_incident" -> 200 [] type = "change" -> 200 [] OTHER -> 350

(* The texts of two incidents count from a tenth on.                       *)
Similar(c) == IF c.type = "similar_incident" /\ Coverage[c] < 100 THEN 0 ELSE Coverage[c]

Raw(c) ==
    LET shared == MapThenSumSet(LAMBDA f : Weight(c.type, f), Features[c])
        text   == (Similar(c) * TextWeight(c.type)) \div 1000
    IN  IF c.type = "change" /\ Features[c] = {} THEN 0 ELSE Min({1000, shared + text})

(* The reasons a recommendation is shown with: the kind of a document is   *)
(* none.                                                                   *)
Reasons(c) ==
    (Features[c] \ {"kind"}) \cup IF c.type # "change" /\ Similar(c) > 0 THEN {"content"} ELSE {}

Floor(type) == CASE type = "similar_incident" -> 200 [] type = "change" -> 250 [] OTHER -> 100

Eligible(i, type) ==
    {c \in Candidates : /\ c.incident = i
                        /\ c.type = type
                        /\ type = "runbook" => c \in published
                        /\ Calibrated(type, Raw(c)) >= Floor(type)
                        /\ type # "change" => Reasons(c) # {}}

(* get_incident_intelligence: the best of each kind, ties in any order.    *)
Shown(i, type) ==
    {shown \in SUBSET Eligible(i, type) :
        /\ Cardinality(shown) = Min({Limit, Cardinality(Eligible(i, type))})
        /\ \A c \in shown, d \in Eligible(i, type) \ shown : Raw(c) >= Raw(d)}

-----------------------------------------------------------------------------
AdviceNext ==
    \/ \E o \in Operators : InsertRun(o) \/ AdoptRun(o) \/ CommitStart(o)
    \/ \E o \in Operators, c \in Runbooks : BeginStart(o, c)
    \/ \E c \in Runbooks, s \in {"in_progress"} \cup Terminal, d \in SUBSET Steps, r \in Ratings :
          UpdateRun(c, s, d, r)
    \/ \E c \in Candidates, v \in Verdicts : RecordFeedback(c, v)

AdviceSpec == AdviceInit /\ [][AdviceNext]_adviceVars

-----------------------------------------------------------------------------
(* A run that is rated is over, whatever was resumed, toggled or rated     *)
(* before: the calibration never learns from a run that is still going on. *)
RatedMeansOver ==
    \A c \in Runbooks : execution[c].rating # "none" => execution[c].status \in Terminal

(* Two operators who start the same runbook share one run: the later       *)
(* start, which had seen none, adopts the run with the steps and the       *)
(* rating it has by then, and changes nothing of it.                       *)
ProgressStep ==
    \A c \in Runbooks :
          execution[c] # NoRun /\ execution'[c] # execution[c] => start' = start

ProgressKept == [][ProgressStep]_adviceVars

(* One candidate is one sample: its verdict or the outcome of its run,     *)
(* never both, and a run that failed or was abandoned is no success        *)
(* although starting it recorded the candidate as used.                    *)
CountedOnce ==
    \A type \in Types :
       /\ PositiveSamples(type) + NegativeSamples(type) <=
             Cardinality({c \in Candidates : c.type = type /\ verdict[c] # "none"})
       /\ type = "runbook" =>
             PositiveSamples(type) <= Cardinality({c \in Runbooks : execution[c].status \notin {"failed", "abandoned"}
                                                                    /\ verdict[c] # "none"})

(* However well a kind of advice has done, a change that shares no         *)
(* identity with the incident is not suggested, and nothing is suggested   *)
(* without a reason to show; a bad record alone silences no candidate      *)
(* whose evidence is a tenth above the floor.                              *)
AdviceHasGrounds ==
    \A i \in {c.incident : c \in Candidates}, type \in Types :
       /\ Shown(i, type) # {}
       /\ \A s \in Shown(i, type) : \A c \in s : Reasons(c) # {}
       /\ \A c \in Candidates :
             c.incident = i /\ c.type = type /\ (type = "runbook" => c \in published)
             /\ Raw(c) >= Floor(type) + MaxAdjustment /\ Reasons(c) # {} => c \in Eligible(i, type)
=============================================================================
