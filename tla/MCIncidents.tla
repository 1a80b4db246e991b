----------------------------- MODULE MCIncidents -----------------------------
(***************************************************************************)
(* Incidents with their operators and summaries, and beside them the       *)
(* scheduled reports with the workers that lead them in turn.  They share  *)
(* no state a property relates, so a behaviour exercises one of them and   *)
(* the other rests.                                                        *)
(***************************************************************************)
EXTENDS ScheduledJobs, TLC

CONSTANTS a1, a2, b1, b2, r1, u1    \* alerts
CONSTANTS i1, i2, k1                \* ids of incidents, k1 that of one split off
CONSTANTS o1, s1                    \* an operator, a run of the summary task

VARIABLES
    part,   \* the component the behaviour exercises
    \* Incidents
    now, arrived, member, inc, recur, trans, cards, scan, op, summ, ops, left, last, lost,
    overlap, shaped, died

Alert(n, src, c, rule, svc, t, rec) ==
    [id |-> n, source |-> src, conn |-> c, rule |-> rule,
     dims |-> [d \in {"service", "environment"} |-> IF svc = 0 THEN 0 ELSE IF d = "service" THEN svc ELSE 1],
     rank |-> 1, recovery |-> rec, synthetic |-> FALSE, ts |-> t]

\* Two alerts of one rule, two more of it a little later, their recovery, and an
\* alert of the same rule and service from an unmanaged source.
Arriving == {a1, a2, b1, b2, r1, u1}
Alerts ==
    [e \in Arriving |->
        CASE e = a1 -> Alert(1, "zabbix", 1, 1, 1, 1, FALSE)
          [] e = a2 -> Alert(2, "zabbix", 1, 1, 1, 1, FALSE)
          [] e = b1 -> Alert(3, "zabbix", 1, 1, 1, 2, FALSE)
          [] e = b2 -> Alert(4, "zabbix", 1, 1, 1, 2, FALSE)
          [] e = r1 -> Alert(5, "zabbix", 1, 1, 1, 2, TRUE)
          [] e = u1 -> Alert(6, "zabbix", 0, 1, 1, 1, FALSE)]

Minutes == [r \in 0 .. 3 |-> IF r = 3 THEN 0 ELSE 2]

\* Operators deciding; the same with a recovery under way; merging and splitting;
\* summaries at work; the same failure twice.
Deciding == [alerts |-> {a1, a2}, requests |-> 3, shapes |-> 0, runs |-> 0, crashes |-> 0]
Recovering == [alerts |-> {a1, a2, r1}, requests |-> 2, shapes |-> 0, runs |-> 0, crashes |-> 0]
Shaping == [alerts |-> {a1, a2, u1}, requests |-> 2, shapes |-> 2, runs |-> 0, crashes |-> 0]
Summarising == [alerts |-> {a1, a2}, requests |-> 1, shapes |-> 0, runs |-> 3, crashes |-> 1]
Recurring == [alerts |-> {a1, a2, b1, b2}, requests |-> 1, shapes |-> 0, runs |-> 0, crashes |-> 0]

AllSides == {Deciding, Recovering, Shaping, Summarising, Recurring}

ASSUME Sane

\* Two incidents and one split off, an operator and a run of the summary task.
Cases == INSTANCE Incidents WITH
    Events <- Arriving, Info <- Alerts, Slots <- {i1, i2}, SplitSlots <- {k1},
    Operators <- {o1}, Summarisers <- {s1}, Changes <- {"acknowledged", "resolved", "open"},
    Window <- 1, Quiet <- 1, AutoClose <- 1, MaxMembers <- 4, Floor <- 0,
    SummaryFloor <- 0, Sla <- Minutes, MaxTries <- 2, Lease <- 1, MaxNow <- 3, Limits <- AllSides

ASSUME Cases!Sane

------------------------------------------------------------------------------
caseState == <<now, arrived, member, inc, recur, trans, cards, scan, op, summ, ops, left,
               last, lost, overlap, shaped, died>>
CasesRest ==
    /\ now = "off" /\ arrived = "off" /\ member = "off" /\ inc = "off" /\ recur = "off"
    /\ trans = "off" /\ cards = "off" /\ scan = "off" /\ op = "off" /\ summ = "off"
    /\ ops = "off" /\ left = "off" /\ last = "off" /\ lost = "off" /\ overlap = "off"
    /\ shaped = "off" /\ died = "off"

MCInit ==
    /\ part \in {"incidents", "jobs"}
    /\ Init
    /\ part # "jobs" => spend = 0
    /\ IF part = "incidents" THEN Cases!Init ELSE CasesRest

MCVars == <<part, vars, caseState>>

MCNext ==
    \/ part = "incidents" /\ Cases!Next
       /\ UNCHANGED <<part, vars>>
    \/ part = "jobs" /\ Next
       /\ UNCHANGED <<part, caseState>>

MCSpec == MCInit /\ [][MCNext]_MCVars

ReplicaSymmetry == Permutations(Workers)

------------------------------------------------------------------------------
\* An incident counts the alerts it has and an ended one stays closed, unless two
\* transactions wrote the same of it from their own copies; a scan mixes no connections;
\* an undo keeps what it could see was decided since; and a failed attempt strands no
\* summary.
IncidentsHold ==
    part = "incidents" =>
        /\ Cases!TypeOK /\ Cases!CountAgrees /\ Cases!EndedIsClosed
        /\ Cases!ConnectionBoundary /\ Cases!UndoKeepsDecisions
        /\ Cases!SummaryNotStranded
==============================================================================
