--------------------------- MODULE ScheduledJobs ---------------------------
(***************************************************************************)
(* The periodic jobs: the best-effort leader lock every scheduled task     *)
(* takes (services/operations/tasks.py), and the job with the most to lose *)
(* from it, the periodic report, with the catch-up a worker runs when it   *)
(* starts and the alert on the monthly AI budget                           *)
(* (services/operations/periodic_report.py, scheduled_reports.py).         *)
(*                                                                         *)
(* One cadence, enabled and configured.  Time goes in ticks, Interval of   *)
(* them from one occurrence (fire) of the cadence to the next; only the    *)
(* latest occurrence matters to the code, so the last-sent marker is       *)
(* whether it covers that one.                                             *)
(***************************************************************************)
EXTENDS Naturals, FiniteSets

CONSTANTS
    Workers,      \* worker processes
    Interval,     \* ticks between two occurrences
    ClaimTTL,     \* ticks the claim of a catch-up lasts
    MaxRun,       \* bound: ticks one run takes
    MaxTier,      \* budget tiers, 2 in the code
    Attempts,     \* posts of one card before it is given up, 4 in the code
    Schedulers,   \* schedulers running, 1 as intended
    MaxFaults,    \* bound: faults in one occurrence
    MaxRestarts,  \* bound: orderly restarts in one occurrence
    None          \* "nobody holds the lock"

\* What the constants are: a run is bounded by no less than the claim of a
\* catch-up, and nobody is not a worker.
Sane ==
    /\ Interval \in Nat \ {0} /\ ClaimTTL \in Nat \ {0} /\ MaxRun \in Nat /\ ClaimTTL <= MaxRun + 1
    /\ MaxTier \in Nat /\ Attempts \in Nat \ {0} /\ Schedulers \in Nat \ {0} /\ MaxFaults \in Nat /\ MaxRestarts \in Nat
    /\ None \notin Workers

VARIABLES
    clock,       \* ticks since the occurrence
    queue,       \* dispatched tasks no worker has taken yet
    lock,        \* [Tasks -> [owner, left]]   the leader locks
    job,         \* [Workers -> Job]
    marked,      \* the last-sent marker covers the occurrence
    claim,       \* what is left of the claim of its catch-up
    tries,       \* [Workers -> Nat]   posts of its card that got no success
    sent,        \* history: sends of the report that succeeded since the occurrence
    regular,     \* history: those of them of scheduled runs
    echoes,      \* history: posts of it that reached the group, their answers lost
    carried,     \* history: a run of an earlier occurrence was still under way in this one
    missed,      \* history: the last occurrence passed without a report
    calm,        \* history: full occurrences since something last went wrong
    spend,       \* the highest budget tier the month's spend has crossed: 0 none, 1 warning, 2 critical
    tiers,       \* claimed budget tiers of the month
    told,        \* [tiers -> Nat]   history: sends of its alert that succeeded
    echoed,      \* [tiers -> Nat]   history: posts that reached the group, their answers lost
    unsent,      \* [tiers -> Nat]   history: sends of its alert that failed or crashed
    faults, restarts

vars == <<clock, queue, lock, job, tries, marked, claim, sent, regular, echoes, carried, missed, calm,
          spend, tiers, told, echoed, unsent, faults, restarts>>

reportVars == <<marked, claim, sent, regular, echoes>>
historyVars == <<carried, missed, calm>>
budgetVars == <<spend, tiers, told, echoed, unsent>>

LockTTL == 2 * Interval

\* scheduled_daily_report runs two jobs one after the other, each under a lock
\* of its own.
Tasks == {"report", "budget"}

Job == [pc : {"idle", "run", "mark", "next", "budget", "alert", "leave", "check", "claim"},
        task : Tasks, kind : {"regular", "catchup"}, old : BOOLEAN, ran : 0 .. MaxRun, tier : 0 .. MaxTier]

NoJob == [pc |-> "idle", task |-> "report", kind |-> "regular", old |-> FALSE, ran |-> 0, tier |-> 0]
Free == [owner |-> None, left |-> 0]

Init ==
    /\ clock = 0 /\ queue = 0
    /\ lock = [t \in Tasks |-> Free]
    /\ job = [w \in Workers |-> NoJob]
    /\ marked = TRUE /\ claim = 0
    /\ tries = [w \in Workers |-> 0]
    /\ sent = 1 /\ regular = 1 /\ echoes = 0
    /\ carried = FALSE /\ missed = FALSE /\ calm = 2
    /\ spend \in 0 .. MaxTier /\ tiers = {}
    /\ told = [t \in 1 .. MaxTier |-> 0] /\ echoed = [t \in 1 .. MaxTier |-> 0]
    /\ unsent = [t \in 1 .. MaxTier |-> 0]
    /\ faults = 0 /\ restarts = 0

\* Something goes wrong; it is remembered for two full occurrences.
Fault == faults < MaxFaults /\ faults' = faults + 1 /\ calm' = 0

Step(w, pc) == job' = [job EXCEPT ![w].pc = pc]

-----------------------------------------------------------------------------
(* _run_scheduled and the leader lock *)

\* _scheduled_task_leader: SET NX EX for twice the interval; a job that finds
\* the lock taken, or Redis away, is skipped.
Acquire(w, t, running, skipped) ==
    \/ /\ lock[t].owner = None
       /\ lock' = [lock EXCEPT ![t] = [owner |-> w, left |-> LockTTL]]
       /\ job' = [job EXCEPT ![w] = [NoJob EXCEPT !.pc = running, !.task = t]]
       /\ UNCHANGED <<faults, calm>>
    \/ /\ lock[t].owner # None
       /\ job' = [job EXCEPT ![w] = [NoJob EXCEPT !.pc = skipped]]
       /\ UNCHANGED <<lock, faults, calm>>
    \/ /\ Fault
       /\ job' = [job EXCEPT ![w] = [NoJob EXCEPT !.pc = skipped]]
       /\ UNCHANGED lock

\* A worker takes a dispatched scheduled_*_report task ...
StartReport(w) ==
    /\ job[w].pc = "idle" /\ queue > 0
    /\ queue' = queue - 1
    /\ Acquire(w, "report", "run", "next")
    /\ UNCHANGED <<clock, tries, reportVars, carried, missed, budgetVars, restarts>>

\* ... and goes on to the budget.
StartBudget(w) ==
    /\ job[w].pc = "next"
    /\ Acquire(w, "budget", "budget", "idle")
    /\ UNCHANGED <<clock, tries, queue, reportVars, carried, missed, budgetVars, restarts>>

ReleaseAlways(w, t) == lock' = [lock EXCEPT ![t] = Free]

\* The release at the end of _scheduled_task_leader: the Lua script deletes
\* the key only while it holds this run's token.
Release(w, t) == lock' = IF lock[t].owner = w THEN [lock EXCEPT ![t] = Free] ELSE lock

\* The job ends; a release that fails is suppressed.
Leave(w) ==
    /\ job[w].pc = "leave"
    /\ job' = [job EXCEPT ![w] = [NoJob EXCEPT !.pc = IF job[w].task = "report" THEN "next" ELSE "idle"]]
    /\ \/ Release(w, job[w].task) /\ UNCHANGED <<faults, calm>>
       \/ Fault /\ UNCHANGED lock
    /\ UNCHANGED <<clock, tries, queue, reportVars, carried, missed, budgetVars, restarts>>

\* Where a run goes from the report.
AfterReport(w) == IF job[w].kind = "regular" THEN "leave" ELSE "idle"

-----------------------------------------------------------------------------
(* generate_and_send_report *)

\* A post of _send_report_with_retry that got no success is followed by the next ...
Again(w) == tries[w] + 1 < Attempts /\ tries' = [tries EXCEPT ![w] = @ + 1]

\* ... unless it was the last; or (echo: the group took it, its answer was lost)
\* the answer said that no retry would help.
GiveUp(w, echo) == (tries[w] + 1 = Attempts \/ ~echo) /\ tries' = [tries EXCEPT ![w] = 0]

\* The statistics are read and the card is posted; a daily report on a quiet
\* window needs no card.  A post carries no key of idempotency, so one whose
\* answer was lost is posted again.  A failed send records no marker.
SendReport(w) ==
    /\ job[w].pc = "run"
    /\ \/ /\ sent' = sent + 1
          /\ regular' = IF job[w].kind = "regular" THEN regular + 1 ELSE regular
          /\ Step(w, "mark") /\ tries' = [tries EXCEPT ![w] = 0]
          /\ UNCHANGED <<echoes, faults, calm>>
       \/ /\ Fault
          /\ echoes' \in {echoes, echoes + 1}
          /\ \/ Again(w) /\ UNCHANGED job
             \/ GiveUp(w, echoes' > echoes) /\ Step(w, AfterReport(w))
          /\ UNCHANGED <<sent, regular>>
    /\ UNCHANGED <<clock, queue, lock, marked, claim, carried, missed, budgetVars, restarts>>

MarkAnyway(w) ==
    /\ job[w].pc \in {"run", "mark"}
    /\ marked' = TRUE
    /\ Step(w, AfterReport(w))
    /\ UNCHANGED <<clock, queue, lock, tries, claim, sent, regular, echoes, historyVars, budgetVars, faults, restarts>>

\* _record_report_sent: a scheduled run stamps the present, a catch-up its
\* occurrence, over whatever is there; a Redis error is swallowed.
RecordReportSent(w) ==
    /\ job[w].pc = "mark"
    /\ Step(w, AfterReport(w))
    /\ \/ /\ marked' = (job[w].kind = "regular" \/ ~job[w].old)
          /\ UNCHANGED <<faults, calm>>
       \/ Fault /\ UNCHANGED marked
    /\ UNCHANGED <<clock, queue, lock, tries, claim, sent, regular, echoes, carried, missed, budgetVars, restarts>>

-----------------------------------------------------------------------------
(* run_report_catchup *)

\* A worker starts, after an orderly stop or a crash that takes its job along
\* (but not the lock it held): the catch-up is the first thing it runs.
Restart(w) ==
    /\ IF job[w].pc = "idle"
       THEN restarts < MaxRestarts /\ restarts' = restarts + 1 /\ UNCHANGED <<faults, calm>>
       ELSE Fault /\ UNCHANGED restarts
    /\ job' = [job EXCEPT ![w] = [NoJob EXCEPT !.pc = "check", !.kind = "catchup"]]
    /\ tries' = [tries EXCEPT ![w] = 0]
    /\ unsent' = IF job[w].pc = "alert" THEN [unsent EXCEPT ![job[w].tier] = @ + 1] ELSE unsent
    /\ UNCHANGED <<clock, queue, lock, reportVars, carried, missed, spend, tiers, told, echoed>>

\* The marker of the latest occurrence is looked up; an unreadable one is none.
LastSentFire(w) ==
    /\ job[w].pc = "check"
    /\ \/ Step(w, IF marked THEN "idle" ELSE "claim") /\ UNCHANGED <<faults, calm>>
       \/ Fault /\ Step(w, "claim")
    /\ UNCHANGED <<clock, queue, lock, tries, reportVars, carried, missed, budgetVars, restarts>>

ClaimUnchecked(w) ==
    /\ job[w].pc = "claim"
    /\ claim' = ClaimTTL
    /\ Step(w, "run")
    /\ UNCHANGED <<clock, queue, lock, tries, marked, sent, regular, echoes, historyVars, budgetVars, faults, restarts>>

\* _claim_catchup: one process per occurrence and hour; the claim of an
\* occurrence that has passed meanwhile holds back nobody else.
ClaimCatchup(w) ==
    /\ job[w].pc = "claim"
    /\ \/ /\ claim = 0 \/ job[w].old
          /\ claim' = IF job[w].old THEN claim ELSE ClaimTTL
          /\ Step(w, "run")
          /\ UNCHANGED <<faults, calm>>
       \/ /\ claim > 0 /\ ~job[w].old
          /\ Step(w, "idle")
          /\ UNCHANGED <<claim, faults, calm>>
       \/ /\ Fault
          /\ Step(w, "idle")
          /\ UNCHANGED claim
    /\ UNCHANGED <<clock, queue, lock, tries, marked, sent, regular, echoes, carried, missed, budgetVars, restarts>>

-----------------------------------------------------------------------------
(* check_ai_cost_budget *)

ClaimHighest(w) ==
    /\ job[w].pc = "budget"
    /\ job' = [job EXCEPT ![w].pc = IF spend > 0 THEN "alert" ELSE "leave", ![w].tier = spend]
    /\ tiers' = IF spend > 0 THEN tiers \cup {spend} ELSE tiers
    /\ UNCHANGED <<clock, queue, lock, tries, reportVars, historyVars, spend, told, echoed, unsent, faults, restarts>>

\* The highest tier crossed is claimed for the month (_claim_budget_tier),
\* unless it is taken or Redis is away.
ClaimBudgetTier(w) ==
    /\ job[w].pc = "budget"
    /\ \/ /\ spend \in (1 .. MaxTier) \ tiers
          /\ tiers' = tiers \cup {spend}
          /\ job' = [job EXCEPT ![w].pc = "alert", ![w].tier = spend]
          /\ UNCHANGED <<faults, calm>>
       \/ /\ spend \notin (1 .. MaxTier) \ tiers
          /\ Step(w, "leave")
          /\ UNCHANGED <<tiers, faults, calm>>
       \/ /\ Fault
          /\ Step(w, "leave")
          /\ UNCHANGED tiers
    /\ UNCHANGED <<clock, queue, lock, tries, reportVars, carried, missed, spend, told, echoed, unsent, restarts>>

\* The alert is sent after its claim, post by post like a report; a failure
\* does not give the claim back.
SendBudgetAlert(w) ==
    LET t == job[w].tier
        over == [job EXCEPT ![w].pc = "leave", ![w].tier = 0]
    IN  /\ job[w].pc = "alert"
        /\ \/ /\ told' = [told EXCEPT ![t] = @ + 1]
              /\ job' = over /\ tries' = [tries EXCEPT ![w] = 0]
              /\ UNCHANGED <<echoed, unsent, faults, calm>>
           \/ /\ Fault
              /\ \E echo \in BOOLEAN :
                    /\ echoed' = IF echo THEN [echoed EXCEPT ![t] = @ + 1] ELSE echoed
                    /\ \/ Again(w) /\ UNCHANGED <<job, unsent>>
                       \/ GiveUp(w, echo) /\ job' = over /\ unsent' = [unsent EXCEPT ![t] = @ + 1]
              /\ UNCHANGED told
        /\ UNCHANGED <<clock, queue, lock, reportVars, carried, missed, spend, tiers, restarts>>

-----------------------------------------------------------------------------
(* Time *)

Active(w) == job[w].pc # "idle"

Aged(fire) ==
    [w \in Workers |->
        IF Active(w) THEN [job[w] EXCEPT !.ran = @ + 1, !.old = @ \/ fire] ELSE job[w]]

Worn == [t \in Tasks |-> IF lock[t].left > 1 THEN [lock[t] EXCEPT !.left = @ - 1] ELSE Free]

\* Tasks are taken as they come, the claim follows its lookup at once and
\* outlives the catch-up (an hour, against a minute), and a run ends some time.
TimeMayPass ==
    /\ queue = 0
    /\ \A w \in Workers : Active(w) =>
          /\ job[w].pc \notin {"claim", "next"}
          /\ job[w].ran < IF job[w].kind = "regular" THEN MaxRun ELSE ClaimTTL - 1

Tick ==
    /\ TimeMayPass /\ clock < Interval - 1
    /\ clock' = clock + 1
    /\ lock' = Worn /\ job' = Aged(FALSE)
    /\ claim' = IF claim > 0 THEN claim - 1 ELSE 0
    /\ UNCHANGED <<queue, tries, marked, sent, regular, echoes, historyVars, budgetVars, faults, restarts>>

\* The next occurrence: every scheduler dispatches its task, or none is up.
\* A run that has taken a whole interval is a disturbance of its own.  The
\* month's spend has grown meanwhile.
Fire ==
    /\ TimeMayPass /\ clock = Interval - 1
    /\ clock' = 0
    /\ lock' = Worn /\ job' = Aged(TRUE)
    /\ marked' = FALSE /\ claim' = 0 /\ sent' = 0 /\ regular' = 0 /\ echoes' = 0
    /\ missed' = (sent = 0)
    /\ carried' = (\E w \in Workers : Active(w))
    /\ faults' = 0 /\ restarts' = 0
    /\ \/ queue' = Schedulers
          /\ calm' = IF carried' THEN 0 ELSE IF calm < 3 THEN calm + 1 ELSE calm
       \/ queue' = 0 /\ calm' = 0
    /\ spend' \in spend .. MaxTier
    /\ UNCHANGED <<tries, tiers, told, echoed, unsent>>

Next ==
    \/ \E w \in Workers :
          \/ StartReport(w) \/ StartBudget(w) \/ SendReport(w) \/ RecordReportSent(w) \/ Leave(w) \/ Restart(w)
          \/ LastSentFire(w) \/ ClaimCatchup(w) \/ ClaimBudgetTier(w) \/ SendBudgetAlert(w)
    \/ Tick \/ Fire

Spec == Init /\ [][Next]_vars

-----------------------------------------------------------------------------
TypeOK ==
    /\ clock \in 0 .. Interval - 1 /\ queue \in 0 .. Schedulers
    /\ lock \in [Tasks -> [owner : Workers \cup {None}, left : 0 .. LockTTL]]
    /\ job \in [Workers -> Job]
    /\ marked \in BOOLEAN /\ claim \in 0 .. ClaimTTL
    /\ tries \in [Workers -> 0 .. Attempts - 1]
    /\ sent \in Nat /\ regular \in Nat /\ echoes \in 0 .. faults
    /\ carried \in BOOLEAN /\ missed \in BOOLEAN /\ calm \in 0 .. 3
    /\ spend \in 0 .. MaxTier /\ tiers \subseteq 1 .. MaxTier
    /\ told \in [1 .. MaxTier -> Nat] /\ echoed \in [1 .. MaxTier -> Nat] /\ unsent \in [1 .. MaxTier -> Nat]
    /\ faults \in 0 .. MaxFaults /\ restarts \in 0 .. MaxRestarts

Leading(w) == job[w].kind = "regular" /\ job[w].pc \notin {"idle", "next"}

\* Two workers run the job at once only while one of them has outlived the
\* lock it took: a late release never takes away a successor's lock (the
\* token of _RELEASE_IF_OWNER_LUA).
OneLeader ==
    \A v, w \in Workers : (v # w /\ Leading(v) /\ Leading(w) /\ job[v].task = job[w].task) => \E u \in {v, w} : job[u].ran >= LockTTL

\* The marker stands for a report the group answered after the occurrence
\* fell due, unless a run of an earlier occurrence was still under way ("the
\* marker means this occurrence reached the group").
MarkerMeansSent == marked => sent > 0 \/ carried

\* An occurrence passes without a report only within two occurrences of what
\* went wrong: a crashed leader's lock (twice the interval) costs that many
\* and no more.
MissExplained == missed => calm <= 2

\* With one scheduler and nothing going wrong but answers lost, at most two
\* sends of an occurrence succeed, that of its scheduled run and that of one
\* catch-up, however many workers start meanwhile ("repeated restarts don't
\* re-send"); the group may have got a card more for each lost answer.
AtMostTwice == (faults = echoes /\ ~carried /\ Schedulers = 1) => sent <= 2

\* A claimed budget tier is sent once in the month, in no more posts than one
\* send has; if the send did not succeed, it failed or its process died, and
\* it is not made up for.
TierSentOnce ==
    \A t \in 1 .. MaxTier :
        /\ told[t] + unsent[t] <= 1
        /\ told[t] + echoed[t] <= Attempts
        /\ t \in tiers /\ (\A w \in Workers : job[w].tier # t) => told[t] + unsent[t] = 1

\* All of it, together.
JobsHold ==
    TypeOK /\ OneLeader /\ MarkerMeansSent /\ MissExplained /\ AtMostTwice /\ TierSentOnce

\* However many schedulers run, the scheduled runs send an occurrence once
\* ("the leader lock prevents duplicate sends if more than one scheduler is
\* ever running").
\* The code does not keep this: README, section 6.
OneScheduledReport == (faults = 0 /\ ~carried) => regular <= 1

\* A budget tier is alerted on once ("Each tier fires at most once per month").
\* The code does not keep this: README, section 6.
TierToldOnce == \A t \in 1 .. MaxTier : told[t] + echoed[t] <= 1

\* A report reaches the group once for each send that succeeds.
\* The code does not keep this: README, section 6.
NoReportRepeated == sent > 0 => echoes = 0
=============================================================================
