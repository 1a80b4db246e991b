------------------------------ MODULE MCSweeps -------------------------------
(***************************************************************************)
(* What sweeps do in the background: the outbox scan that expires and      *)
(* retries rows, the sweep that turns maintenance windows into silences,   *)
(* the nightly retention, and the sweep that drafts knowledge from         *)
(* incidents.  They share no state a property relates, so a behaviour      *)
(* exercises one of them and the others rest.                              *)
(***************************************************************************)
EXTENDS ForwardOutbox, Sweeps, TLC

VARIABLES
    part,   \* the component the behaviour exercises
    \* ForwardOutbox
    digestRow, digestForwardStatus, digestRuleEnabled, digestFollowUps,
    digestAccepted, digestQueue, digestWorker, digestRequeues, digestCrashes

\* Every row has an event of its own; one forward rule; row 3 is the notice that row 1
\* was given up.
OwnEvent == [i \in Ids |-> {i}]
OneRule == [i \in Ids |-> "r"]
NoticeIsRow3 == [i \in Ids |-> IF i = 1 THEN {3} ELSE {}]
Backoff == [a \in 0 .. MaxAttempts + 1 |-> IF a <= 1 THEN 1 ELSE 2]

\* A window on Mondays, and one on two days in a row.
Mondays == [days |-> {1}, start |-> 1, len |-> 2]
TwoSchedules == {Mondays, [days |-> {1, 2}, start |-> 0, len |-> 2]}

\* What the retention policies tell apart.
Kind(importance, source, keyword) ==
    [importance |-> importance, source |-> source, keyword |-> keyword]
Kinds == {Kind("high", "chatty", FALSE), Kind("other", "chatty", FALSE), Kind("other", "any", TRUE)}
ByImportance == [high |-> 1]
BySource == [chatty |-> 0]

\* The two rows of a digest that are never too old.
Pair == {1, 2}
PairEvent == [i \in Pair |-> {i}]
PairRule == [i \in Pair |-> "r"]
PairNotices == [i \in Pair |-> {}]
PairBackoff == [a \in 0 .. 3 |-> 1]

\* The outbox with the two rows of a digest and no maximum age.
Digest == INSTANCE ForwardOutbox WITH
    Ids <- Pair, DigestIds <- Pair, FollowUpIds <- {}, NoticeFor <- PairNotices,
    Events <- Pair, EventsOf <- PairEvent, RuleOf <- PairRule, Workers <- {"w"},
    RetryDelay <- PairBackoff, MaxAttempts <- 2, MaxAge <- 0, DigestWait <- 1,
    MaxHold <- 0, row <- digestRow, forwardStatus <- digestForwardStatus,
    ruleEnabled <- digestRuleEnabled, followUps <- digestFollowUps,
    accepted <- digestAccepted, queue <- digestQueue, worker <- digestWorker,
    requeues <- digestRequeues, crashes <- digestCrashes

ASSUME SweepsSane

------------------------------------------------------------------------------
digestState == <<digestRow, digestForwardStatus, digestRuleEnabled, digestFollowUps,
                 digestAccepted, digestQueue, digestWorker, digestRequeues,
                 digestCrashes>>
DigestRests ==
    /\ digestRow = "off" /\ digestForwardStatus = "off" /\ digestRuleEnabled = "off"
    /\ digestFollowUps = "off" /\ digestAccepted = "off" /\ digestQueue = "off"
    /\ digestWorker = "off" /\ digestRequeues = "off" /\ digestCrashes = "off"
windowsState == <<window, muted, now, windowSweep, lifts, lateLifts, edits, touches>>
retentionState == <<today, event, outbox, kept, archive, since, purged, run, raced, lost,
                    deaths, children>>

MCInit ==
    /\ part \in {"outbox", "digest", "windows", "retention", "know"}
    /\ Init
    /\ IF part = "digest" THEN Digest!Init ELSE DigestRests
    /\ Silences!Init /\ Retention!Init /\ KBInit
    /\ part # "windows" => \A w \in Windows : window[w].schedule = Mondays

MCVars == <<part, vars, digestState, windowsState, retentionState, kbVars>>

MCNext ==
    \/ part = "outbox" /\ Next
       /\ UNCHANGED <<part, digestState, windowsState, retentionState, kbVars>>
    \/ part = "digest" /\ Digest!Next
       /\ UNCHANGED <<part, vars, windowsState, retentionState, kbVars>>
    \/ part = "windows" /\ Silences!Next
       /\ UNCHANGED <<part, vars, digestState, retentionState, kbVars>>
    \/ part = "retention" /\ Retention!Next
       /\ UNCHANGED <<part, vars, digestState, windowsState, kbVars>>
    \/ part = "know" /\ KBNext
       /\ UNCHANGED <<part, vars, digestState, windowsState, retentionState>>

\* The fairness of the parts, each where it is the one that runs.
MCFairness ==
    /\ WF_digestState(part = "digest" /\ Digest!WorkerStep("w"))
    /\ \A i \in Pair : SF_digestState(part = "digest" /\ Digest!TakeKick("w", i))
    /\ WF_digestState(part = "digest" /\ Digest!ScanStep(TRUE)) /\ WF_digestState(part = "digest" /\ Digest!Tick)
    /\ WF_windowsState(part = "windows" /\ Silences!ScheduledSweep)
    /\ \A s \in Silences!Sweepers : WF_windowsState(part = "windows" /\ (Silences!ReadLive(s) \/ Silences!Write(s) \/ Silences!Commit(s)))
    /\ \A r \in Runs : WF_retentionState(part = "retention" /\ Retention!Step(r))
    /\ WF_kbVars(part = "know" /\ Sweeping)

MCSpec == MCInit /\ [][MCNext]_MCVars /\ MCFairness

------------------------------------------------------------------------------
\* Every row of a digest is settled in the end, whatever kicks were lost: "the
\* scheduled scanner picks up missed records" (schedule_forward_outbox_many).
DigestSettles ==
    \A i \in Pair :
        (part = "digest" /\ digestRow[i].status \in Digest!Active)
            ~> (part = "digest" => digestRow[i].status \in Digest!Terminal)
==============================================================================
