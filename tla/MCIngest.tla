------------------------------ MODULE MCIngest -------------------------------
(***************************************************************************)
(* A webhook from its acceptance to its verdicts: the raw ingest with its  *)
(* retries, the gate that lets one task at a time work on an alert, and    *)
(* the deep analysis.  They share no state a property relates, so a        *)
(* behaviour exercises one of them and the others rest.                    *)
(***************************************************************************)
EXTENDS RawIngest, AlertGate, TLC

VARIABLES
    part,   \* the component the behaviour exercises
    \* DeepAnalysis
    rec, stab, tasks, poller, op, round, verdict, notices, trouble, seen, asked,
    budget

AnyFault == FaultKinds

\* Crashes, overruns and lost schedules of the deep analysis.
TwoFaults == {[faults |-> 2, retries |-> 0]}

\* One deep analysis, the two workers that poll for it, the scan and the operator.
Deep == INSTANCE DeepAnalysis WITH
    Records <- Requests, Pollers <- Workers, Gateways <- {"default"},
    Default <- "default", Masking <- FALSE, MaxText <- 2, Hits <- 2, MaxErrors <- 2,
    Degrade <- TRUE, Timeout <- 2, FirstDelay <- 1, MaxDelay <- 2, Multiplier <- 2,
    Lease <- 2, MaxAttempts <- 1, Budgets <- TwoFaults, Nobody <- NoMsg

ASSUME Deep!DeepAnalysisAssumption

\* The values of the threshold: no counter, one task inside, two.
ThresholdsToTry == {0, 1, 2}

ASSUME GateAssumption

------------------------------------------------------------------------------
deepState == <<rec, stab, tasks, poller, op, round, verdict, notices, trouble, seen,
               asked, budget>>
DeepRests ==
    /\ rec = "off" /\ stab = "off" /\ tasks = "off" /\ poller = "off" /\ op = "off"
    /\ round = "off" /\ verdict = "off" /\ notices = "off" /\ trouble = "off"
    /\ seen = "off" /\ asked = "off" /\ budget = "off"

MCInit ==
    /\ part \in {"ingest", "deep", "gate"}
    /\ Init
    /\ IF part = "deep" THEN Deep!Init ELSE DeepRests
    /\ GateInit
    /\ part # "gate" => threshold = 0

MCVars == <<part, vars, deepState, gateVars>>

MCNext ==
    \/ part = "ingest" /\ Next
       /\ UNCHANGED <<part, deepState, gateVars>>
    \/ part = "deep" /\ Deep!Next
       /\ UNCHANGED <<part, vars, gateVars>>
    \/ part = "gate" /\ GateNext
       /\ UNCHANGED <<part, vars, deepState>>

\* The fairness of the parts, each where it is the one that runs.
MCFairness ==
    /\ \A w \in Workers : WF_vars(part = "ingest" /\ WorkerStep(w))
    /\ \A m \in Msg : SF_vars(part = "ingest" /\ \E w \in Workers : TakeMessage(w, m))
    /\ \A m \in Msg : WF_vars(part = "ingest" /\ Fire(m))
    /\ \A r \in Requests : WF_vars(part = "ingest" /\ FallDue(r))
    /\ \A s \in Scanners : WF_vars(part = "ingest" /\ ScanStep(s))
    /\ \A r \in Requests : WF_deepState(part = "deep" /\ \E p \in Workers : Deep!Deliver(p, r))
    /\ \A p \in Workers : WF_deepState(part = "deep" /\ Deep!Poll(p))
    /\ \A p \in Workers : WF_deepState(part = "deep" /\ Deep!Overrun(p))
    /\ WF_deepState(part = "deep" /\ Deep!Retry) /\ WF_deepState(part = "deep" /\ Deep!Scan)
    /\ WF_deepState(part = "deep" /\ Deep!Tick)
    /\ WF_gateVars(part = "gate" /\ Tick) /\ WF_gateVars(part = "gate" /\ Recover)
    /\ \A w \in Handlers : WF_gateVars(part = "gate" /\ Acquire(w))
    /\ \A w \in Handlers : WF_gateVars(part = "gate" /\ GiveUp(w))
    /\ \A w \in Handlers : WF_gateVars(part = "gate" /\ Renew(w))
    /\ \A w \in Handlers : WF_gateVars(part = "gate" /\ Done(w))

MCSpec == MCInit /\ [][MCNext]_MCVars /\ MCFairness

------------------------------------------------------------------------------
\* A pending deep analysis is settled in the end, whatever tasks are lost: the scan
\* finds the row again and the time-out ends the polling.
DeepDone ==
    \A r \in Requests :
        (part = "deep" /\ rec[r].status = "pending")
            ~> (part = "deep" => rec[r].status # "pending")
==============================================================================
