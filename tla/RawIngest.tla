----------------------------- MODULE RawIngest -----------------------------
(***************************************************************************)
(* A webhook between the API's XADD and its final row: the task that       *)
(* processes it (services/operations/tasks.py), the record of a failed     *)
(* attempt (services/webhooks/ingest_failure.py), the delayed retry, the   *)
(* scan that re-arms overdue retries (services/webhooks/ingest_retry.py)   *)
(* and the operator's replay.                                              *)
(*                                                                         *)
(* The pipeline itself is one step with an arbitrary outcome.  Time is the *)
(* bit `due': whether next_retry_at has passed.                            *)
(***************************************************************************)
EXTENDS Naturals, FiniteSets

CONSTANTS
    Requests,        \* webhooks, by request_id
    Workers,         \* worker processes
    Scanners,        \* processes running run_raw_ingest_retry_scan
    NoMsg,           \* "no message" for an idle worker
    MaxRetries,      \* policy.max_retries
    Faults,          \* the kinds of fault that may happen
    MaxFaults,       \* bound: faults
    MaxDuplicates,   \* bound: redeliveries of an unacknowledged message
    MaxSheds,        \* bound: webhooks shed by storm back-pressure
    MaxReplays       \* bound: operator replays

FaultKinds ==
    {"crash", "lost_schedule", "after_commit", "record", "schedule", "enqueue", "dead_letter",
     "unhandled"}

ASSUME IngestAssumption ==
    /\ MaxRetries \in Nat
    /\ Faults \subseteq FaultKinds
    /\ MaxFaults \in Nat /\ MaxDuplicates \in Nat /\ MaxSheds \in Nat /\ MaxReplays \in Nat
    /\ NoMsg \notin [req : Requests, n : 0 .. MaxRetries]

VARIABLES
    event,       \* [Requests -> Event]   the webhook_events row of a request
    queue,       \* set of Msg            undelivered or reclaimed entries of the stream
    delayed,     \* set of Msg            one-shot schedules of schedule_webhook_ingest_retry
    worker,      \* [Workers -> ...]      the task each worker is running
    scan,        \* [Scanners -> ...]     rows a scan has selected and not enqueued yet
    accepted,    \* SUBSET Requests       requests answered 200
    shed,        \* SUBSET Requests       requests dropped by storm back-pressure
    unwritten,   \* SUBSET Requests       history: a write of the failure handler raised
    unhandled,   \* SUBSET Requests       history: an error passed the failure handler by, and no row
    rearmed,     \* [Requests -> Nat]     enqueues by a scan since the row last fell due
    used         \* counters of the bounded environment events

vars == <<event, queue, delayed, worker, scan, accepted, shed, unwritten, unhandled, rearmed, used>>

Msg == [req : Requests, n : 0 .. MaxRetries]

Event == [status : {"none", "retry", "dead_letter", "completed"},
          retryCount : 0 .. MaxRetries, due : BOOLEAN]

NoEvent == [status |-> "none", retryCount |-> 0, due |-> FALSE]

PC == {"idle", "process", "record", "schedule", "dead"}

Idle == [pc |-> "idle", msg |-> NoMsg]

Spend(k) == used' = [used EXCEPT ![k] = @ + 1]

\* One of the faults of kind k happens.
Fault(k) == k \in Faults /\ used.faults < MaxFaults /\ Spend("faults")

Goto(w, pc) == worker' = [worker EXCEPT ![w].pc = pc]

Finish(w) == worker' = [worker EXCEPT ![w] = Idle]

-----------------------------------------------------------------------------
Init ==
    /\ event = [r \in Requests |-> NoEvent]
    /\ queue = {} /\ delayed = {}
    /\ worker = [w \in Workers |-> Idle]
    /\ scan = [s \in Scanners |-> {}]
    /\ accepted = {} /\ shed = {} /\ unwritten = {} /\ unhandled = {}
    /\ rearmed = [r \in Requests |-> 0]
    /\ used = [faults |-> 0, duplicates |-> 0, sheds |-> 0, replays |-> 0]

\* The API: XADD, then 200.
Receive(r) ==
    /\ r \notin accepted
    /\ accepted' = accepted \cup {r}
    /\ queue' = queue \cup {[req |-> r, n |-> 0]}
    /\ UNCHANGED <<event, delayed, worker, scan, shed, unwritten, unhandled, rearmed, used>>

\* A worker reads an entry of the stream.
TakeMessage(w, m) ==
    /\ worker[w].pc = "idle"
    /\ m \in queue
    /\ queue' = queue \ {m}
    /\ worker' = [worker EXCEPT ![w] = [pc |-> "process", msg |-> m]]
    /\ UNCHANGED <<event, delayed, scan, accepted, shed, unwritten, unhandled, rearmed, used>>

\* save_webhook_data_in_session on the request's row: _resolve_request_id leaves
\* a completed row alone, the other paths fill the row with a completed event.
Completed(e) ==
    IF e.status = "completed" THEN e
    ELSE [status |-> "completed", retryCount |-> 0, due |-> FALSE]

\* Mutant: one retry too many.
RetriesLeft_OffByOne(n) == n <= MaxRetries

RetriesLeft(n) == n < MaxRetries

\* _handle_raw_webhook_failure: the branch on retry_policy.should_retry(err).
HandleFailure(w) ==
    \E retryable \in BOOLEAN :
        Goto(w, IF retryable /\ RetriesLeft(worker[w].msg.n) THEN "record" ELSE "dead")

\* handle_webhook_ingest commits, and the task ends; what happens between the
\* commit and the end (a broken connection, say) is an error like any other.
Succeed(w) ==
    /\ worker[w].pc = "process"
    /\ event' = [event EXCEPT ![worker[w].msg.req] = Completed(@)]
    /\ \/ Finish(w) /\ UNCHANGED used
       \/ Fault("after_commit") /\ HandleFailure(w)
    /\ UNCHANGED <<queue, delayed, scan, accepted, shed, unwritten, unhandled, rearmed>>

\* The gate sheds a storm: the task ends normally and writes nothing.
Suppress(w) ==
    /\ worker[w].pc = "process"
    /\ used.sheds < MaxSheds
    /\ Spend("sheds")
    /\ shed' = shed \cup {worker[w].msg.req}
    /\ Finish(w)
    /\ UNCHANGED <<event, queue, delayed, scan, accepted, unwritten, unhandled, rearmed>>

\* handle_webhook_ingest raises one of _TASK_PROCESSING_ERRORS before it commits.
Fail(w) ==
    /\ worker[w].pc = "process"
    /\ HandleFailure(w)
    /\ UNCHANGED <<event, queue, delayed, scan, accepted, shed, unwritten, unhandled, rearmed, used>>

\* An error of another class (a TypeError of the parser, a RedisError) in the pipeline
\* or in the failure handler ends the task; its message is acknowledged all the same.
Escape(w) ==
    LET r == worker[w].msg.req
    IN /\ worker[w].pc # "idle"
       /\ Fault("unhandled")
       /\ unhandled' = IF event[r].status = "none" THEN unhandled \cup {r} ELSE unhandled
       /\ Finish(w)
       /\ UNCHANGED <<event, queue, delayed, scan, accepted, shed, unwritten, rearmed>>

\* Mutant: the pending retry is recorded over a completed row.
Retrying_Unguarded(e, n) == [status |-> "retry", retryCount |-> n, due |-> FALSE]

\* record_raw_ingest_retry: insert the row, or update it unless it is completed.
Retrying(e, n) ==
    IF e.status = "completed" THEN e
    ELSE [status |-> "retry", retryCount |-> n, due |-> FALSE]

\* Mutant: nothing is recorded before the retry is scheduled.
RecordRetry_Skipped(w) ==
    /\ worker[w].pc = "record"
    /\ Goto(w, "schedule")
    /\ UNCHANGED <<event, queue, delayed, scan, accepted, shed, unwritten, unhandled, rearmed, used>>

\* The pending retry is recorded before it is scheduled; a failure to record it
\* is only logged.
RecordRetry(w) ==
    LET m == worker[w].msg
    IN /\ worker[w].pc = "record"
       /\ \/ /\ event' = [event EXCEPT ![m.req] = Retrying(@, m.n + 1)]
             /\ rearmed' = [rearmed EXCEPT ![m.req] = 0]
             /\ UNCHANGED <<unwritten, used>>
          \/ /\ Fault("record")
             /\ unwritten' = unwritten \cup {m.req}
             /\ UNCHANGED <<event, rearmed>>
       /\ Goto(w, "schedule")
       /\ UNCHANGED <<queue, delayed, scan, accepted, shed, unhandled>>

\* schedule_webhook_ingest_retry, under a fresh schedule id; when it fails the
\* webhook goes to the dead letters.
ScheduleRetry(w) ==
    LET m == worker[w].msg
    IN /\ worker[w].pc = "schedule"
       /\ \/ /\ delayed' = delayed \cup {[req |-> m.req, n |-> m.n + 1]}
             /\ Finish(w)
             /\ UNCHANGED used
          \/ Fault("schedule") /\ Goto(w, "dead") /\ UNCHANGED delayed
       /\ UNCHANGED <<event, queue, scan, accepted, shed, unwritten, unhandled, rearmed>>

\* record_raw_ingest_dead_letter: update the request's row whatever its status,
\* or insert one.  When it raises, the task fails and its message is
\* acknowledged all the same.
DeadLetter(w) ==
    LET m == worker[w].msg
    IN /\ worker[w].pc = "dead"
       /\ \/ /\ event' = [event EXCEPT ![m.req] = [status |-> "dead_letter",
                                                   retryCount |-> m.n, due |-> FALSE]]
             /\ UNCHANGED <<unwritten, used>>
          \/ /\ Fault("dead_letter")
             /\ unwritten' = unwritten \cup {m.req}
             /\ UNCHANGED event
       /\ Finish(w)
       /\ UNCHANGED <<queue, delayed, scan, accepted, shed, unhandled, rearmed>>

-----------------------------------------------------------------------------
(* The broker and the scheduler *)

\* xautoclaim: a message pending for too long goes to another consumer too.
Redeliver(w) ==
    /\ worker[w].pc # "idle"
    /\ used.duplicates < MaxDuplicates
    /\ Spend("duplicates")
    /\ queue' = queue \cup {worker[w].msg}
    /\ UNCHANGED <<event, delayed, worker, scan, accepted, shed, unwritten, unhandled, rearmed>>

\* A worker dies: its message is still pending, and is delivered again.
Crash(w) ==
    /\ worker[w].pc # "idle"
    /\ Fault("crash")
    /\ queue' = queue \cup {worker[w].msg}
    /\ Finish(w)
    /\ UNCHANGED <<event, delayed, scan, accepted, shed, unwritten, unhandled, rearmed>>

\* The scheduler sends a delayed task, or never does.
Fire(m) ==
    /\ m \in delayed
    /\ delayed' = delayed \ {m}
    /\ queue' = queue \cup {m}
    /\ UNCHANGED <<event, worker, scan, accepted, shed, unwritten, unhandled, rearmed, used>>

LoseSchedule(m) ==
    /\ m \in delayed
    /\ Fault("lost_schedule")
    /\ delayed' = delayed \ {m}
    /\ UNCHANGED <<event, queue, worker, scan, accepted, shed, unwritten, unhandled, rearmed>>

\* next_retry_at passes.  The lease of a scan (a minute at least) outlasts the
\* scan: it does not run out while the row is still to be enqueued.
FallDue(r) ==
    /\ event[r].status = "retry" /\ ~ event[r].due
    /\ \A s \in Scanners, m \in Msg : m.req = r => [m |-> m, leased |-> TRUE] \notin scan[s]
    /\ event' = [event EXCEPT ![r].due = TRUE]
    /\ rearmed' = [rearmed EXCEPT ![r] = 0]
    /\ UNCHANGED <<queue, delayed, worker, scan, accepted, shed, unwritten, unhandled, used>>

-----------------------------------------------------------------------------
(* The scan and the operator *)

\* Mutant: the scan leaves out the rows at their last retry.
Overdue_NotTheLast(e) == e.status = "retry" /\ e.due /\ e.retryCount < MaxRetries

Overdue(e) == e.status = "retry" /\ e.due

AsMsg(r) == [req |-> r, n |-> event[r].retryCount]

\* run_raw_ingest_retry_scan: SELECT the overdue rows.
ScanSelect(s) ==
    /\ scan[s] = {}
    /\ \E r \in Requests : Overdue(event[r])
    /\ scan' = [scan EXCEPT ![s] = {[m |-> AsMsg(r), leased |-> FALSE] :
                                      r \in {q \in Requests : Overdue(event[q])}}]
    /\ UNCHANGED <<event, queue, delayed, worker, accepted, shed, unwritten, unhandled, rearmed, used>>

\* Mutant: the lease is not taken.
ScanLease_None(s) ==
    /\ \E x \in scan[s] : ~ x.leased
    /\ scan' = [scan EXCEPT ![s] = {[x EXCEPT !.leased = TRUE] : x \in @}]
    /\ UNCHANGED <<event, queue, delayed, worker, accepted, shed, unwritten, unhandled, rearmed, used>>

\* ... push next_retry_at of those still overdue forward, and commit ...
ScanLease(s) ==
    /\ \E x \in scan[s] : ~ x.leased
    /\ scan' = [scan EXCEPT ![s] = {[x EXCEPT !.leased = TRUE] : x \in @}]
    /\ event' = [r \in Requests |->
                   IF \E x \in scan[s] : x.m.req = r THEN [event[r] EXCEPT !.due = FALSE]
                   ELSE event[r]]
    /\ UNCHANGED <<queue, delayed, worker, accepted, shed, unwritten, unhandled, rearmed, used>>

\* ... then enqueue every selected row, whether or not its lease was taken; a
\* failure to enqueue is only logged, and an error of another class ends the scan with
\* the rows still to come.
ScanEnqueue(s, x) ==
    /\ x \in scan[s] /\ x.leased
    /\ \/ /\ queue' = queue \cup {x.m}
          /\ rearmed' = [rearmed EXCEPT ![x.m.req] = @ + 1]
          /\ scan' = [scan EXCEPT ![s] = @ \ {x}]
          /\ UNCHANGED used
       \/ /\ Fault("enqueue")
          /\ scan' = [scan EXCEPT ![s] = @ \ {x}]
          /\ UNCHANGED <<queue, rearmed>>
       \/ /\ Fault("unhandled")
          /\ scan' = [scan EXCEPT ![s] = {}]
          /\ UNCHANGED <<queue, rearmed>>
    /\ UNCHANGED <<event, delayed, worker, accepted, shed, unwritten, unhandled>>

\* The operator replays a dead letter, or an event that looks stuck, with the
\* retries its row has counted.
Replay(r) ==
    /\ event[r].status \in {"dead_letter", "retry"}
    /\ used.replays < MaxReplays
    /\ Spend("replays")
    /\ queue' = queue \cup {AsMsg(r)}
    /\ UNCHANGED <<event, delayed, worker, scan, accepted, shed, unwritten, unhandled, rearmed>>

-----------------------------------------------------------------------------
WorkerStep(w) ==
    \/ Succeed(w)
    \/ Suppress(w)
    \/ Fail(w)
    \/ Escape(w)
    \/ RecordRetry(w)
    \/ ScheduleRetry(w)
    \/ DeadLetter(w)

ScanStep(s) ==
    \/ ScanSelect(s)
    \/ ScanLease(s)
    \/ \E x \in scan[s] : ScanEnqueue(s, x)

Next ==
    \/ \E r \in Requests : Receive(r) \/ FallDue(r) \/ Replay(r)
    \/ \E w \in Workers, m \in queue : TakeMessage(w, m)
    \/ \E w \in Workers : WorkerStep(w) \/ Redeliver(w) \/ Crash(w)
    \/ \E m \in delayed : Fire(m) \/ LoseSchedule(m)
    \/ \E s \in Scanners : ScanStep(s)

Spec == Init /\ [][Next]_vars

\* Workers run, the stream is read in order, time passes, the scheduler sends
\* what it has not lost, and the periodic scan keeps running.
Fairness ==
    /\ \A w \in Workers : WF_vars(WorkerStep(w))
    /\ \A m \in Msg : SF_vars(\E w \in Workers : TakeMessage(w, m))
    /\ \A m \in Msg : WF_vars(Fire(m))
    /\ \A r \in Requests : WF_vars(FallDue(r))
    /\ \A s \in Scanners : WF_vars(ScanStep(s))

FairSpec == Spec /\ Fairness

-----------------------------------------------------------------------------
(* Properties *)

\* Every variable keeps its type; in particular no message and no row counts
\* more retries than the policy allows (ingest_retry_count < policy.max_retries).
TypeOK ==
    /\ event \in [Requests -> Event]
    /\ queue \in SUBSET Msg
    /\ delayed \in SUBSET Msg
    /\ worker \in [Workers -> [pc : PC, msg : Msg \cup {NoMsg}]]
    /\ \A w \in Workers : worker[w].pc # "idle" => worker[w].msg \in Msg
    /\ \A w \in Workers : worker[w].pc \in {"record", "schedule"} => worker[w].msg.n < MaxRetries
    /\ scan \in [Scanners -> SUBSET [m : Msg, leased : BOOLEAN]]
    /\ accepted \in SUBSET Requests
    /\ shed \in SUBSET Requests
    /\ unwritten \in SUBSET Requests
    /\ unhandled \in SUBSET Requests
    /\ rearmed \in [Requests -> Nat]
    /\ used \in [{"faults", "duplicates", "sheds", "replays"} -> Nat]

\* Somebody will still work on the request: its message is in the stream or the
\* schedule, or in a worker's hands.
InFlight(r) ==
    \/ \E m \in queue \cup delayed : m.req = r
    \/ \E w \in Workers : worker[w].pc # "idle" /\ worker[w].msg.req = r

\* A webhook that was answered 200 and not shed is in flight or has a row, unless
\* the database refused the record of a failed attempt or the dead letter, or an error
\* passed the failure handler by before there was a row (all three are acknowledged
\* all the same).  This is why the pending retry is recorded before it is scheduled:
\* from then on no error, crash or lost schedule can lose the webhook.
NotLost ==
    \A r \in accepted \ (shed \cup unwritten \cup unhandled) : InFlight(r) \/ event[r].status # "none"

\* "After enqueue: at-least-once.  Failed Worker processing retries with backoff and
\* goes to dead-letter once exhausted" (docs/capabilities.md:142): whatever error the
\* processing failed with.
\* The code does not keep this: README, section 6.
AtLeastOnce ==
    \A r \in accepted \ (shed \cup unwritten) : InFlight(r) \/ event[r].status # "none"

\* A failed attempt never takes a completed event back to the retries: the copy
\* that lost the race finds the row completed.
RetryNeverReopens ==
    [][\A r \in Requests : event[r].status = "completed" => event'[r].status # "retry"]_vars

\* "Reprocessing one body is safe regardless" (run_raw_ingest_retry_scan): once an
\* event is completed, another copy of its message changes nothing.
\* The code does not keep this: README, section 6.
CompletedIsFinal ==
    [][\A r \in Requests : event[r].status = "completed" => event'[r].status = "completed"]_vars

\* "two scans racing ... do not both enqueue on the same tick"
\* (run_raw_ingest_retry_scan): one enqueue each time a row falls due.
OneRearm == \A r \in Requests : rearmed[r] <= 1

\* Every accepted webhook is completed, dead-lettered or shed in the end, unless
\* the database refused a write of the failure handler or an error passed it by before
\* there was a row; with a row the scan brings the webhook back.
EventuallySettled ==
    \A r \in Requests :
        (r \in accepted) ~> (event[r].status \in {"completed", "dead_letter"} \/ r \in shed \cup unwritten \cup unhandled)
=============================================================================
