--------------------------- MODULE ForwardOutbox ---------------------------
(***************************************************************************)
(* The forwarding outbox (services/forwarding/outbox*.py): the table of    *)
(* delivery intents, the workers that claim, deliver and finalize them, the *)
(* scheduled scan that recovers lost and stale work, the operator's         *)
(* requeue, and the broker that carries the kicks.                          *)
(*                                                                          *)
(* Time is relative.  A row stores no clock value but what the code         *)
(* compares with the clock: `wait' is the time left until next_attempt_at,  *)
(* `idle' the time since updated_at of a row in "processing", `age' the     *)
(* time since coalesce(digest_window_end, created_at).  Each saturates just *)
(* past the last value the code can tell apart.                             *)
(*                                                                          *)
(* One step of a worker is one database transaction or one remote call.     *)
(* The failure finalizer loads the row and writes it back without a lock,   *)
(* so it is two steps.                                                      *)
(***************************************************************************)
EXTENDS Integers, FiniteSets

CONSTANTS
    Ids,          \* outbox rows, by primary key
    DigestIds,    \* the rows of one digest group (one digest_key)
    FollowUpIds,  \* rows of the deep_analysis channel
    NoticeFor,    \* NoticeFor[i]: the outbox_exhausted rows raised for i
    Events,       \* webhook events
    EventsOf,     \* EventsOf[i]: webhook_event_id and original_event_id of i
    Rules,        \* forward rules
    RuleOf,       \* RuleOf[i]: forward_rule_id of i
    Workers,      \* worker processes, and the API process for wait=True
    NoJob,        \* "no row" for an idle worker
    MaxAttempts,  \* policy.max_attempts
    RetryDelay,   \* RetryDelay[a]: policy.delay_for_attempt(a)
    StaleAfter,   \* policy.stale_processing_threshold_seconds
    MaxAge,       \* policy.max_delivery_age_seconds, 0 disables expiry
    DigestWait,   \* time from creation of a digest row to its window's end
    GroupMax,     \* DIGEST_GROUP_MAX_RECORDS
    ScanLimit,    \* limit of run_forward_outbox_scan
    MaxHold,      \* longest time a live worker spends between claim and finalize
    MaxRequeues,  \* bound: operator requeues
    MaxCrashes    \* bound: worker crashes

NoticeIds == UNION {NoticeFor[i] : i \in Ids}

\* attempts is only compared with max_attempts: one value past it is enough.
AttemptsCap == MaxAttempts + 1

ASSUME IdsAssumption ==
    /\ Ids \subseteq Nat
    /\ DigestIds \subseteq Ids
    /\ FollowUpIds \subseteq Ids \ DigestIds
    /\ NoticeFor \in [Ids -> SUBSET (Ids \ DigestIds)]
    /\ \A n \in NoticeIds : NoticeFor[n] = {}
    /\ EventsOf \in [Ids -> SUBSET Events]
    /\ RuleOf \in [Ids -> Rules]
    /\ NoJob \notin Ids

ASSUME PolicyAssumption ==
    /\ MaxAttempts \in Nat \ {0}
    /\ RetryDelay \in [0 .. MaxAttempts + 1 -> Nat]
    /\ StaleAfter \in Nat \ {0}
    /\ MaxAge \in Nat
    /\ DigestWait \in Nat
    /\ GroupMax \in Nat \ {0}
    /\ ScanLimit \in Nat \ {0}
    /\ MaxHold \in Nat
    /\ MaxRequeues \in Nat
    /\ MaxCrashes \in Nat

VARIABLES
    row,            \* [Ids -> Row]            table forward_outbox
    forwardStatus,  \* [Events -> ...]         webhook_events.forward_status
    ruleEnabled,    \* [Rules -> BOOLEAN]      forward_rules.enabled
    followUps,      \* [Ids -> Nat]            DeepAnalysis rows spawned by a row
    accepted,       \* SUBSET Ids              rows whose acceptance the remote end has confirmed
    queue,          \* SUBSET Ids              kicks in the broker or the scheduler
    worker,         \* [Workers -> Worker]     what each worker is doing
    requeues,       \* Nat                     operator requeues so far
    crashes         \* Nat                     worker crashes so far

vars == <<row, forwardStatus, ruleEnabled, followUps, accepted, queue,
          worker, requeues, crashes>>

-----------------------------------------------------------------------------
(* Rows *)

Active == {"pending", "retrying", "processing"}
Terminal == {"sent", "expired", "exhausted"}
Status == {"none"} \cup Active \cup Terminal

Row == [status : Status, attempts : 0 .. AttemptsCap, wait : Nat,
        idle : 0 .. StaleAfter + 1, age : Int]

NoRow == [status |-> "none", attempts |-> 0, wait |-> 0, idle |-> 0, age |-> 0]

\* Mutant: the age of a digest row counts from its creation.
NewRow_AgeFromCreation(i) ==
    [status |-> "pending", attempts |-> 0, idle |-> 0, age |-> 0,
     wait |-> IF i \in DigestIds THEN DigestWait ELSE 0]

\* A new row: due now, or, in a digest, when its window closes.  Its age counts
\* from the end of that window.
NewRow(i) ==
    LET due == IF i \in DigestIds THEN DigestWait ELSE 0
    IN [status |-> "pending", attempts |-> 0, wait |-> due, idle |-> 0, age |-> 0 - due]

\* Mutant: the claim does not ask whether another worker has the row.
Claimable_AnyActive(r) == r.status \in Active /\ r.wait = 0

Claimable(r) == r.status \in {"pending", "retrying"} /\ r.wait = 0

TooOld(r) == MaxAge > 0 /\ r.age > MaxAge

\* Mutants: recovery without the threshold, and no recovery at all.
Stale_NoThreshold(r) == r.status = "processing"
Stale_Never(r) == FALSE

Stale(r) == r.status = "processing" /\ r.idle > StaleAfter

Claimed(r) ==
    [r EXCEPT !.status = "processing", !.idle = 0,
              !.attempts = IF @ < AttemptsCap THEN @ + 1 ELSE @]

Expired(r) == [r EXCEPT !.status = "expired", !.wait = 0, !.idle = 0]

Sent(r) == [r EXCEPT !.status = "sent", !.idle = 0]

Exhausted(r) == [r EXCEPT !.status = "exhausted", !.wait = 0, !.idle = 0]

RecoveredStale(r) == [r EXCEPT !.status = "retrying", !.wait = 0, !.idle = 0]

Requeued(r) ==
    [r EXCEPT !.status = "retrying", !.wait = 0, !.idle = 0, !.attempts = 0]

\* Mutant: siblings are due one unit before their leader.
Parked_OneEarly(r, wait) == [r EXCEPT !.status = "pending", !.wait = wait - 1, !.idle = 0]

Parked(r, wait) == [r EXCEPT !.status = "pending", !.wait = wait, !.idle = 0]

\* The rows of events in S get forward_status s.
Marked(S, s) ==
    [e \in Events |-> IF \E i \in S : e \in EventsOf[i] THEN s ELSE forwardStatus[e]]

-----------------------------------------------------------------------------
(* Workers *)

PC == {"idle", "siblings", "deliver", "sentLeader", "sentSiblings",
       "failRead", "failWrite", "notify", "park"}

Results == {"none", "success", "pending", "failed", "permanent", "quarantine"}

Worker == [pc : PC, job : Ids \cup {NoJob}, siblings : SUBSET Ids,
           result : Results, seen : Status, seenAttempts : 0 .. AttemptsCap,
           hold : 0 .. MaxHold]

Idle == [pc |-> "idle", job |-> NoJob, siblings |-> {}, result |-> "none",
         seen |-> "none", seenAttempts |-> 0, hold |-> 0]

\* The rows a worker in state u has claimed and not finalized yet: its job until
\* the job's finalizer has run, its siblings until theirs have.
Held(u) ==
    {i \in Ids : \/ i = u.job /\ u.pc \in {"siblings", "deliver", "sentLeader",
                                           "failRead", "failWrite"}
                 \/ i \in u.siblings /\ u.pc \in {"deliver", "sentLeader", "sentSiblings",
                                                  "failRead", "failWrite", "notify", "park"}}

Holds(w) == Held(worker[w])

Goto(w, pc) == worker' = [worker EXCEPT ![w].pc = pc]

Finish(w) == worker' = [worker EXCEPT ![w] = Idle]

-----------------------------------------------------------------------------
Init ==
    /\ row = [i \in Ids |-> NoRow]
    /\ forwardStatus = [e \in Events |-> "none"]
    /\ ruleEnabled = [r \in Rules |-> TRUE]
    /\ followUps = [i \in Ids |-> 0]
    /\ accepted = {}
    /\ queue = {}
    /\ worker = [w \in Workers |-> Idle]
    /\ requeues = 0
    /\ crashes = 0

\* schedule_forward_outbox_many and _retry: every kick may fail, and a failed
\* one is only logged.  A delayed kick is a queue entry too: delivered before
\* its row is due it claims nothing, which is a lost kick.
Kick(S) == \E K \in SUBSET S : queue' = queue \cup K

\* create_outbox_records: insert under the UNIQUE idempotency key, or adopt
\* the row that already carries it.
Created(S) ==
    [i \in Ids |-> IF i \in S /\ row[i].status = "none" THEN NewRow(i) ELSE row[i]]

\* deferred_digest_kicks: of the rows whose window is still open only the one
\* that opened the group is kicked.
OpensGroup(i) ==
    \A j \in DigestIds : row[j].status # "none" => i <= j

Create(i) ==
    /\ i \notin NoticeIds
    /\ row' = Created({i})
    /\ Kick({j \in {i} : j \in DigestIds /\ row'[j].wait > 0 => OpensGroup(j)})
    /\ UNCHANGED <<forwardStatus, ruleEnabled, followUps, accepted, worker,
                   requeues, crashes>>

-----------------------------------------------------------------------------
(* One delivery: claim, send, finalize *)

\* _claim_outbox: expire the row if it is too old, else take it if it is due.
ClaimOutbox(w, i) ==
    LET r == row[i]
        claimed == ~ TooOld(r) /\ Claimable(r)
    IN /\ row' = [row EXCEPT ![i] =
                    IF r.status \in {"pending", "retrying"} /\ TooOld(r) THEN Expired(r)
                    ELSE IF claimed THEN Claimed(r) ELSE r]
       /\ worker' = IF claimed
                      THEN [worker EXCEPT ![w] =
                              [Idle EXCEPT !.job = i,
                                           !.pc = IF i \in DigestIds THEN "siblings"
                                                  ELSE "deliver"]]
                      ELSE worker
       /\ UNCHANGED <<forwardStatus, ruleEnabled, followUps, accepted, requeues, crashes>>

\* process_forward_outbox_by_id: a worker takes a kick off the broker.
TakeKick(w, i) ==
    /\ worker[w].pc = "idle"
    /\ i \in queue
    /\ queue' = queue \ {i}
    /\ ClaimOutbox(w, i)

\* forward_notification with wait=True: the API process delivers at once the
\* row it has just created or adopted.
DeliverNow(w, i) ==
    /\ worker[w].pc = "idle"
    /\ row[i].status # "none"
    /\ ClaimOutbox(w, i)
    /\ UNCHANGED queue

\* _claim_digest_siblings: one conditional UPDATE takes every due row of the
\* leader's group, lowest ids first, up to the size of a digest.
ClaimSiblings(w) ==
    LET due == {j \in DigestIds \ {worker[w].job} : Claimable(row[j])}
    IN /\ worker[w].pc = "siblings"
       /\ \E S \in SUBSET due :
            /\ Cardinality(S) = IF Cardinality(due) < GroupMax THEN Cardinality(due)
                                ELSE GroupMax - 1
            /\ \A s \in S, d \in due \ S : s < d
            /\ row' = [j \in Ids |-> IF j \in S THEN Claimed(row[j]) ELSE row[j]]
            /\ worker' = [worker EXCEPT ![w].pc = "deliver", ![w].siblings = S]
       /\ UNCHANGED <<forwardStatus, ruleEnabled, followUps, accepted, queue,
                      requeues, crashes>>

\* Mutant: every answer that is not retryable counts as delivered.
IsForwardSuccess_AnyAnswer(r) == r # "failed"

IsForwardSuccess(r) == r \in {"success", "pending"}

\* channel.deliver / deliver_digest: the remote call, outside any transaction.
Deliver(w) ==
    LET group == {worker[w].job} \cup worker[w].siblings
    IN /\ worker[w].pc = "deliver"
       /\ \E r \in Results \ {"none"} :
            /\ r = "pending" => worker[w].job \in FollowUpIds
            /\ accepted' = IF r \in {"success", "pending"} THEN accepted \cup group
                           ELSE accepted
            /\ worker' = [worker EXCEPT
                            ![w].result = r,
                            ![w].pc = IF IsForwardSuccess(r) THEN "sentLeader" ELSE "failRead"]
       /\ UNCHANGED <<row, forwardStatus, ruleEnabled, followUps, queue, requeues, crashes>>

\* Mutant: a delivery that spawns a follow-up leaves the event alone.
MarkSent_EventForgotten(w, i) ==
    IF row[i].status \in Terminal
      THEN UNCHANGED <<row, followUps, forwardStatus>>
      ELSE /\ row' = [row EXCEPT ![i] = Sent(@)]
           /\ followUps' = [followUps EXCEPT ![i] =
                              IF worker[w].result = "pending" THEN @ + 1 ELSE @]
           /\ forwardStatus' = IF worker[w].result = "pending" THEN forwardStatus
                               ELSE Marked({i}, "sent")

\* The transaction of _finalize_outbox_success for row i: the conditional
\* UPDATE to SENT and, when it hit, the follow-up row and the event's status.
MarkSent(w, i) ==
    IF row[i].status \in Terminal
      THEN UNCHANGED <<row, followUps, forwardStatus>>
      ELSE /\ row' = [row EXCEPT ![i] = Sent(@)]
           /\ followUps' = [followUps EXCEPT ![i] =
                              IF worker[w].result = "pending" THEN @ + 1 ELSE @]
           /\ forwardStatus' = Marked({i}, "sent")

FinalizeLeader(w) ==
    /\ worker[w].pc = "sentLeader"
    /\ MarkSent(w, worker[w].job)
    /\ IF worker[w].siblings = {} THEN Finish(w) ELSE Goto(w, "sentSiblings")
    /\ UNCHANGED <<ruleEnabled, accepted, queue, requeues, crashes>>

\* The loop over the rest of the digest group, one transaction per row.
FinalizeSibling(w) ==
    /\ worker[w].pc = "sentSiblings"
    /\ \E s \in worker[w].siblings :
         /\ \A t \in worker[w].siblings : s <= t
         /\ MarkSent(w, s)
         /\ IF worker[w].siblings = {s}
              THEN Finish(w)
              ELSE worker' = [worker EXCEPT ![w].siblings = @ \ {s}]
    /\ UNCHANGED <<ruleEnabled, accepted, queue, requeues, crashes>>

\* Mutant: the failure path forgets the siblings it has claimed.
AfterFailure_NoPark(w) == Finish(w)

\* What follows _finalize_outbox_failure: _park_digest_siblings, which returns
\* at once when there are none.
AfterFailure(w) ==
    IF worker[w].siblings = {} THEN Finish(w) ELSE Goto(w, "park")

\* _finalize_outbox_failure, first statement: load the row, without a lock, and
\* return if it is already terminal.
FailureRead(w) ==
    LET r == row[worker[w].job]
    IN /\ worker[w].pc = "failRead"
       /\ IF r.status \in Terminal
            THEN AfterFailure(w)
            ELSE worker' = [worker EXCEPT ![w].pc = "failWrite", ![w].seen = r.status,
                                          ![w].seenAttempts = r.attempts]
       /\ UNCHANGED <<row, forwardStatus, ruleEnabled, followUps, accepted, queue,
                      requeues, crashes>>

\* Mutant: one attempt too many.
GivesUp_OffByOne(w) ==
    worker[w].result \in {"permanent", "quarantine"} \/ worker[w].seenAttempts > MaxAttempts

\* The failed delivery is not to be retried.
GivesUp(w) ==
    worker[w].result \in {"permanent", "quarantine"} \/ worker[w].seenAttempts >= MaxAttempts

\* The commit of _finalize_outbox_failure: UPDATE ... WHERE id = :id, whatever
\* the row has become since it was loaded.  The unit of work writes only the
\* columns that differ from what was loaded.
FailureWrite(w) ==
    LET i == worker[w].job
        delay == RetryDelay[worker[w].seenAttempts]
    IN /\ worker[w].pc = "failWrite"
       /\ IF GivesUp(w)
            THEN /\ row' = [row EXCEPT ![i] = Exhausted(@)]
                 /\ forwardStatus' = Marked({i}, "failed")
                 /\ ruleEnabled' = [ruleEnabled EXCEPT ![RuleOf[i]] =
                                      @ /\ worker[w].result # "quarantine"]
                 /\ Goto(w, "notify")
                 /\ UNCHANGED queue
            ELSE /\ row' = [row EXCEPT ![i].wait = delay, ![i].idle = 0,
                                       ![i].status =
                                          IF worker[w].seen = "retrying" THEN @
                                          ELSE "retrying"]
                 /\ Kick({i})
                 /\ AfterFailure(w)
                 /\ UNCHANGED <<forwardStatus, ruleEnabled>>
       /\ UNCHANGED <<followUps, accepted, requeues, crashes>>

\* The in-band notice of an exhausted row: outbox_exhausted rows, created and
\* kicked in a transaction of their own.  A failure to enqueue is logged.
NotifyExhausted(w) ==
    LET notices == NoticeFor[worker[w].job]
    IN /\ worker[w].pc = "notify"
       /\ \/ row' = Created(notices) /\ Kick(notices)
          \/ UNCHANGED <<row, queue>>
       /\ AfterFailure(w)
       /\ UNCHANGED <<forwardStatus, ruleEnabled, followUps, accepted, requeues, crashes>>

\* _park_digest_siblings: back to the queue on the leader's next attempt, or
\* exhausted when the leader is not waiting for one.
ParkSiblings(w) ==
    LET leader == row[worker[w].job]
        S == worker[w].siblings
        mine == {j \in S : row[j].status = "processing"}
    IN /\ worker[w].pc = "park"
       /\ IF leader.status = "retrying"
            THEN /\ row' = [j \in Ids |-> IF j \in mine THEN Parked(row[j], leader.wait)
                                          ELSE row[j]]
                 /\ UNCHANGED forwardStatus
            ELSE /\ row' = [j \in Ids |-> IF j \in mine THEN Exhausted(row[j]) ELSE row[j]]
                 /\ forwardStatus' = Marked(S, "failed")
       /\ Finish(w)
       /\ UNCHANGED <<ruleEnabled, followUps, accepted, queue, requeues, crashes>>

-----------------------------------------------------------------------------
(* The scheduled scan, the operator, and the environment *)

Batch(S, T) == S \subseteq T /\ Cardinality(S) = IF Cardinality(T) < ScanLimit
                                                   THEN Cardinality(T) ELSE ScanLimit

\* run_forward_outbox_scan, one transaction: expire, recover, select the due
\* rows; then kick them.  Which rows a full batch leaves out is left open.
ScanStep(kickAll) ==
    LET old == {i \in Ids : row[i].status \in Active /\ TooOld(row[i])}
    IN \E E \in SUBSET old :
         /\ Batch(E, old)
         /\ row' = [i \in Ids |-> IF i \in E THEN Expired(row[i])
                                  ELSE IF Stale(row[i]) THEN RecoveredStale(row[i])
                                  ELSE row[i]]
         /\ LET due == {i \in Ids : Claimable(row'[i])}
            IN \E D \in SUBSET due :
                 /\ Batch(D, due)
                 /\ IF kickAll THEN queue' = queue \cup D ELSE Kick(D)
         /\ UNCHANGED <<forwardStatus, ruleEnabled, followUps, accepted, worker,
                        requeues, crashes>>

RunForwardOutboxScan == ScanStep(FALSE)

\* Mutant: a sent row can be requeued.
RequeueForwardOutbox_AlsoSent(i) ==
    /\ requeues < MaxRequeues
    /\ row[i].status \in Terminal \cup {"retrying", "pending"}
    /\ row' = [row EXCEPT ![i] = Requeued(@)]
    /\ Kick({i})
    /\ requeues' = requeues + 1
    /\ UNCHANGED <<forwardStatus, ruleEnabled, followUps, accepted, worker, crashes>>

\* requeue_forward_outbox: the operator, on a row in a requeueable status.
RequeueForwardOutbox(i) ==
    /\ requeues < MaxRequeues
    /\ row[i].status \in {"exhausted", "expired", "retrying", "pending"}
    /\ row' = [row EXCEPT ![i] = Requeued(@)]
    /\ Kick({i})
    /\ requeues' = requeues + 1
    /\ UNCHANGED <<forwardStatus, ruleEnabled, followUps, accepted, worker, crashes>>

\* The broker hands an unacknowledged kick to another consumer once it has been
\* pending for too long; its worker may be dead or merely slow.
Redeliver(w) ==
    /\ worker[w].pc # "idle"
    /\ queue' = queue \cup {worker[w].job}
    /\ UNCHANGED <<row, forwardStatus, ruleEnabled, followUps, accepted, worker,
                   requeues, crashes>>

\* A worker process dies.  The message it had not acknowledged stays pending.
Crash(w) ==
    /\ crashes < MaxCrashes
    /\ worker[w].pc # "idle"
    /\ queue' = queue \cup {worker[w].job}
    /\ Finish(w)
    /\ crashes' = crashes + 1
    /\ UNCHANGED <<row, forwardStatus, ruleEnabled, followUps, accepted, requeues>>

\* Time passes, unless a live worker has reached the end of its patience.
Tick ==
    /\ \A w \in Workers : worker[w].pc = "idle" \/ worker[w].hold < MaxHold
    /\ row' = [i \in Ids |->
                 LET r == row[i]
                 IN [r EXCEPT !.wait = IF @ > 0 THEN @ - 1 ELSE @,
                              !.idle = IF r.status = "processing" /\ @ <= StaleAfter
                                         THEN @ + 1 ELSE @,
                              !.age = IF r.status # "none" /\ @ <= MaxAge
                                        THEN @ + 1 ELSE @]]
    /\ worker' = [w \in Workers |->
                    IF worker[w].pc = "idle" THEN worker[w]
                    ELSE [worker[w] EXCEPT !.hold = @ + 1]]
    /\ UNCHANGED <<forwardStatus, ruleEnabled, followUps, accepted, queue,
                   requeues, crashes>>

-----------------------------------------------------------------------------
\* The steps that a running worker takes by itself.
WorkerStep(w) ==
    \/ \E i \in Ids : TakeKick(w, i)
    \/ ClaimSiblings(w)
    \/ Deliver(w)
    \/ FinalizeLeader(w)
    \/ FinalizeSibling(w)
    \/ FailureRead(w)
    \/ FailureWrite(w)
    \/ NotifyExhausted(w)
    \/ ParkSiblings(w)

Next ==
    \/ \E i \in Ids : Create(i)
    \/ \E w \in Workers : WorkerStep(w)
    \/ \E w \in Workers, i \in Ids : DeliverNow(w, i)
    \/ RunForwardOutboxScan
    \/ \E i \in Ids : RequeueForwardOutbox(i)
    \/ \E w \in Workers : Redeliver(w)
    \/ \E w \in Workers : Crash(w)
    \/ Tick

Spec == Init /\ [][Next]_vars

\* Processes keep running, the broker's stream is first in, first out (no kick is
\* overtaken for ever), time passes, and a scan whose kicks all reach the broker
\* happens again and again.
Fairness ==
    /\ \A w \in Workers : WF_vars(WorkerStep(w))
    /\ \A i \in Ids : SF_vars(\E w \in Workers : TakeKick(w, i))
    /\ WF_vars(ScanStep(TRUE))
    /\ WF_vars(Tick)

FairSpec == Spec /\ Fairness

-----------------------------------------------------------------------------
(* Properties *)

\* Every variable keeps its type.
TypeOK ==
    /\ row \in [Ids -> Row]
    /\ forwardStatus \in [Events -> {"none", "sent", "failed"}]
    /\ ruleEnabled \in [Rules -> BOOLEAN]
    /\ followUps \in [Ids -> Nat]
    /\ accepted \in SUBSET Ids
    /\ queue \in SUBSET Ids
    /\ worker \in [Workers -> Worker]
    /\ requeues \in 0 .. MaxRequeues
    /\ crashes \in 0 .. MaxCrashes

\* A row is in the hands of at most one live worker, and is "processing" for as
\* long as it is: what the conditional UPDATEs of _claim_outbox and
\* _claim_digest_siblings and the stale threshold are there to guarantee.
ExclusiveHolder ==
    /\ \A v, w \in Workers : v # w => Holds(v) \cap Holds(w) = {}
    /\ \A w \in Workers : \A i \in Holds(w) : row[i].status = "processing"

\* "Atomically claim the SENT transition: only a row that is not already terminal
\* flips to SENT" (_finalize_outbox_success): a sent row stays sent.
SentIsFinal ==
    [][\A i \in Ids : row[i].status = "sent" => row'[i].status = "sent"]_vars

\* "exactly one finalizer wins": a row spawns at most one DeepAnalysis row, and
\* only when it is sent.
OneFollowUp ==
    \A i \in Ids : followUps[i] <= 1 /\ (followUps[i] = 1 => row[i].status = "sent")

\* A row that is marked sent was accepted by the remote end, in a message of its
\* own or in a digest: no finalizer of a failed delivery marks a row sent.
SentWasAccepted ==
    \A i \in Ids : row[i].status = "sent" => i \in accepted

\* The events of a row tell what became of it, for events no other row shares:
\* the row's and the event's UPDATE are in one transaction in every finalizer.
EventAgrees ==
    \A i \in Ids : \A e \in EventsOf[i] :
        (\A j \in Ids \ {i} : e \notin EventsOf[j]) =>
            /\ row[i].status = "sent" => forwardStatus[e] = "sent"
            /\ row[i].status = "exhausted" => forwardStatus[e] = "failed"

\* A row that was never tried is not expired while it waits for its digest window
\* (the age basis of _expire_due_outboxes and _expire_outbox_if_old).  The count of
\* attempts tells that it was never tried until the operator's requeue resets it.
NeverExpiredUndue ==
    [][\A i \in Ids : row[i].status # "expired" /\ row'[i].status = "expired"
                      /\ row[i].attempts = 0 /\ requeues = 0 => row[i].wait = 0]_vars

\* Without a crash, a row outside a digest is claimed at most max_attempts times
\* before it is sent, exhausted or requeued by the operator.
AttemptBudget ==
    crashes = 0 => \A i \in Ids \ DigestIds : row[i].attempts <= MaxAttempts

\* Unless a worker crashed, every row in "processing" is still in somebody's
\* hands: no path of a delivery, success, failure, park or early return, leaves
\* a claimed row behind for the stale scan to find.
NoOrphan ==
    crashes = 0 => \A i \in Ids : row[i].status = "processing" =>
                                    \E w \in Workers : i \in Holds(w)

\* The bookkeeping around a delivery: the events of a row tell what became of it, a
\* row counts as sent only after its target took it, a row is not claimed more often
\* than the policy allows unless a worker crashed, and no path of a delivery leaves a
\* claimed row behind (the finalizers of outbox.py and _park_digest_siblings).
OutboxAccounts == TypeOK /\ SentWasAccepted /\ EventAgrees /\ AttemptBudget /\ NoOrphan

\* Every intent is settled in the end, whatever kicks were lost: "the scheduled
\* scanner picks up missed records" (schedule_forward_outbox_many).
EventuallySettled ==
    \A i \in Ids : (row[i].status \in Active) ~> (row[i].status \in Terminal)

\* The abstract delivery intent the table implements.
Intent(s) == CASE s = "none" -> "absent"
               [] s \in Active -> "open"
               [] s = "sent" -> "sent"
               [] OTHER -> "dead"

Abstract == INSTANCE DeliveryIntent WITH
                intent <- [i \in Ids |-> Intent(row[i].status)],
                followed <- followUps

\* The outbox implements the abstract intent: opened once, sent at most once and
\* for good, with its follow-up record created in the step that marks it sent.
ImplementsIntent == Abstract!Spec
=============================================================================
