----------------------------- MODULE AlertGate -----------------------------
(***************************************************************************)
(* The gate one dedup_key's alerts pass before they are analysed           *)
(* (core/alert_concurrency.py): the storm counter that reserves a slot,    *)
(* the distributed lock with its wait, its renewals and its lock_lost      *)
(* event, the check of that event before the commit                        *)
(* (pipeline_stages.persist_and_schedule), and each process's view of      *)
(* whether Redis answers (core/redis_health.py).                           *)
(*                                                                         *)
(* Times are countdowns in ticks.  A tick passes over a renewal that is    *)
(* due, up to MaxLate times: that is an event loop too busy to run it.     *)
(* AlertDedup takes this lock as given and asks what the pipeline does     *)
(* under it.                                                               *)
(***************************************************************************)
EXTENDS Naturals, FiniteSets

CONSTANTS
    Handlers,       \* processes that handle alerts of this dedup_key
    NoHolder,       \* no holder of the lock
    Thresholds,     \* values of PROCESSING_LOCK_FAILFAST_THRESHOLD to consider; 0 disables the counter
    Window,         \* PROCESSING_LOCK_FAILFAST_WINDOW_SECONDS
    LockTTL,        \* PROCESSING_LOCK_TTL_SECONDS
    Renewal,        \* the interval of _refresh_distributed_lock, a third of LockTTL
    WaitTimeout,    \* PROCESSING_LOCK_WAIT_TIMEOUT_SECONDS
    ProbeInterval,  \* _RECOVERY_PROBE_INTERVAL_SECONDS
    MaxLate,        \* bound: ticks by which a renewal may be late
    MaxGateFaults   \* bound: crashes, outages and losses of Redis's data

GateAssumption ==
    /\ NoHolder \notin Handlers /\ IsFiniteSet(Handlers)
    /\ Thresholds \subseteq Nat /\ Window \in Nat \ {0}
    /\ LockTTL \in Nat \ {0} /\ Renewal \in Nat /\ WaitTimeout \in Nat
    /\ ProbeInterval \in Nat /\ MaxLate \in Nat /\ MaxGateFaults \in Nat

VARIABLES
    threshold,\* the configured value
    slots,    \* [n, ttl]              the counter queue:webhook:<dedup_key>
    lock,     \* [holder, ttl]         lock:webhook:alert:<dedup_key>
    task,     \* [Handlers -> Task]     what each process does with its alert
    health,   \* [Handlers -> Health]   redis_health of each process
    redis,    \* [up, since]           Redis answers; ticks since it does, up to ProbeInterval
    lapsed,   \* history: the counter was lost while some task held a slot
    wiped,    \* history: Redis lost its data while some task held the lock
    faults

gateVars == <<threshold, slots, lock, task, health, redis, lapsed, wiped, faults>>

Task == [pc : {"idle", "wait", "run", "commit"}, left : 0 .. WaitTimeout,
         renew : 0 .. Renewal, late : 0 .. MaxLate, lost : BOOLEAN]

Outside == [pc |-> "idle", left |-> 0, renew |-> 0, late |-> 0, lost |-> FALSE]

\* RedisHealthState, and the ticks until the next probe is allowed.
Health == [ok : BOOLEAN, probe : 0 .. ProbeInterval]

Healthy == [ok |-> TRUE, probe |-> 0]

Free == [holder |-> NoHolder, ttl |-> 0]

Inside == {w \in Handlers : task[w].pc # "idle"}

Working == {w \in Handlers : task[w].pc \in {"run", "commit"}}

GateFault == faults < MaxGateFaults /\ faults' = faults + 1

Less(n) == IF n = 0 THEN 0 ELSE n - 1

GateInit ==
    /\ threshold \in Thresholds
    /\ slots = [n |-> 0, ttl |-> 0]
    /\ lock = Free
    /\ task = [w \in Handlers |-> Outside]
    /\ health = [w \in Handlers |-> Healthy]
    /\ redis = [up |-> TRUE, since |-> ProbeInterval]
    /\ lapsed = FALSE /\ wiped = FALSE
    /\ faults = 0

-----------------------------------------------------------------------------
(* redis_health *)

\* ensure_redis_available lets the call through and Redis answers it.
Usable(w) == redis.up /\ (health[w].ok \/ health[w].probe = 0)

\* record_redis_operation marks every answer a success.
Answered(w) == health' = [health EXCEPT ![w] = Healthy]

\* Mutant: a call that is throttled pushes the next probe back.
NoAnswer_PushedBack(w) == health' = [health EXCEPT ![w] = [ok |-> FALSE, probe |-> ProbeInterval]]

\* The call or the probe fails, or it is refused without one: only a failure
\* starts a new interval.
NoAnswer(w) ==
    health' = [health EXCEPT ![w] =
                 IF ~@.ok /\ @.probe > 0 THEN @ ELSE [ok |-> FALSE, probe |-> ProbeInterval]]

-----------------------------------------------------------------------------
(* The counter of slots. *)

\* Mutant: the comparison lets one more in.
Full_OffByOne == threshold > 0 /\ slots.n > threshold

Full == threshold > 0 /\ slots.n >= threshold

\* Mutant: a refused alert renews the counter's expiry.
Refused_Renewing == slots' = [slots EXCEPT !.ttl = Window]

\* alert_reserve_queue_slot.lua returns before it touches the counter.
Refused == UNCHANGED slots

\* alert_release_queue_slot.lua: the last slot deletes the key.
ReleaseSlot ==
    slots' = IF threshold = 0 THEN slots
             ELSE IF slots.n <= 1 THEN [n |-> 0, ttl |-> 0]
             ELSE [n |-> slots.n - 1, ttl |-> Window]

\* _reserve_processing_slot
Reserve(w) ==
    /\ task[w].pc = "idle"
    /\ Usable(w) /\ Answered(w)
    /\ \/ Full /\ Refused /\ UNCHANGED task
       \/ /\ ~Full
          /\ slots' = IF threshold = 0 THEN slots ELSE [n |-> slots.n + 1, ttl |-> Window]
          /\ task' = [task EXCEPT ![w] = [Outside EXCEPT !.pc = "wait", !.left = WaitTimeout]]
    /\ UNCHANGED <<threshold, lock, redis, lapsed, wiped, faults>>

\* _reserve_processing_slot without Redis: the alert is put back on the queue
\* (validate_backpressure raises ProcessingLockLost).
ReserveUnavailable(w) ==
    /\ task[w].pc = "idle"
    /\ ~Usable(w) /\ NoAnswer(w)
    /\ UNCHANGED <<threshold, slots, lock, task, redis, lapsed, wiped, faults>>

-----------------------------------------------------------------------------
(* The lock. *)

\* Mutant: the lock is deleted whoever holds it.
ReleaseLock_Anyone(w) == lock' = IF task[w].pc = "wait" THEN lock ELSE Free

\* alert_release_lock_if_owner.lua
ReleaseLock(w) == lock' = IF lock.holder = w THEN Free ELSE lock

\* The finally of alert_processing_gate.  Without Redis neither release happens
\* and both keys are left to their expiry.
LeaveGate(w) ==
    /\ task' = [task EXCEPT ![w] = Outside]
    /\ \/ redis.up /\ ReleaseLock(w) /\ ReleaseSlot /\ Answered(w)
       \/ ~redis.up /\ UNCHANGED <<slots, lock>> /\ NoAnswer(w)
    /\ lapsed' = (lapsed /\ Inside \ {w} # {})
    /\ wiped' = (wiped /\ Inside \ {w} # {})
    /\ UNCHANGED <<threshold, redis, faults>>

\* _acquire_distributed_lock: SET NX EX succeeds, and the renewals start.
Acquire(w) ==
    /\ task[w].pc = "wait"
    /\ redis.up /\ Answered(w)
    /\ lock = Free
    /\ lock' = [holder |-> w, ttl |-> LockTTL]
    /\ task' = [task EXCEPT ![w] = [Outside EXCEPT !.pc = "run", !.renew = Renewal]]
    /\ UNCHANGED <<threshold, slots, redis, lapsed, wiped, faults>>

\* The deadline passes with the lock taken, or Redis stops answering.
GiveUp(w) ==
    /\ task[w].pc = "wait"
    /\ ~redis.up \/ (task[w].left = 0 /\ lock # Free)
    /\ LeaveGate(w)

\* Mutant: a failed renewal is not reported.
Noticed_Silent(w) == FALSE

\* The renewal fails or finds another owner.
Noticed(w) == ~redis.up \/ lock.holder # w

\* One turn of _refresh_distributed_lock.
Renew(w) ==
    /\ w \in Working /\ ~task[w].lost
    /\ task[w].renew = 0
    /\ task' = [task EXCEPT ![w].lost = Noticed(w), ![w].renew = IF Noticed(w) THEN 0 ELSE Renewal,
                            ![w].late = 0]
    /\ lock' = IF redis.up /\ lock.holder = w THEN [lock EXCEPT !.ttl = LockTTL] ELSE lock
    /\ IF redis.up THEN Answered(w) ELSE NoAnswer(w)
    /\ UNCHANGED <<threshold, slots, redis, lapsed, wiped, faults>>

\* persist_and_schedule: the commit is abandoned when the lock is known lost.
BeginCommit(w) ==
    /\ task[w].pc = "run"
    /\ \/ task[w].lost /\ LeaveGate(w)
       \/ /\ ~task[w].lost
          /\ task' = [task EXCEPT ![w].pc = "commit"]
          /\ UNCHANGED <<threshold, slots, lock, health, redis, lapsed, wiped, faults>>

\* The commit and the Redis state after it are done, or the processing failed.
Done(w) ==
    /\ w \in Working
    /\ LeaveGate(w)

-----------------------------------------------------------------------------
(* The environment. *)

GateCrash(w) ==
    /\ w \in Inside /\ GateFault
    /\ task' = [task EXCEPT ![w] = Outside]
    /\ health' = [health EXCEPT ![w] = Healthy]
    /\ lapsed' = (lapsed /\ Inside \ {w} # {})
    /\ wiped' = (wiped /\ Inside \ {w} # {})
    /\ UNCHANGED <<threshold, slots, lock, redis>>

Outage ==
    /\ redis.up /\ GateFault
    /\ redis' = [up |-> FALSE, since |-> 0]
    /\ UNCHANGED <<threshold, slots, lock, task, health, lapsed, wiped>>

\* Redis comes back, with its data or without it.
Recover ==
    /\ ~redis.up
    /\ redis' = [up |-> TRUE, since |-> 0]
    /\ \/ UNCHANGED <<slots, lock, lapsed, wiped, faults>>
       \/ /\ GateFault
          /\ slots' = [n |-> 0, ttl |-> 0] /\ lock' = Free
          /\ lapsed' = (Inside # {}) /\ wiped' = (Working # {})
    /\ UNCHANGED <<threshold, task, health>>

\* What a process has to do before time goes on.
Due(w) ==
    \/ task[w].pc = "wait" /\ (task[w].left = 0 \/ ~redis.up)
    \/ w \in Working /\ ~task[w].lost /\ task[w].renew = 0 /\ task[w].late = MaxLate

Tick ==
    /\ \A w \in Handlers : ~Due(w)
    /\ slots' = IF slots.ttl <= 1 THEN [n |-> 0, ttl |-> 0] ELSE [slots EXCEPT !.ttl = @ - 1]
    /\ lapsed' = (lapsed \/ (slots.ttl = 1 /\ Inside # {}))
    /\ lock' = IF lock.ttl <= 1 THEN Free ELSE [lock EXCEPT !.ttl = @ - 1]
    /\ task' = [w \in Handlers |->
                  IF w \in Working /\ ~task[w].lost
                  THEN [task[w] EXCEPT !.renew = Less(@), !.late = IF task[w].renew = 0 THEN @ + 1 ELSE @]
                  ELSE [task[w] EXCEPT !.left = Less(@)]]
    /\ health' = [w \in Handlers |-> [health[w] EXCEPT !.probe = Less(@)]]
    /\ redis' = [redis EXCEPT !.since = IF redis.up /\ @ < ProbeInterval THEN @ + 1 ELSE @]
    /\ UNCHANGED <<threshold, wiped, faults>>

GateNext ==
    \/ \E w \in Handlers :
          \/ Reserve(w) \/ ReserveUnavailable(w)
          \/ Acquire(w) \/ GiveUp(w) \/ Renew(w)
          \/ BeginCommit(w) \/ Done(w) \/ GateCrash(w)
    \/ Outage \/ Recover \/ Tick

\* Clocks run, tasks on a live event loop go on, and an outage ends.
GateFairness ==
    /\ WF_gateVars(Tick) /\ WF_gateVars(Recover)
    /\ \A w \in Handlers : WF_gateVars(Acquire(w)) /\ WF_gateVars(GiveUp(w))
                          /\ WF_gateVars(Renew(w)) /\ WF_gateVars(Done(w))

GateSpec == GateInit /\ [][GateNext]_gateVars /\ GateFairness

-----------------------------------------------------------------------------
GateTypeOK ==
    /\ threshold \in Thresholds
    /\ slots \in [n : 0 .. (threshold + 1), ttl : 0 .. Window]
    /\ (slots.n = 0) <=> (slots.ttl = 0)
    /\ lock \in [holder : Handlers \cup {NoHolder}, ttl : 0 .. LockTTL]
    /\ (lock.holder = NoHolder) <=> (lock.ttl = 0)
    /\ task \in [Handlers -> Task] /\ health \in [Handlers -> Health]
    /\ redis \in [up : BOOLEAN, since : 0 .. ProbeInterval]
    /\ lapsed \in BOOLEAN /\ wiped \in BOOLEAN /\ faults \in 0 .. MaxGateFaults

\* Two tasks work on the same dedup_key, neither knowing that it lost the lock
\* (alert_processing_gate), only after Redis lost its data or a renewal was late
\* by the whole margin between the lock's TTL and the renewal interval.
RunsAlone ==
    \A v, w \in Working :
        (v # w /\ ~task[v].lost /\ ~task[w].lost)
            => \/ wiped
               \/ task[v].late >= LockTTL - Renewal \/ task[w].late >= LockTTL - Renewal

\* The storm threshold bounds the tasks inside the gate (_reserve_processing_slot)
\* for as long as the counter did not expire under one of them.
StormBounded == threshold > 0 /\ ~lapsed => Cardinality(Inside) <= threshold

\* Once Redis has answered for a probe interval no process still takes it for
\* dead (ensure_redis_available), however many calls were refused meanwhile.
OutageForgotten == redis.up /\ redis.since >= ProbeInterval => \A w \in Handlers : Usable(w)

\* The gate keeps its word: one task at a time, no more than the threshold inside,
\* and an outage is over for every process soon after it is over for Redis.
GateHolds == GateTypeOK /\ RunsAlone /\ StormBounded /\ OutageForgotten

\* Slots leaked by crashes and failed releases never close the key for good:
\* with nobody inside, the counter gets below the threshold again, whatever
\* number of alerts keeps knocking.
KeyReopens == (Full /\ Inside = {}) ~> ~Full

=============================================================================
