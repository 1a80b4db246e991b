--------------------------- MODULE CircuitBreaker ---------------------------
(***************************************************************************)
(* The circuit breakers (core/circuit_breaker.py, its Lua scripts, and the *)
(* per-target instances of services/forwarding/circuit_breakers.py).       *)
(*                                                                         *)
(* Every process has one breaker object for each target, with its own      *)
(* cache of an observed CLOSED.  The Redis keys are made from the name of  *)
(* the specification the breaker was built from (feishu, deep_analysis,    *)
(* forward, llm), which all the targets of one kind share: one circuit in  *)
(* Redis for all of Targets.                                               *)
(*                                                                         *)
(* Times are what is left of them, in ticks.  A Lua script is atomic; a    *)
(* reply of Redis takes no time, but other coroutines run before it.       *)
(***************************************************************************)
EXTENDS Naturals, FiniteSets

CONSTANTS
    Procs,         \* processes that share the Redis circuit
    Targets,       \* gateways or hosts, each with a breaker object per process
    Calls,         \* concurrent invocations of call_async
    Threshold,     \* failure_threshold
    Window,        \* failure_window
    Recovery,      \* recovery_timeout
    MaxClosedTTL,  \* _CLOSED_CACHE_TTL_SECONDS
    MaxFaults      \* bound: Redis errors

ASSUME BreakerAssumption ==
    /\ Threshold \in Nat \ {0} /\ Window \in Nat \ {0} /\ Recovery \in Nat \ {0}
    /\ MaxClosedTTL \in Nat /\ MaxFaults \in Nat

VARIABLES
    failures,    \* the failure counter in Redis, counted up to Threshold
    failFor,     \* what is left of its expiry
    open,        \* whether the state key says "open"
    openFor,     \* what is left until open_until
    stateFor,    \* what is left of the expiry of the state
    cacheFor,    \* [Procs -> [Targets -> ...]]  what is left of _closed_cache_until
    healthy,     \* [Procs -> BOOLEAN]  redis_health: the process trusts Redis
    call,        \* [Calls -> ...]      where each invocation is
    openAge,     \* history: ticks since the circuit opened, counted up to Lag
    recent,      \* history: the ages of the last Threshold failures recorded, newest first
    failed,      \* history: targets a failure of which was recorded
    faults       \* Redis errors so far

redis == <<failures, failFor, open, openFor, stateFor>>

history == <<openAge, recent, failed>>

vars == <<redis, cacheFor, healthy, call, history, faults>>

\* _closed_cache_ttl
ClosedTTL == IF MaxClosedTTL < Recovery THEN MaxClosedTTL ELSE Recovery

StateTTL == 2 * Recovery + 1

Lag == ClosedTTL + 1

Least(a, b) == IF a < b THEN a ELSE b

Less(n) == IF n = 0 THEN 0 ELSE n - 1

PC == {"idle", "checked", "running", "failing"}

Breakers == Procs \X Targets

\* The breaker object an invocation goes through.
Of(c) == <<call[c].proc, call[c].target>>

-----------------------------------------------------------------------------
Init ==
    /\ failures = 0 /\ failFor = 0
    /\ open = FALSE /\ openFor = 0 /\ stateFor = 0
    /\ cacheFor = [b \in Breakers |-> 0]
    /\ healthy = [p \in Procs |-> TRUE]
    /\ call \in [Calls -> [pc : {"idle"}, proc : Procs, target : Targets, seen : {"closed"}]]
    /\ openAge = 0
    /\ recent = [k \in 1 .. Threshold |-> Window]
    /\ failed = {}
    /\ faults = 0

\* An error of a Redis operation: mark_redis_failure.
RedisError(p) ==
    /\ faults < MaxFaults
    /\ faults' = faults + 1
    /\ healthy' = [healthy EXCEPT ![p] = FALSE]

\* The health probe of ensure_redis_available succeeds.
Probe(p) ==
    /\ ~ healthy[p]
    /\ healthy' = [healthy EXCEPT ![p] = TRUE]
    /\ UNCHANGED <<redis, cacheFor, call, history, faults>>

Step(c, pc) == call' = [call EXCEPT ![c].pc = pc]

Starts(c, p, t, pc, seen) ==
    /\ call[c].pc = "idle"
    /\ call' = [call EXCEPT ![c] = [pc |-> pc, proc |-> p, target |-> t, seen |-> seen]]

\* Mutant: using the cached CLOSED renews it.
CheckCached_Renews(c, p, t) ==
    /\ cacheFor[<<p, t>>] > 0
    /\ Starts(c, p, t, "running", "closed")
    /\ cacheFor' = [cacheFor EXCEPT ![<<p, t>>] = ClosedTTL]
    /\ UNCHANGED <<redis, healthy, history, faults>>

\* _check_state_async, fast path: a CLOSED seen a moment ago.
CheckCached(c, p, t) ==
    /\ cacheFor[<<p, t>>] > 0
    /\ Starts(c, p, t, "running", "closed")
    /\ UNCHANGED <<redis, cacheFor, healthy, history, faults>>

\* Redis is known to be unavailable: let the call through, cache nothing.
CheckDegraded(c, p, t) ==
    /\ cacheFor[<<p, t>>] = 0
    /\ ~ healthy[p]
    /\ Starts(c, p, t, "running", "closed")
    /\ UNCHANGED <<redis, cacheFor, healthy, history, faults>>

\* The state after the script of check_state: an open circuit whose time is up
\* is closed, and keeps its failure counter.
Reclosed == open /\ openFor = 0

\* The script runs, or Redis raises and CLOSED is assumed.
CheckRead(c, p, t) ==
    /\ cacheFor[<<p, t>>] = 0
    /\ healthy[p]
    /\ \/ /\ Starts(c, p, t, "checked", IF open /\ ~ Reclosed THEN "open" ELSE "closed")
          /\ IF Reclosed
             THEN open' = FALSE /\ stateFor' = 0 /\ UNCHANGED <<failures, failFor, openFor>>
             ELSE UNCHANGED redis
          /\ UNCHANGED <<healthy, faults>>
       \/ /\ Starts(c, p, t, "checked", "closed")
          /\ RedisError(p)
          /\ UNCHANGED redis
    /\ UNCHANGED <<cacheFor, history>>

\* Mutant: a rejection counts as a failure of the call.
Reject_CountsAsFailure(c) ==
    /\ call[c].pc = "checked" /\ call[c].seen = "open"
    /\ Step(c, "failing")
    /\ UNCHANGED <<redis, cacheFor, healthy, history, faults>>

\* CircuitBreakerOpenException.
Reject(c) ==
    /\ call[c].pc = "checked" /\ call[c].seen = "open"
    /\ Step(c, "idle")
    /\ UNCHANGED <<redis, cacheFor, healthy, history, faults>>

\* Mutant: the cache is not capped at the recovery timeout.
Admit_Uncapped(c) ==
    /\ call[c].pc = "checked" /\ call[c].seen = "closed"
    /\ cacheFor' = [cacheFor EXCEPT ![Of(c)] = MaxClosedTTL]
    /\ Step(c, "running")
    /\ UNCHANGED <<redis, healthy, history, faults>>

\* The reply says CLOSED: cache it and go ahead.
Admit(c) ==
    /\ call[c].pc = "checked" /\ call[c].seen = "closed"
    /\ cacheFor' = [cacheFor EXCEPT ![Of(c)] = ClosedTTL]
    /\ Step(c, "running")
    /\ UNCHANGED <<redis, healthy, history, faults>>

\* The call succeeds; _record_success closes an open circuit.  Its own failure
\* to reach Redis is only logged.
Succeed(c) ==
    LET p == call[c].proc
    IN /\ call[c].pc = "running"
       /\ Step(c, "idle")
       /\ \/ /\ healthy[p]
             /\ IF open
                THEN /\ failures' = 0 /\ failFor' = 0
                     /\ open' = FALSE /\ openFor' = 0 /\ stateFor' = 0
                ELSE UNCHANGED redis
             /\ UNCHANGED <<healthy, faults>>
          \/ healthy[p] /\ RedisError(p) /\ UNCHANGED redis
          \/ ~ healthy[p] /\ UNCHANGED <<redis, healthy, faults>>
       /\ UNCHANGED <<cacheFor, history>>

\* An error the breaker does not count.
Abort(c) ==
    /\ call[c].pc = "running"
    /\ Step(c, "idle")
    /\ UNCHANGED <<redis, cacheFor, healthy, history, faults>>

\* An expected exception: _record_failure first drops the cached CLOSED ...
Fail(c) ==
    /\ call[c].pc = "running"
    /\ cacheFor' = [cacheFor EXCEPT ![Of(c)] = 0]
    /\ Step(c, "failing")
    /\ UNCHANGED <<redis, healthy, history, faults>>

\* Mutant: every failure renews the expiry of the counter.
CountFailure_RenewsExpiry ==
    /\ failures' = Least(failures + 1, Threshold)
    /\ failFor' = Window

\* INCR, with an expiry when the counter is new.
CountFailure ==
    /\ failures' = Least(failures + 1, Threshold)
    /\ failFor' = IF failures = 0 THEN Window ELSE failFor

\* ... then runs its script: count, and open the circuit at the threshold.
RecordFailure(c) ==
    LET p == call[c].proc
    IN /\ call[c].pc = "failing"
       /\ Step(c, "idle")
       /\ \/ /\ healthy[p]
             /\ CountFailure
             /\ IF failures' >= Threshold
                THEN open' = TRUE /\ openFor' = Recovery /\ stateFor' = StateTTL
                ELSE UNCHANGED <<open, openFor, stateFor>>
             /\ openAge' = IF open THEN openAge ELSE 0
             /\ recent' = [k \in 1 .. Threshold |-> IF k = 1 THEN 0 ELSE recent[k - 1]]
             /\ failed' = failed \cup {call[c].target}
             /\ UNCHANGED <<healthy, faults>>
          \/ healthy[p] /\ RedisError(p) /\ UNCHANGED <<redis, history>>
          \/ ~ healthy[p] /\ UNCHANGED <<redis, history, healthy, faults>>
       /\ UNCHANGED cacheFor

\* A change of configuration or an eviction: a new breaker object.
Rebuild(b) ==
    /\ cacheFor[b] > 0
    /\ cacheFor' = [cacheFor EXCEPT ![b] = 0]
    /\ UNCHANGED <<redis, healthy, call, history, faults>>

\* A tick; keys whose expiry runs out are gone.
Tick ==
    /\ \A c \in Calls : call[c].pc \in {"idle", "running"}
    /\ failFor' = Less(failFor)
    /\ failures' = IF failFor' = 0 THEN 0 ELSE failures
    /\ stateFor' = Less(stateFor)
    /\ open' = (open /\ stateFor' > 0)
    /\ openFor' = Less(openFor)
    /\ cacheFor' = [b \in Breakers |-> Less(cacheFor[b])]
    /\ openAge' = IF open THEN Least(openAge + 1, Lag) ELSE openAge
    /\ recent' = [k \in 1 .. Threshold |-> Least(recent[k] + 1, Window)]
    /\ UNCHANGED <<healthy, call, failed, faults>>

-----------------------------------------------------------------------------
Check(c) ==
    \E p \in Procs, t \in Targets :
        CheckCached(c, p, t) \/ CheckDegraded(c, p, t) \/ CheckRead(c, p, t)

Answered(c) == Reject(c) \/ Admit(c)

Returns(c) == Succeed(c) \/ Abort(c) \/ Fail(c)

Next ==
    \/ \E c \in Calls : Check(c) \/ Answered(c) \/ Returns(c) \/ RecordFailure(c)
    \/ \E p \in Procs : Probe(p)
    \/ \E b \in Breakers : Rebuild(b)
    \/ Tick

Spec == Init /\ [][Next]_vars

\* Time passes whatever the calls do, Redis answers, calls end (the HTTP clients
\* have timeouts) and new ones keep coming.
Fairness ==
    /\ []<><<Tick>>_vars
    /\ \A c \in Calls : /\ WF_vars(Check(c)) /\ WF_vars(Answered(c))
                         /\ WF_vars(Returns(c)) /\ WF_vars(RecordFailure(c))

FairSpec == Spec /\ Fairness

-----------------------------------------------------------------------------
(* Properties *)

\* Every variable keeps its type.
TypeOK ==
    /\ failures \in 0 .. Threshold /\ failFor \in 0 .. Window
    /\ open \in BOOLEAN /\ openFor \in 0 .. Recovery /\ stateFor \in 0 .. StateTTL
    /\ cacheFor \in [Breakers -> 0 .. ClosedTTL]
    /\ healthy \in [Procs -> BOOLEAN]
    /\ call \in [Calls -> [pc : PC, proc : Procs, target : Targets, seen : {"open", "closed"}]]
    /\ openAge \in 0 .. Lag
    /\ recent \in [1 .. Threshold -> 0 .. Window]
    /\ failed \in SUBSET Targets
    /\ faults \in 0 .. MaxFaults

\* "Cross-process trips lag by at most this TTL": as long as Redis has answered
\* every check, a cached CLOSED outlives the opening of the circuit by at most
\* ClosedTTL.  (After an error an assumed CLOSED is cached like one that was read.)
LagBounded ==
    open /\ faults = 0 => \A b \in Breakers : cacheFor[b] > 0 => openAge + cacheFor[b] <= ClosedTTL

\* When the circuit opens, its last Threshold failures were all recorded within one
\* window, however often the counter expired in between (the script of _record_failure).
TripJustified ==
    open /\ openFor = Recovery => \A k \in 1 .. Threshold : recent[k] < Window

\* While calls keep coming the circuit does not reject them for ever: whatever
\* the failures, a call gets through again and again.
KeepsTrying ==
    []<><<\E c \in Calls : call[c].pc # "running" /\ call'[c].pc = "running">>_vars

\* "One breaker PER GATEWAY": a call is rejected only for failures of its own target.
TargetsIsolated ==
    \A c \in Calls : call[c].pc = "checked" /\ call[c].seen = "open" => call[c].target \in failed
=============================================================================
