--------------------------- MODULE IngressLimits ---------------------------
(***************************************************************************)
(* What stands between a webhook request and the stream, in the order      *)
(* api/v1/webhook.py meets it: the rate limiter of three tiers             *)
(* (core/webhook_security.py, a weighted window over two buckets), the     *)
(* storm counter of the alert's identity and the queue's high-water mark   *)
(* (services/webhooks/ingress_backpressure.py) read from a cache each      *)
(* process keeps (core/redis_streams.py), then the XADD that trims.  The   *)
(* backlog is what was delivered and not acknowledged (XPENDING) and what  *)
(* was not delivered yet (the lag of XINFO), read one after the other.     *)
(*                                                                         *)
(* One client and one identity: that is what a tier's key and the          *)
(* counter's key tell apart.  Entries are consumed and trimmed in the      *)
(* stream's order.                                                         *)
(***************************************************************************)
EXTENDS Integers, FiniteSets, FiniteSetsExt

CONSTANTS
    Procs,        \* API processes
    Tiers,        \* set of [window, limit]: the tiers whose limit is positive
    StormLimits,  \* values of WEBHOOK_INGRESS_BACKPRESSURE_THRESHOLD to consider; 0 switches it off
    StormWindow,  \* its window
    MaxLen,       \* WEBHOOK_MQ_STREAM_MAXLEN
    HighWater,    \* the share of MaxLen from which the queue refuses
    CacheTTL,     \* ttl_seconds of redis_group_backlog_cached
    Cycle,        \* a multiple of every tier's window: the clock runs modulo it
    MaxFaults     \* bound: outages of Redis and failed probes of the backlog

VARIABLES
    config,    \* [storm, failOpen]       the threshold and the ..._FAIL_OPEN_ON_REDIS_ERROR settings
    clock,     \* ticks, modulo Cycle
    bucket,    \* [Tiers -> [cur, prev]]  counters of the current and the previous window
    passed,    \* [0 .. Longest - 1 -> Nat] history: requests the limiter counted, by age in ticks
    storm,     \* [n, ttl]                ingress:webhook:<identity>
    backlog,   \* [pending, lag]         delivered and not acknowledged, not yet delivered
    trimmed,   \* history: an entry was trimmed before it was acknowledged
    cache,     \* [Procs -> [value, ttl]] the cached backlog (Told); value -1 is none
    req,       \* [Procs -> [at, pending]] the request each process handles, and XPENDING's answer
    blind,     \* history: a probe of the backlog failed, or the limiter let pass uncounted
    up,        \* Redis answers
    faults

limitVars == <<config, clock, bucket, passed, storm, backlog, trimmed, cache, req, blind, up, faults>>

Steps == {"idle", "storm", "queue", "lag", "enqueue"}

Longest == Max({t.window : t \in Tiers})

\* Entries that a trim would lose.
Unacked == backlog.pending + backlog.lag

\* How far the clock is into the current window of a tier.
Elapsed(t) == clock % t.window

\* Mutant: the previous window does not count.
Estimate_CurrentOnly(t) == bucket[t].cur

\* floor(previous * weight + current), weight the share of the previous window
\* that a window ending now still reaches.
Estimate(t) == (bucket[t].prev * (t.window - Elapsed(t))) \div t.window + bucket[t].cur

Spend == faults < MaxFaults /\ faults' = faults + 1

At(p) == req[p].at
Goto(p, step) == req' = [req EXCEPT ![p] = [at |-> step, pending |-> 0]]

LimitInit ==
    /\ config \in [storm : StormLimits, failOpen : BOOLEAN]
    /\ clock = 0
    /\ bucket = [t \in Tiers |-> [cur |-> 0, prev |-> 0]]
    /\ passed = [i \in 0 .. Longest - 1 |-> 0]
    /\ storm = [n |-> 0, ttl |-> 0]
    /\ backlog = [pending |-> 0, lag |-> 0] /\ trimmed = FALSE
    /\ cache = [p \in Procs |-> [value |-> -1, ttl |-> 0]]
    /\ req = [p \in Procs |-> [at |-> "idle", pending |-> 0]]
    /\ blind = FALSE /\ up = TRUE /\ faults = 0

-----------------------------------------------------------------------------
\* Mutant: each tier is counted as it is checked, up to the one that refuses.
Count_AsChecked ==
    bucket' = [t \in Tiers |-> IF \A s \in Tiers : s.window <= t.window => Estimate(s) < s.limit
                               THEN [bucket[t] EXCEPT !.cur = @ + 1] ELSE bucket[t]]

\* multi_tier_rate_limit.lua: every tier is checked before any is counted.
Count ==
    bucket' = IF \A t \in Tiers : Estimate(t) < t.limit
              THEN [t \in Tiers |-> [bucket[t] EXCEPT !.cur = @ + 1]]
              ELSE bucket

\* check_rate_limit_dep: 429 over a limit.
RateLimit(p) ==
    /\ At(p) = "idle" /\ up
    /\ Count
    /\ LET allowed == \A t \in Tiers : Estimate(t) < t.limit IN
         /\ passed' = IF allowed THEN [passed EXCEPT ![0] = @ + 1] ELSE passed
         /\ Goto(p, IF allowed THEN "storm" ELSE "idle")
    /\ UNCHANGED <<config, clock, storm, backlog, trimmed, cache, blind, up, faults>>

\* Without Redis the limiter allows everything or answers 503.
RateLimitUnavailable(p) ==
    /\ At(p) = "idle" /\ ~up
    /\ config.failOpen
    /\ Goto(p, "storm")
    /\ blind' = TRUE
    /\ UNCHANGED <<config, clock, bucket, passed, storm, backlog, trimmed, cache, up, faults>>

\* The counter's script: only the first increment sets the expiry.
Counted(c) == [n |-> c.n + 1, ttl |-> IF c.n = 0 THEN StormWindow ELSE c.ttl]

\* check_ingress_backpressure: a suppressed request is answered 200 and dropped.
StormCheck(p) ==
    /\ At(p) = "storm"
    /\ IF config.storm = 0 THEN Goto(p, "queue") /\ UNCHANGED storm
       ELSE IF ~up THEN Goto(p, IF config.failOpen THEN "queue" ELSE "idle") /\ UNCHANGED storm
       ELSE /\ storm' = IF storm.n > config.storm THEN storm ELSE Counted(storm)
            /\ Goto(p, IF storm.n + 1 > config.storm THEN "idle" ELSE "queue")
    /\ UNCHANGED <<config, clock, bucket, passed, backlog, trimmed, cache, blind, up, faults>>

\* A reading is only compared with the high-water mark: above it is as good as at it.
Told(entries) == Min({entries, HighWater})

\* Mutant: a value once read is used for good.
Stale_Never(p) == cache[p].value = -1

Stale(p) == cache[p].ttl = 0

\* check_queue_backpressure on the value v: no value never refuses.
Decide(p, v) == Goto(p, IF v >= HighWater THEN "idle" ELSE "enqueue")

\* redis_group_backlog_cached: a value within its TTL, or the first half of a new
\* one; a probe that fails, in either half, leaves the old value (or none), whose TTL
\* stays over.
ProbeFails(p) ==
    /\ IF up THEN Spend ELSE UNCHANGED faults
    /\ Decide(p, cache[p].value)
    /\ blind' = TRUE
    /\ UNCHANGED cache

QueueCheck(p) ==
    /\ At(p) = "queue"
    /\ \/ /\ ~Stale(p)
          /\ Decide(p, cache[p].value)
          /\ UNCHANGED <<cache, blind, faults>>
       \/ /\ Stale(p) /\ up
          /\ req' = [req EXCEPT ![p] = [at |-> "lag", pending |-> Told(backlog.pending)]]
          /\ UNCHANGED <<cache, blind, faults>>
       \/ Stale(p) /\ ProbeFails(p)
    /\ UNCHANGED <<config, clock, bucket, passed, storm, backlog, trimmed, up>>

\* The sum of the two answers: an entry delivered between them is in neither.
LagCheck(p) ==
    /\ At(p) = "lag"
    /\ \/ LET value == req[p].pending + backlog.lag IN
            /\ up
            /\ cache' = [cache EXCEPT ![p] = [value |-> Told(value), ttl |-> CacheTTL]]
            /\ Decide(p, value)
            /\ UNCHANGED <<blind, faults>>
       \/ ProbeFails(p)
    /\ UNCHANGED <<config, clock, bucket, passed, storm, backlog, trimmed, up>>

\* XADD with MAXLEN: past it the oldest entry goes, acknowledged or not.
\* Without Redis the sender is told to retry.
Enqueue(p) ==
    LET full == Unacked = MaxLen
        oldest == IF backlog.pending > 0 THEN [backlog EXCEPT !.pending = @ - 1]
                                         ELSE [backlog EXCEPT !.lag = @ - 1]
        kept == IF full THEN oldest ELSE backlog
    IN  /\ At(p) = "enqueue"
        /\ Goto(p, "idle")
        /\ backlog' = IF up THEN [kept EXCEPT !.lag = @ + 1] ELSE backlog
        /\ trimmed' = (trimmed \/ (up /\ full))
        /\ UNCHANGED <<config, clock, bucket, passed, storm, cache, blind, up, faults>>

\* The group's consumers read an entry, and acknowledge one.
Deliver ==
    /\ up /\ backlog.lag > 0
    /\ backlog' = [pending |-> backlog.pending + 1, lag |-> backlog.lag - 1]
    /\ UNCHANGED <<config, clock, bucket, passed, storm, trimmed, cache, req, blind, up, faults>>

Acknowledge ==
    /\ up /\ backlog.pending > 0
    /\ backlog' = [backlog EXCEPT !.pending = @ - 1]
    /\ UNCHANGED <<config, clock, bucket, passed, storm, trimmed, cache, req, blind, up, faults>>

-----------------------------------------------------------------------------
Outage ==
    /\ up /\ Spend
    /\ up' = FALSE
    /\ UNCHANGED <<config, clock, bucket, passed, storm, backlog, trimmed, cache, req, blind>>

Recover ==
    /\ ~up
    /\ up' = TRUE
    /\ UNCHANGED <<config, clock, bucket, passed, storm, backlog, trimmed, cache, req, blind, faults>>

\* A request is over well within a tick; a window that ends moves its counter on.
Tick ==
    /\ \A p \in Procs : At(p) = "idle"
    /\ clock' = (clock + 1) % Cycle
    /\ passed' = [i \in 0 .. Longest - 1 |-> IF i = 0 THEN 0 ELSE passed[i - 1]]
    /\ bucket' = [t \in Tiers |-> IF (clock + 1) % t.window = 0
                                  THEN [cur |-> 0, prev |-> bucket[t].cur] ELSE bucket[t]]
    /\ storm' = IF storm.ttl <= 1 THEN [n |-> 0, ttl |-> 0] ELSE [storm EXCEPT !.ttl = @ - 1]
    /\ cache' = [p \in Procs |-> [cache[p] EXCEPT !.ttl = IF @ = 0 THEN 0 ELSE @ - 1]]
    /\ UNCHANGED <<config, backlog, trimmed, req, blind, up, faults>>

LimitNext ==
    \/ \E p \in Procs : \/ RateLimit(p) \/ RateLimitUnavailable(p)
                        \/ StormCheck(p) \/ QueueCheck(p) \/ LagCheck(p) \/ Enqueue(p)
    \/ Deliver \/ Acknowledge \/ Outage \/ Recover \/ Tick

LimitSpec == LimitInit /\ [][LimitNext]_limitVars

-----------------------------------------------------------------------------
\* Requests the limiter counted in the last n ticks, this one included.
PassedIn(n) == MapThenSumSet(LAMBDA k : passed[k], 0 .. n - 1)

LimitTypeOK ==
    /\ config \in [storm : StormLimits, failOpen : BOOLEAN]
    /\ clock \in 0 .. Cycle - 1
    /\ DOMAIN bucket = Tiers
    /\ \A t \in Tiers : bucket[t].cur \in 0 .. t.limit /\ bucket[t].prev \in 0 .. t.limit
    /\ storm.n \in 0 .. (config.storm + 1) /\ storm.ttl \in 0 .. StormWindow
    /\ backlog.pending >= 0 /\ backlog.lag >= 0 /\ Unacked <= MaxLen
    /\ req \in [Procs -> [at : Steps, pending : 0 .. HighWater]]
    /\ \A p \in Procs : cache[p].value \in -1 .. HighWater /\ cache[p].ttl \in 0 .. CacheTTL

\* The limiter's estimate never lets twice a tier's limit through in any stretch
\* of the tier's window (enforce_webhook_rate_limit), wherever the stretch lies.
RateHonoured ==
    \A t \in Tiers : PassedIn(t.window) < 2 * t.limit

\* A request one tier refuses costs no other tier anything: the counters of a
\* window are the requests that passed in it.
RefusalsAreFree ==
    \A t \in Tiers : bucket[t].cur = PassedIn(Elapsed(t) + 1)

\* With the headroom over the high-water mark at least twice what the limiter passes
\* within a cache TTL, no unacknowledged entry is trimmed unless a probe of the backlog
\* failed (check_queue_backpressure) or the limiter was open.  Twice, because a probe
\* misses what is delivered between its halves: the entries that the value before it
\* let in are then let in for again.
NothingTrimmed == trimmed => blind

=============================================================================
