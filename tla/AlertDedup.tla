----------------------------- MODULE AlertDedup -----------------------------
(***************************************************************************)
(* The alerts of one dedup_key on their way through the pipeline: the      *)
(* processing gate's Redis lock (core/alert_concurrency.py), the dedup     *)
(* decision and the Redis sliding window (services/dedup.py), the stages   *)
(* around the analysis (services/webhooks/pipeline_stages.py) and the save *)
(* that re-checks the decision under the advisory lock                     *)
(* (services/webhooks/command_service.py, repository.py).                  *)
(*                                                                         *)
(* A row is named by its request_id.  All alerts of the key have the same  *)
(* alert_hash.  A save is one step: the transaction holds the key's        *)
(* advisory lock from its first read to its commit.                        *)
(***************************************************************************)
EXTENDS Naturals, FiniteSets

CONSTANTS
    Requests,        \* webhooks of the key, by request_id
    Workers,         \* coroutines running process_webhook_task
    None,            \* no request, no lock holder, no Redis state
    Orphan,          \* a lock token whose worker is gone
    Window,          \* DEDUP_WINDOW_SECONDS as configured at start
    LiveWindow,      \* the same with the runtime override applied
    ReuseWindow,     \* ANALYSIS_REUSE_WINDOW_SECONDS
    MaxTime,         \* bound: clock
    MaxDeliveries,   \* bound: deliveries of one request by the stream
    Prompt,          \* whether an alert is processed within a tick
    Answers,         \* what the analyser can answer: "real", "degraded"
    Faults,          \* the kinds of fault that may happen
    MaxFaults        \* bound: faults

FaultKinds == {"crash", "lapse", "renew", "gate", "read", "write", "process"}

ASSUME DedupAssumption ==
    /\ Window \in Nat \ {0} /\ LiveWindow \in Nat /\ ReuseWindow \in Nat
    /\ MaxTime \in Nat /\ MaxDeliveries \in Nat /\ MaxFaults \in Nat
    /\ Faults \subseteq FaultKinds /\ Answers \subseteq {"real", "degraded"} /\ Prompt \in BOOLEAN
    /\ IsFiniteSet(Requests) /\ None \notin Requests \cup Workers
    /\ Orphan \notin Workers \cup {None}

VARIABLES
    now,         \* the clock, in ticks
    row,         \* [Requests -> Row]      webhook_events
    state,       \* the Redis dedup state of the key, or None
    lock,        \* holder of the processing lock
    worker,      \* [Workers -> Worker]
    silenced,    \* a silence matches the alert
    deliveries,  \* [Requests -> Nat]
    faults       \* faults so far

vars == <<now, row, state, lock, worker, silenced, deliveries, faults>>

\* What an event's ai_analysis can be: an answer, a degraded answer, or the
\* "unknown" stored for a silenced alert.
Analysis == {"real", "degraded", "unknown"}

\* A row's timestamp is ts; saved is the time of the commit that completed it.
Row == [status : {"none", "retry", "completed"}, id : 0 .. Cardinality(Requests),
        ts : 0 .. MaxTime, saved : 0 .. MaxTime, dup : BOOLEAN,
        of : Requests \cup {None}, count : Nat, ai : Analysis]

NoRow == [status |-> "none", id |-> 0, ts |-> 0, saved |-> 0, dup |-> FALSE,
          of |-> None, count |-> 0, ai |-> "unknown"]

\* original_event_id = 0 is None.
DedupState == [orig : Requests \cup {None}, first : 0 .. MaxTime, last : 0 .. MaxTime,
               ai : Analysis \cup {"pending"}]

PC == {"idle", "gate", "resolve", "fallback", "silence", "placeholder", "analyze",
       "persist", "save", "remember", "leave", "failing", "failed"}

\* lost is the gate's lock_lost event.
Worker == [pc : PC, req : Requests \cup {None}, act : {"new", "reuse", "rechain"},
           orig : Requests \cup {None}, reset : BOOLEAN, ai : Analysis,
           lost : BOOLEAN]

Idle == [pc |-> "idle", req |-> None, act |-> "new", orig |-> None, reset |-> FALSE,
         ai |-> "unknown", lost |-> FALSE]

InGate == PC \ {"idle", "gate", "failed"}

Fault(k) == k \in Faults /\ faults < MaxFaults /\ faults' = faults + 1

Goto(w, pc) == worker' = [worker EXCEPT ![w].pc = pc]

\* The owner's token is deleted; a release that fails leaves it to its TTL.
Release(w) ==
    \/ lock' = (IF lock = w THEN None ELSE lock) /\ UNCHANGED faults
    \/ lock = w /\ lock' = Orphan /\ Fault("write")

TTL == 2 * Window

-----------------------------------------------------------------------------
Init ==
    /\ now = 0
    /\ row = [r \in Requests |-> NoRow]
    /\ state = None
    /\ lock = None
    /\ worker = [w \in Workers |-> Idle]
    /\ silenced \in BOOLEAN
    /\ deliveries = [r \in Requests |-> 0]
    /\ faults = 0

Tick ==
    /\ now < MaxTime
    /\ Prompt => \A w \in Workers : worker[w].pc \notin InGate
    /\ now' = now + 1
    /\ state' = IF state # None THEN (IF now + 1 - state.last >= TTL THEN None ELSE state) ELSE None
    /\ UNCHANGED <<row, lock, worker, silenced, deliveries, faults>>

EndSilence ==
    /\ silenced
    /\ silenced' = FALSE
    /\ UNCHANGED <<now, row, state, lock, worker, deliveries, faults>>

\* The stream hands a request to a worker, the first time or again.
Deliver(w, r) ==
    /\ worker[w].pc = "idle"
    /\ deliveries[r] < MaxDeliveries
    /\ deliveries' = [deliveries EXCEPT ![r] = @ + 1]
    /\ worker' = [worker EXCEPT ![w] = [Idle EXCEPT !.pc = "gate", !.req = r]]
    /\ UNCHANGED <<now, row, state, lock, silenced, faults>>

-----------------------------------------------------------------------------
(* The gate. *)

EnterGate(w) ==
    /\ worker[w].pc = "gate"
    /\ lock = None
    /\ lock' = w
    /\ Goto(w, "resolve")
    /\ UNCHANGED <<now, row, state, silenced, deliveries, faults>>

\* The wait for the lock times out: the alert is shed as a storm's.
Suppress(w) ==
    /\ worker[w].pc = "gate"
    /\ lock # None
    /\ worker' = [worker EXCEPT ![w] = Idle]
    /\ UNCHANGED <<now, row, state, lock, silenced, deliveries, faults>>

\* validate_backpressure turns redis_unavailable into a retry.
GateUnavailable(w) ==
    /\ worker[w].pc = "gate"
    /\ Fault("gate")
    /\ Goto(w, "failed")
    /\ UNCHANGED <<now, row, state, lock, silenced, deliveries>>

\* The lock's TTL passes: the holder died, or is slower than its renewals.
LockExpires ==
    /\ \/ lock = Orphan /\ UNCHANGED faults
       \/ lock \in Workers /\ Fault("lapse")
    /\ lock' = None
    /\ UNCHANGED <<now, row, state, worker, silenced, deliveries>>

\* _refresh_distributed_lock finds another owner, or Redis does not answer.
RenewalFails(w) ==
    /\ worker[w].pc \in InGate /\ ~worker[w].lost
    /\ \/ lock # w /\ UNCHANGED faults
       \/ lock = w /\ Fault("renew")
    /\ worker' = [worker EXCEPT ![w].lost = TRUE]
    /\ UNCHANGED <<now, row, state, lock, silenced, deliveries>>

-----------------------------------------------------------------------------
(* resolve_dedup. *)

Keyed == {r \in Requests : row[r].status = "completed"}

Originals == {r \in Keyed : ~row[r].dup}

\* timestamp >= now - window
Recent(S, window) == {r \in S : now - row[r].ts <= window}

\* ORDER BY timestamp DESC, id DESC LIMIT 1
Latest(S) ==
    {r \in S : \A q \in S :
        row[q].ts < row[r].ts \/ (row[q].ts = row[r].ts /\ row[q].id <= row[r].id)}

\* _has_reusable_analysis: the "unknown" analysis is neither degraded nor pending.
Reusable(ai) == ai \in {"real", "unknown"}

\* Mutant: a chain that outlives the window is never rebuilt.
Rechains_Never(s) == FALSE

Rechains(s) ==
    /\ now - s.first > LiveWindow
    /\ now - s.last <= LiveWindow
    /\ now - s.first <= ReuseWindow

Resolved(w, pc, act, orig, reset, ai) ==
    worker' = [worker EXCEPT ![w] = [@ EXCEPT !.pc = pc, !.act = act, !.orig = orig,
                                              !.reset = reset, !.ai = ai]]

\* The Redis half; a failed read is a missing state.
ReadState(w) ==
    /\ worker[w].pc = "resolve"
    /\ \E s \in {state, None} :
        /\ \/ s = state /\ UNCHANGED faults
           \/ s # state /\ Fault("read")
        /\ IF s # None /\ Reusable(s.ai) /\ (Rechains(s) \/ now - s.last <= LiveWindow)
           THEN IF Rechains(s)
                THEN Resolved(w, "persist", "rechain", s.orig, TRUE, s.ai)
                ELSE Resolved(w, "persist", "reuse", s.orig, FALSE, s.ai)
           ELSE Resolved(w, "fallback", "new", None,
                         s # None /\ now - s.last > LiveWindow, "unknown")
    /\ UNCHANGED <<now, row, state, lock, silenced, deliveries>>

\* The database half: the newest original of the window, if its analysis answers.
FallbackRead(w) ==
    /\ worker[w].pc = "fallback"
    /\ LET c == {o \in Latest(Recent(Originals, LiveWindow)) : Reusable(row[o].ai)} IN
        \/ \E o \in c : Resolved(w, "persist", "reuse", o, FALSE, row[o].ai)
        \/ c = {} /\ Goto(w, "silence")
    /\ UNCHANGED <<now, row, state, lock, silenced, deliveries, faults>>

-----------------------------------------------------------------------------
(* The analysis. *)

\* A silenced alert is not analysed; silences that cannot be loaded do not match.
CheckSilence(w) ==
    /\ worker[w].pc = "silence"
    /\ \/ silenced /\ Goto(w, "persist") /\ UNCHANGED faults
       \/ ~silenced /\ Goto(w, "placeholder") /\ UNCHANGED faults
       \/ silenced /\ Fault("read") /\ Goto(w, "placeholder")
    /\ UNCHANGED <<now, row, state, lock, silenced, deliveries>>

\* dedup_remember.lua
Remembered(orig, ai, reset) ==
    [orig |-> orig, first |-> IF state # None /\ ~reset THEN state.first ELSE now,
     last |-> now, ai |-> ai]

\* remember_dedup_state swallows a failed write.
RememberDedupState(orig, ai, reset) ==
    \/ state' = Remembered(orig, ai, reset) /\ UNCHANGED faults
    \/ Fault("write") /\ UNCHANGED state

Placeholder(w) ==
    /\ worker[w].pc = "placeholder"
    /\ RememberDedupState(None, "pending", worker[w].reset)
    /\ Goto(w, "analyze")
    /\ UNCHANGED <<now, row, lock, silenced, deliveries>>

Analyze(w) ==
    /\ worker[w].pc = "analyze"
    /\ \E ai \in Answers :
        worker' = [worker EXCEPT ![w].pc = "persist", ![w].ai = ai]
    /\ UNCHANGED <<now, row, state, lock, silenced, deliveries, faults>>

-----------------------------------------------------------------------------
(* persist_and_schedule. *)

CheckLock(w) ==
    /\ worker[w].pc = "persist"
    /\ Goto(w, IF worker[w].lost THEN "failing" ELSE "save")
    /\ UNCHANGED <<now, row, state, lock, silenced, deliveries, faults>>

\* The original an event belongs to.
Thread(r) == IF row[r].dup THEN row[r].of ELSE r

\* What the recheck looks at: a rechain yields to a recent original, any other
\* save to a recent event.
Rivals(w) == Recent(IF worker[w].act = "rechain" THEN Originals ELSE Keyed, Window)

\* Only without a rival does the earlier decision count.
Decided(w) == IF worker[w].act = "reuse" THEN worker[w].orig ELSE None

\* Mutant: a NEW decision is not checked again.
DuplicateOf_TrustsNew(w) ==
    IF worker[w].act = "new" \/ Rivals(w) = {} THEN {Decided(w)}
    ELSE {Thread(r) : r \in Latest(Rivals(w))}

\* Mutant: the newest event is taken for an original.
DuplicateOf_Newest(w) == IF Rivals(w) = {} THEN {Decided(w)} ELSE Latest(Rivals(w))

\* _resolve_duplicate_status: the one original the event is a duplicate of, or None.
DuplicateOf(w) ==
    IF Rivals(w) = {} THEN {Decided(w)}
    ELSE {Thread(r) : r \in Latest(Rivals(w))}

Rows == {r \in Requests : row[r].status # "none"}

\* Mutant: a retry's row is inserted once more.
Filled_Inserts(w, o) ==
    [status |-> "completed", id |-> Cardinality(Rows) + 1, ts |-> now, saved |-> now,
     dup |-> o # None, of |-> o, count |-> IF o # None THEN row[o].count + 1 ELSE 1,
     ai |-> worker[w].ai]

\* The request's row: a retry's row keeps its id and timestamp.
Filled(w, o) ==
    LET r == worker[w].req
        fresh == row[r].status = "none"
    IN  [status |-> "completed", id |-> IF fresh THEN Cardinality(Rows) + 1 ELSE row[r].id,
         ts |-> IF fresh THEN now ELSE row[r].ts, saved |-> now, dup |-> o # None, of |-> o,
         count |-> IF o # None THEN row[o].count + 1 ELSE 1, ai |-> worker[w].ai]

\* Mutant: a request that is already completed is saved once more.
SaveWebhookData_Again(w) ==
    \E o \in DuplicateOf(w) :
        row' = [r \in Requests |->
                    IF r = o THEN [row[r] EXCEPT !.count = @ + 1]
                    ELSE IF r = worker[w].req THEN Filled(w, o)
                    ELSE row[r]]

\* save_webhook_data_in_session: _resolve_request_id returns a completed row as
\* it is; a duplicate adds one to its original's count.
SaveWebhookData(w) ==
    \/ /\ row[worker[w].req].status = "completed"
       /\ UNCHANGED row
    \/ /\ row[worker[w].req].status # "completed"
       /\ \E o \in DuplicateOf(w) :
            row' = [r \in Requests |->
                        IF r = worker[w].req THEN Filled(w, o)
                        ELSE IF r = o THEN [row[r] EXCEPT !.count = @ + 1]
                        ELSE row[r]]

Save(w) ==
    /\ worker[w].pc = "save"
    /\ SaveWebhookData(w)
    /\ Goto(w, "remember")
    /\ UNCHANGED <<now, state, lock, silenced, deliveries, faults>>

\* The state remembers save_result.webhook_id, an original's or a duplicate's.
Remember(w) ==
    /\ worker[w].pc = "remember"
    /\ RememberDedupState(worker[w].req, worker[w].ai, worker[w].reset)
    /\ Goto(w, "leave")
    /\ UNCHANGED <<now, row, lock, silenced, deliveries>>

\* The forwarding tasks are scheduled and the gate is left.
Leave(w) ==
    /\ worker[w].pc = "leave"
    /\ Release(w)
    /\ worker' = [worker EXCEPT ![w] = Idle]
    /\ UNCHANGED <<now, row, state, silenced, deliveries>>

-----------------------------------------------------------------------------
(* Failures. *)

\* Any retryable error of a stage.
Fail(w) ==
    /\ worker[w].pc \in InGate \ {"failing"}
    /\ Fault("process")
    /\ Goto(w, "failing")
    /\ UNCHANGED <<now, row, state, lock, silenced, deliveries>>

Unwind(w) ==
    /\ worker[w].pc = "failing"
    /\ Release(w)
    /\ Goto(w, "failed")
    /\ UNCHANGED <<now, row, state, silenced, deliveries>>

\* record_raw_ingest_retry: a row without a dedup_key, dated when the webhook
\* was received; an existing row keeps everything the dedup reads.
RecordRetry(w) ==
    /\ worker[w].pc = "failed"
    /\ \E t \in 0 .. now :
        row' = [row EXCEPT ![worker[w].req] =
                   IF @.status = "none"
                   THEN [NoRow EXCEPT !.status = "retry", !.id = Cardinality(Rows) + 1, !.ts = t]
                   ELSE @]
    /\ worker' = [worker EXCEPT ![w] = Idle]
    /\ UNCHANGED <<now, state, lock, silenced, deliveries, faults>>

Crash(w) ==
    /\ worker[w].pc # "idle"
    /\ Fault("crash")
    /\ lock' = IF lock = w THEN Orphan ELSE lock
    /\ worker' = [worker EXCEPT ![w] = Idle]
    /\ UNCHANGED <<now, row, state, silenced, deliveries>>

-----------------------------------------------------------------------------
Next ==
    \/ Tick \/ EndSilence \/ LockExpires
    \/ \E w \in Workers :
        \/ \E r \in Requests : Deliver(w, r)
        \/ EnterGate(w) \/ Suppress(w) \/ GateUnavailable(w) \/ RenewalFails(w)
        \/ ReadState(w) \/ FallbackRead(w) \/ CheckSilence(w) \/ Placeholder(w) \/ Analyze(w)
        \/ CheckLock(w) \/ Save(w) \/ Remember(w) \/ Leave(w)
        \/ Fail(w) \/ Unwind(w) \/ RecordRetry(w) \/ Crash(w)

Spec == Init /\ [][Next]_vars

-----------------------------------------------------------------------------
\* Types (models/webhook.py, services/dedup.py).
TypeOK ==
    /\ now \in 0 .. MaxTime
    /\ row \in [Requests -> Row]
    /\ state \in DedupState \cup {None}
    /\ lock \in Workers \cup {None, Orphan}
    /\ worker \in [Workers -> Worker]
    /\ silenced \in BOOLEAN
    /\ deliveries \in [Requests -> 0 .. MaxDeliveries]
    /\ faults \in 0 .. MaxFaults

\* The recheck under the advisory lock: of two originals of a key, the later
\* was committed when the earlier one's timestamp had left the window, whatever
\* the workers resolved before (_resolve_duplicate_status, command_service.py).
RecentOriginalWins ==
    \A r, q \in Originals : r # q =>
        row[r].saved > row[q].ts + Window \/ row[q].saved > row[r].ts + Window

\* No two originals of a key are committed within one window: two workers that
\* both resolved NEW cannot both persist an original (command_service.py).
OneOriginal ==
    \A r, q \in Originals : r # q =>
        row[r].saved > row[q].saved + Window \/ row[q].saved > row[r].saved + Window

\* A duplicate names an original, never another duplicate (_save_duplicate_event).
DuplicateOfOriginal ==
    \A r \in Keyed : row[r].dup => row[r].of \in Originals

\* An original's duplicate_count is the number of its duplicates and itself,
\* each request counted once however often it is delivered.
CountMatches ==
    \A r \in Originals : row[r].count = 1 + Cardinality({q \in Keyed : row[q].of = r})

\* An alert is not filed under an original that has left the window: the chain
\* is rebuilt by then (RECHAIN in resolve_dedup).
ThreadIsCurrent ==
    [][\A r \in Requests :
        row[r].status # "completed" /\ row'[r].status = "completed" /\ row'[r].dup =>
            now <= row[row'[r].of].saved + LiveWindow]_vars

=============================================================================
