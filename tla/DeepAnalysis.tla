---------------------------- MODULE DeepAnalysis ----------------------------
(***************************************************************************)
(* The life of a deep analysis: submitted to a gateway by the operator or  *)
(* by the outbox, polled by one-shot tasks under a lease on next_poll_at,  *)
(* completed, failed or timed out, announced, and retried by hand          *)
(* (services/analysis/deep_analysis_poll.py and _workflow.py).             *)
(*                                                                         *)
(* Times are countdowns: `due' and `left' are ticks until an instant,      *)
(* `age' the ticks since the start of the time out, all saturating.  A     *)
(* gateway is external and answers anything; a text is a small number.     *)
(***************************************************************************)
EXTENDS Naturals, FiniteSets

CONSTANTS
    Records,          \* deep_analyses rows
    Pollers,          \* worker processes running deep_analysis_poll_task
    Gateways,         \* gateways a run may be submitted to
    Default,          \* the gateway of the flat settings
    Masking,          \* whether build_pseudonym_session masks the prompt
    MaxText,          \* versions of a session's text
    Hits,             \* policy.stability_required_hits
    MaxErrors,        \* policy.max_consecutive_errors
    Degrade,          \* policy.enable_degradation
    Timeout,          \* policy.timeout_seconds, in ticks
    FirstDelay,       \* policy.poll_initial_delay_seconds
    MaxDelay,         \* policy.poll_max_delay_seconds
    Multiplier,       \* policy.poll_backoff_multiplier
    Lease,            \* policy.poll_claim_lease_seconds
    MaxAttempts,      \* bound: poll_attempts saturates once the delay is MaxDelay
    Budgets,          \* bound: how many manual retries, and how many crashes, overruns and lost schedules
    Nobody            \* "no record"

\* DeepAnalysisPollPolicy.delay_for_attempt, for attempts up to the bound.
DelayForAttempt[n \in 0 .. MaxAttempts] ==
    IF n = 0 THEN FirstDelay
    ELSE LET d == DelayForAttempt[n - 1] * Multiplier
         IN  IF d >= MaxDelay THEN MaxDelay ELSE d

\* What the constants are.  That the delays stay within MaxDelay follows from their
\* definition by induction; MaxAttempts is where they have reached it.
DeepAnalysisAssumption ==
    /\ Default \in Gateways /\ Nobody \notin Records /\ IsFiniteSet(Pollers)
    /\ Masking \in BOOLEAN /\ Degrade \in BOOLEAN
    /\ MaxText \in Nat \ {0} /\ Hits \in Nat \ {0} /\ MaxErrors \in Nat \ {0}
    /\ Timeout \in Nat \ {0} /\ Lease \in Nat \ {0}
    /\ FirstDelay \in Nat \ {0} /\ MaxDelay \in Nat /\ Multiplier \in Nat \ {0}
    /\ FirstDelay <= MaxDelay
    /\ MaxAttempts \in Nat
    /\ Budgets \subseteq [faults : Nat, retries : Nat]
    /\ \A n \in 0 .. MaxAttempts : DelayForAttempt[n] \in 0 .. MaxDelay
    /\ DelayForAttempt[MaxAttempts] = MaxDelay

VARIABLES
    rec,       \* [Records -> Row]        the table
    stab,      \* [Records -> Snapshot]   the stability key of a record in Redis
    tasks,     \* set of <<record, ticks>>   poll tasks scheduled or queued
    poller,    \* [Pollers -> Poller]
    op,        \* the operator's retry request
    round,     \* [Records -> Nat]        history: manual retries so far
    verdict,   \* [Records -> Nat]        history: the round whose poll settled the row
    notices,   \* [Records -> Nat]        history: notifications sent this round
    trouble,   \* [Records -> Nat]        history: polls of this round that died, overran, or straddle a retry
    seen,      \* [Records -> [1..MaxText -> 0..Hits]]   history: fetches of each text
    asked,     \* set of <<record, gateway>>   history: who was asked for what
    budget     \* what is left of the bounded environment events

vars == <<rec, stab, tasks, poller, op, round, verdict, notices, trouble, seen, asked, budget>>

Text == 0 .. MaxText
Ticks == 0 .. (IF Lease > MaxDelay THEN Lease ELSE MaxDelay)
Age == 0 .. (Timeout + 1)

Row == [status : {"none", "pending", "completed", "failed"}, key : BOOLEAN, gateway : Gateways,
        masked : BOOLEAN, map : BOOLEAN, due : Ticks, attempts : 0 .. MaxAttempts, age : Age,
        text : Text, how : {"none", "local", "final", "stable", "degraded", "failed"}, real : BOOLEAN]

Snapshot == [text : Text, hits : 0 .. Hits, errors : 0 .. MaxErrors, first : BOOLEAN]
NoSnapshot == [text |-> 0, hits |-> 0, errors |-> 0, first |-> FALSE]

Answer == [kind : {"completed", "error", "transient", "running"}, text : Text, final : BOOLEAN]
NoAnswer == [kind |-> "running", text |-> 0, final |-> FALSE]

Update == [status : {"completed", "failed"}, text : Text,
           how : {"final", "stable", "degraded", "failed"}, real : BOOLEAN]
Failed == [status |-> "failed", text |-> 0, how |-> "failed", real |-> TRUE]

PC == {"idle", "check", "compare", "select", "commit", "announce", "skip"}

Poller == [pc : PC, rec : Records \cup {Nobody}, age : Age, attempts : 0 .. MaxAttempts, map : BOOLEAN,
           answer : Answer, snap : Snapshot, upd : Update, left : Ticks, slow : BOOLEAN, round : Nat]

Idle == [pc |-> "idle", rec |-> Nobody, age |-> 0, attempts |-> 0, map |-> FALSE, answer |-> NoAnswer,
         snap |-> NoSnapshot, upd |-> Failed, left |-> 0, slow |-> FALSE, round |-> 0]

OpIdle == [pc |-> "idle", rec |-> Nobody, status |-> "none"]

NoRow == [status |-> "none", key |-> FALSE, gateway |-> Default, masked |-> FALSE, map |-> FALSE, due |-> 0,
          attempts |-> 0, age |-> 0, text |-> 0, how |-> "none", real |-> TRUE]

Least(a, b) == IF a < b THEN a ELSE b
Less(n) == IF n = 0 THEN 0 ELSE n - 1

Fault == budget.faults > 0 /\ budget' = [budget EXCEPT !.faults = @ - 1]

Active(r) == {p \in Pollers : poller[p].rec = r}

Goto(p, pc) == poller' = [poller EXCEPT ![p].pc = pc]
Done(p) == poller' = [poller EXCEPT ![p] = Idle]

\* The poll has its update, and goes on to write it.
Decide(p, u) ==
    poller' = [poller EXCEPT ![p] = [@ EXCEPT !.pc = "select", !.upd = u, !.answer = NoAnswer, !.snap = NoSnapshot,
                                              !.map = FALSE, !.attempts = 0]]

\* The poll came to nothing; the next one is to be scheduled.
Skip(p) ==
    poller' = [poller EXCEPT ![p] = [@ EXCEPT !.pc = "skip", !.answer = NoAnswer, !.snap = NoSnapshot, !.map = FALSE]]

\* _schedule_by_time: the task is written under a fresh id, so one that is
\* already waiting stays; the write may fail, which is only logged.
Schedule(r, d) ==
    \/ tasks' = tasks \cup {<<r, d>>} /\ UNCHANGED budget
    \/ Fault /\ UNCHANGED tasks

-----------------------------------------------------------------------------
Init ==
    /\ rec = [r \in Records |-> NoRow]
    /\ stab = [r \in Records |-> NoSnapshot]
    /\ tasks = {}
    /\ poller = [p \in Pollers |-> Idle]
    /\ op = OpIdle
    /\ round = [r \in Records |-> 0] /\ verdict = [r \in Records |-> 0]
    /\ notices = [r \in Records |-> 0] /\ trouble = [r \in Records |-> 0]
    /\ seen = [r \in Records |-> [t \in 1 .. MaxText |-> 0]]
    /\ asked = {}
    /\ budget \in Budgets

\* A row for a run the gateway g accepted.  request_gateway_analysis returns a
\* session key whenever the result is pending; the map of the pseudonyms is
\* stored by the outbox and not by the console's request.
Submitted(g, keepsMap) ==
    [NoRow EXCEPT !.status = "pending", !.key = TRUE, !.gateway = g, !.masked = Masking,
                  !.map = Masking /\ keepsMap, !.due = DelayForAttempt[0]]

\* A row the local fallback answered: no session, nothing to poll.
Local(r0) == [r0 EXCEPT !.status = "completed", !.how = "local", !.text = 0, !.masked = FALSE, !.real = TRUE]

\* create_deep_analysis of the API, or a delivered outbox row: the row is
\* committed with its first poll due, then the poll is scheduled.
Submit(r) ==
    /\ rec[r].status = "none"
    /\ \/ \E g \in Gateways, keepsMap \in BOOLEAN :
             /\ rec' = [rec EXCEPT ![r] = Submitted(g, keepsMap)]
             /\ Schedule(r, DelayForAttempt[0])
       \/ rec' = [rec EXCEPT ![r] = Local(NoRow)] /\ UNCHANGED <<tasks, budget>>
    /\ UNCHANGED <<stab, poller, op, round, verdict, notices, trouble, seen, asked>>

\* Mutant: the claim does not move next_poll_at.
Claimed_NoLease(r0) == [r0 EXCEPT !.attempts = Least(@ + 1, MaxAttempts)]

\* The UPDATE of _claim_deep_analysis_poll.
Claimed(r0) == [r0 EXCEPT !.attempts = Least(@ + 1, MaxAttempts), !.due = Lease]

\* A poll task arrives: the claim is one conditional UPDATE; a task that came
\* early is put back for the rest of the time, any other is dropped.
Deliver(p, r) ==
    /\ poller[p].pc = "idle"
    /\ <<r, 0>> \in tasks
    /\ \/ /\ rec[r].status = "pending" /\ rec[r].due = 0
          /\ rec' = [rec EXCEPT ![r] = Claimed(@)]
          /\ poller' = [poller EXCEPT ![p] =
                [Idle EXCEPT !.pc = "check", !.rec = r, !.age = rec[r].age, !.attempts = rec'[r].attempts,
                             !.map = rec[r].map, !.left = Lease, !.round = round[r]]]
          /\ tasks' = tasks \ {<<r, 0>>}
          /\ UNCHANGED budget
       \/ /\ rec[r].status = "pending" /\ rec[r].due > 0
          /\ \/ tasks' = (tasks \ {<<r, 0>>}) \cup {<<r, rec[r].due>>} /\ UNCHANGED budget
             \/ Fault /\ tasks' = tasks \ {<<r, 0>>}
          /\ UNCHANGED <<rec, poller>>
       \/ /\ rec[r].status # "pending"
          /\ tasks' = tasks \ {<<r, 0>>}
          /\ UNCHANGED <<rec, poller, budget>>
    /\ UNCHANGED <<stab, op, round, verdict, notices, trouble, seen, asked>>

\* _failure_update_with_notification: the snapshot is cleared and the failure
\* announced before the row is written.
FailWithNotice(p) ==
    /\ stab' = [stab EXCEPT ![poller[p].rec] = NoSnapshot]
    /\ notices' = [notices EXCEPT ![poller[p].rec] = @ + 1]
    /\ Decide(p, Failed)

\* _handle_poll_timeout: the time out counts from the manual retry if there
\* was one when the row was claimed, else from the creation.
TimesOut(p) ==
    /\ poller[p].pc = "check"
    /\ poller[p].age > Timeout
    /\ FailWithNotice(p)
    /\ UNCHANGED <<rec, tasks, op, round, verdict, trouble, seen, asked, budget>>

\* What poll_gateway_final and poll_session_result make of the gateway's
\* replies.  The default gateway knows no session of another one.
Answers(r) ==
    [kind : {"error", "transient"}, text : {0}, final : {FALSE}]
    \cup IF rec[r].gateway # Default THEN {}
         ELSE {NoAnswer} \cup [kind : {"completed"}, text : 1 .. MaxText, final : BOOLEAN]

Completion(text, how, real) == [status |-> "completed", text |-> text, how |-> how, real |-> real]

\* _completed_update unmasks with the map of the claimed row.
Unmasked(p) == ~rec[poller[p].rec].masked \/ poller[p].map

\* _handle_poll_result of the answer a, up to the read of the stability key.
Handle(p, a) ==
    LET r == poller[p].rec IN
    \/ /\ a.kind = "completed" /\ (a.final \/ Hits <= 1)
       /\ stab' = [stab EXCEPT ![r] = NoSnapshot]
       /\ Decide(p, Completion(a.text, "final", Unmasked(p)))
    \/ /\ \/ a.kind = "completed" /\ ~a.final /\ Hits > 1
          \/ a.kind \in {"error", "transient"}
       /\ poller' = [poller EXCEPT ![p].pc = "compare", ![p].answer = a, ![p].snap = stab[r]]
       /\ UNCHANGED stab
    \/ a.kind = "running" /\ Skip(p) /\ UNCHANGED stab

\* _fetch_poll_result.  poll_deep_analysis_once builds its policy without the
\* row's gateway, so the default gateway is asked.  An unexpected error fails
\* the row without a notification.
Fetch(p) ==
    LET r == poller[p].rec IN
    /\ poller[p].pc = "check"
    /\ poller[p].age <= Timeout
    /\ asked' = asked \cup {<<r, Default>>}
    /\ \/ \E a \in Answers(r) :
             /\ Handle(p, a)
             /\ seen' = IF a.text = 0 THEN seen ELSE [seen EXCEPT ![r][a.text] = Least(@ + 1, Hits)]
       \/ Decide(p, Failed) /\ UNCHANGED <<stab, seen>>
    /\ UNCHANGED <<rec, tasks, op, round, verdict, notices, trouble, budget>>

\* Mutant: any earlier snapshot counts as the same one.
SameSnapshot_Any(s, text) == s.hits > 0

SameSnapshot(s, text) == s.hits > 0 /\ s.text = text

\* _handle_completed_poll_result past the read: the same text once more, or a
\* new one.  Writing the hit drops the first result and the error count.
CompareText(p) ==
    LET r == poller[p].rec  a == poller[p].answer  s == poller[p].snap IN
    /\ poller[p].pc = "compare" /\ a.kind = "completed"
    /\ \/ /\ SameSnapshot(s, a.text) /\ s.hits + 1 < Hits
          /\ stab' = [stab EXCEPT ![r] = [text |-> a.text, hits |-> s.hits + 1, errors |-> 0, first |-> FALSE]]
          /\ Skip(p)
       \/ /\ SameSnapshot(s, a.text) /\ s.hits + 1 >= Hits
          /\ stab' = [stab EXCEPT ![r] = NoSnapshot]
          /\ Decide(p, Completion(a.text, "stable", Unmasked(p)))
       \/ /\ ~SameSnapshot(s, a.text)
          /\ stab' = [stab EXCEPT ![r] = [text |-> a.text, hits |-> 1, errors |-> 0, first |-> TRUE]]
          /\ Skip(p)
    /\ UNCHANGED <<rec, tasks, op, round, verdict, notices, trouble, seen, asked, budget>>

\* _handle_error_poll_result past the read.  The degraded completion does not
\* unmask its text.
CompareError(p) ==
    LET r == poller[p].rec  a == poller[p].answer  s == poller[p].snap IN
    /\ poller[p].pc = "compare" /\ a.kind \in {"error", "transient"}
    /\ \/ /\ s.first /\ s.errors + 1 >= MaxErrors /\ Degrade
          /\ stab' = [stab EXCEPT ![r] = NoSnapshot]
          /\ Decide(p, Completion(s.text, "degraded", ~rec[r].masked))
          /\ UNCHANGED notices
       \/ /\ s.first /\ ~(s.errors + 1 >= MaxErrors /\ Degrade)
          /\ stab' = [stab EXCEPT ![r] = [s EXCEPT !.errors = Least(@ + 1, MaxErrors)]]
          /\ Skip(p) /\ UNCHANGED notices
       \/ /\ ~s.first /\ a.kind = "transient"
          /\ Skip(p) /\ UNCHANGED <<stab, notices>>
       \/ /\ ~s.first /\ a.kind = "error"
          /\ FailWithNotice(p)
    /\ UNCHANGED <<rec, tasks, op, round, verdict, trouble, seen, asked, budget>>

StillPending(r0) == r0.status = "pending"

\* The SELECT of poll_deep_analysis_once, which takes no lock.
SelectRow(p) ==
    /\ poller[p].pc = "select"
    /\ IF StillPending(rec[poller[p].rec]) THEN Goto(p, "commit") ELSE Done(p)
    /\ UNCHANGED <<rec, stab, tasks, op, round, verdict, notices, trouble, seen, asked, budget>>

Settled(r0, u) ==
    [r0 EXCEPT !.status = u.status, !.text = u.text, !.how = u.how, !.real = u.real, !.due = 0,
               !.map = IF u.how \in {"final", "stable"} THEN FALSE ELSE @]

\* The UPDATE by primary key and its commit.
CommitRow(p) ==
    LET r == poller[p].rec  u == poller[p].upd IN
    /\ poller[p].pc = "commit"
    /\ rec' = [rec EXCEPT ![r] = Settled(@, u)]
    /\ verdict' = [verdict EXCEPT ![r] = poller[p].round]
    /\ IF u.status = "completed" THEN Goto(p, "announce") ELSE Done(p)
    /\ UNCHANGED <<stab, tasks, op, round, notices, trouble, seen, asked, budget>>

\* The success notification, after the commit.
Announce(p) ==
    /\ poller[p].pc = "announce"
    /\ notices' = [notices EXCEPT ![poller[p].rec] = @ + 1]
    /\ Done(p)
    /\ UNCHANGED <<rec, stab, tasks, op, round, verdict, trouble, seen, asked, budget>>

\* Mutant: the remaining time is not floored.
NextDelay_NoFloor(attempts, age) == Least(DelayForAttempt[attempts], Timeout - age)

\* clamp_delay_to_timeout(delay_for_attempt(attempts), start of the time out).
NextDelay(attempts, age) ==
    IF age >= Timeout THEN 1 ELSE Least(DelayForAttempt[attempts], Timeout - age)

\* _schedule_next_deep_analysis_poll: the row's next_poll_at is overwritten,
\* whoever holds it now.
ScheduleNext(p) ==
    LET r == poller[p].rec  d == NextDelay(poller[p].attempts, poller[p].age) IN
    /\ poller[p].pc = "skip"
    /\ IF rec[r].status = "pending"
       THEN rec' = [rec EXCEPT ![r].due = d] /\ Schedule(r, d)
       ELSE UNCHANGED <<rec, tasks, budget>>
    /\ Done(p)
    /\ UNCHANGED <<stab, op, round, verdict, notices, trouble, seen, asked>>

\* The worker dies, or a statement or Redis raises: the poll is abandoned and
\* the row keeps its lease.
Crash(p) ==
    /\ poller[p].pc # "idle"
    /\ Fault
    /\ trouble' = [trouble EXCEPT ![poller[p].rec] = @ + 1]
    /\ Done(p)
    /\ UNCHANGED <<rec, stab, tasks, op, round, verdict, notices, seen, asked>>

\* A poll outlives its lease.
Overrun(p) ==
    /\ poller[p].pc # "idle" /\ poller[p].left = 1 /\ ~poller[p].slow
    /\ Fault
    /\ trouble' = [trouble EXCEPT ![poller[p].rec] = @ + 1]
    /\ poller' = [poller EXCEPT ![p].slow = TRUE]
    /\ UNCHANGED <<rec, stab, tasks, op, round, verdict, notices, seen, asked>>

\* Mutant: rows whose next poll was never written are all the scan looks at.
Overdue_Never(r0) == FALSE

Overdue(r0) == r0.status = "pending" /\ r0.due = 0

\* run_deep_analysis_poll_scan, which makes up for lost tasks.
Scan ==
    LET missing == {r \in Records : Overdue(rec[r]) /\ <<r, 0>> \notin tasks} IN
    /\ missing # {}
    /\ tasks' = tasks \cup {<<r, 0>> : r \in missing}
    /\ UNCHANGED <<rec, stab, poller, op, round, verdict, notices, trouble, seen, asked, budget>>

\* retry_deep_analysis_record loads the row; every status may be retried.
RetryLoad(r) ==
    /\ op.pc = "idle" /\ budget.retries > 0
    /\ rec[r].status # "none"
    /\ op' = [pc |-> "loaded", rec |-> r, status |-> rec[r].status]
    /\ budget' = [budget EXCEPT !.retries = @ - 1]
    /\ UNCHANGED <<rec, stab, tasks, poller, round, verdict, notices, trouble, seen, asked>>

\* Mutant: a settled row is not reopened.
Reset_KeepsStatus(r0, loaded) ==
    [r0 EXCEPT !.text = 0, !.how = "none", !.real = TRUE, !.attempts = 0, !.due = 0, !.age = 0]

\* reset_deep_analysis_for_background_poll and its commit.  An attribute set to
\* the value it was loaded with is not written, the status included.
Reset(r0, loaded) ==
    [r0 EXCEPT !.status = IF loaded = "pending" THEN @ ELSE "pending",
               !.text = 0, !.how = "none", !.real = TRUE, !.attempts = 0, !.due = 0, !.age = 0]

\* The history variables at the start of a round that finds n polls under way.
NewRound(r, n) ==
    /\ round' = [round EXCEPT ![r] = @ + 1]
    /\ notices' = [notices EXCEPT ![r] = 0]
    /\ trouble' = [trouble EXCEPT ![r] = n]

RetryReset ==
    LET r == op.rec IN
    /\ op.pc = "loaded" /\ rec[r].key
    /\ rec' = [rec EXCEPT ![r] = Reset(@, op.status)]
    /\ op' = [op EXCEPT !.pc = "clear"]
    /\ NewRound(r, Cardinality(Active(r)) + IF rec[r].status = op.status THEN 0 ELSE 1)
    /\ UNCHANGED <<stab, tasks, poller, verdict, seen, asked, budget>>

\* clear_deep_analysis_poll_state_best_effort, then the poll is scheduled.
RetryClear ==
    /\ op.pc = "clear"
    /\ \/ stab' = [stab EXCEPT ![op.rec] = NoSnapshot] /\ UNCHANGED budget
       \/ Fault /\ UNCHANGED stab
    /\ op' = [op EXCEPT !.pc = "schedule"]
    /\ UNCHANGED <<rec, tasks, poller, round, verdict, notices, trouble, seen, asked>>

RetrySchedule ==
    /\ op.pc = "schedule"
    /\ Schedule(op.rec, 0)
    /\ op' = OpIdle
    /\ UNCHANGED <<rec, stab, poller, round, verdict, notices, trouble, seen, asked>>

\* A row without a session is submitted again: to the gateway, which gives it
\* a session, or to the local fallback, or not at all.
Resubmit ==
    LET r == op.rec IN
    /\ op.pc = "loaded" /\ ~rec[r].key
    /\ op' = OpIdle
    /\ \/ /\ rec' = [rec EXCEPT ![r] = [Submitted(rec[r].gateway, FALSE) EXCEPT !.map = rec[r].map]]
          /\ NewRound(r, 0)
          /\ Schedule(r, DelayForAttempt[0])
          /\ UNCHANGED verdict
       \/ /\ rec' = [rec EXCEPT ![r] = Local(rec[r])]
          /\ notices' = [notices EXCEPT ![r] = 1]
          /\ round' = [round EXCEPT ![r] = @ + 1]
          /\ verdict' = [verdict EXCEPT ![r] = round[r] + 1]
          /\ UNCHANGED <<tasks, budget, trouble>>
       \/ UNCHANGED <<rec, tasks, budget, round, verdict, notices, trouble>>
    /\ UNCHANGED <<stab, poller, seen, asked>>

\* Time passes.  A poll that has not overrun ends within its lease.
Tick ==
    /\ \A p \in Pollers : poller[p].pc # "idle" => poller[p].left > 1 \/ poller[p].slow
    /\ \/ \E r \in Records : rec[r].status = "pending" /\ (rec[r].due > 0 \/ rec[r].age <= Timeout)
       \/ \E t \in tasks : t[2] > 0
       \/ \E p \in Pollers : poller[p].left > 0
    /\ rec' = [r \in Records |-> IF rec[r].status # "pending" THEN rec[r]
                                 ELSE [rec[r] EXCEPT !.due = Less(@), !.age = Least(@ + 1, Timeout + 1)]]
    /\ tasks' = {<<t[1], Less(t[2])>> : t \in tasks}
    /\ poller' = [p \in Pollers |-> IF poller[p].pc = "idle" THEN poller[p]
                                    ELSE [poller[p] EXCEPT !.left = Less(@), !.age = Least(@ + 1, Timeout + 1)]]
    /\ UNCHANGED <<stab, op, round, verdict, notices, trouble, seen, asked, budget>>

\* The steps of a poll under way.
Poll(p) ==
    \/ TimesOut(p) \/ Fetch(p) \/ CompareText(p) \/ CompareError(p)
    \/ SelectRow(p) \/ CommitRow(p) \/ Announce(p) \/ ScheduleNext(p)

Retry == RetryReset \/ RetryClear \/ RetrySchedule \/ Resubmit

Next ==
    \/ \E r \in Records : Submit(r) \/ RetryLoad(r)
    \/ \E p \in Pollers : Poll(p) \/ Crash(p) \/ Overrun(p)
    \/ \E p \in Pollers, r \in Records : Deliver(p, r)
    \/ Retry \/ Scan \/ Tick

Spec == Init /\ [][Next]_vars

\* Workers take ready tasks and finish their polls, the scheduler runs the
\* scan, and time passes.
Fairness ==
    /\ \A r \in Records : WF_vars(\E p \in Pollers : Deliver(p, r))
    /\ \A p \in Pollers : WF_vars(Poll(p)) /\ WF_vars(Overrun(p))
    /\ WF_vars(Retry) /\ WF_vars(Scan) /\ WF_vars(Tick)

FairSpec == Spec /\ Fairness

-----------------------------------------------------------------------------
TypeOK ==
    /\ rec \in [Records -> Row]
    /\ stab \in [Records -> Snapshot]
    /\ tasks \subseteq Records \X Ticks
    /\ poller \in [Pollers -> Poller]
    /\ op \in [pc : {"idle", "loaded", "clear", "schedule"}, rec : Records \cup {Nobody},
               status : {"none", "pending", "completed", "failed"}]
    /\ round \in [Records -> Nat] /\ verdict \in [Records -> Nat]
    /\ notices \in [Records -> Nat] /\ trouble \in [Records -> Nat]
    /\ seen \in [Records -> [1 .. MaxText -> 0 .. Hits]]
    /\ asked \subseteq Records \X Gateways
    /\ budget \in [faults : Nat, retries : Nat]

\* A round of polling is announced once; every further notice, and every
\* contradiction between two of them, needs a poll that died, overran its lease
\* or straddled a manual retry.
NoticeBudget == \A r \in Records : notices[r] <= 1 + trouble[r]

\* Unless a poll was disturbed, a settled row was settled by a poll that was
\* claimed in the current round, and a completed one still has its report.
VerdictOfRound ==
    \A r \in Records :
        rec[r].status \in {"completed", "failed"} /\ trouble[r] = 0
            => verdict[r] = round[r] /\ (rec[r].status = "completed" => rec[r].how # "none")

\* A report the gateway did not call final was fetched unchanged as often as
\* the stability check asks, over all interleavings of the reads and writes of
\* the Redis snapshot; a degraded one was really received.
ReportSettled ==
    \A r \in Records :
        /\ rec[r].how = "stable" => seen[r][rec[r].text] >= Hits
        /\ rec[r].how \in {"final", "degraded"} => rec[r].text > 0 /\ seen[r][rec[r].text] > 0

\* All three: a poll notifies within the budget, its verdict belongs to the round it
\* was claimed in, and the report it writes has settled.
DeepVerdict == TypeOK /\ NoticeBudget /\ VerdictOfRound /\ ReportSettled

\* A pending analysis is settled in the end, whatever tasks are lost: the scan
\* finds the row again and the time out ends the polling.
EventuallyDone == \A r \in Records : rec[r].status = "pending" ~> rec[r].status # "pending"

\* models/analysis.py:63: "Which gateway this run was submitted to. The poller
\* MUST ask the same one".
CollectedWhereSubmitted == \A q \in asked : q[2] = rec[q[1]].gateway

\* deep_analysis_trigger.py:260: "the poller unmasks the report with the map
\* persisted on the DeepAnalysis row".
\* The code does not keep this: README, section 6.
ReportUnmasked == \A r \in Records : rec[r].how \in {"final", "stable", "degraded"} => rec[r].real
=============================================================================
