----------------------------- MODULE Incidents ------------------------------
(***************************************************************************)
(* Alerts grouped into incidents, and everything that may change one: the  *)
(* grouping scan (services/incidents/grouping.py), the LLM summary         *)
(* (summary.py), the recurrence link (recurrence.py), the operators'       *)
(* workflow, undo, close, reopen, merge and split                          *)
(* (services/operations/workflow.py, api/v1/incidents.py), the buttons of  *)
(* an incident's chat card (feishu_actions.py) and retention's closing of  *)
(* old incidents (data_maintenance.py).                                    *)
(*                                                                         *)
(* The scan and every request load rows, compute on their copies, and      *)
(* flush: SQLAlchemy writes only the attributes that changed, so two       *)
(* overlapping transactions may both win, column by column (Flush).  Only  *)
(* the scan is serialized, by an advisory lock.  A tick is a few minutes;  *)
(* time 0 stands for NULL.                                                 *)
(***************************************************************************)
EXTENDS Integers, FiniteSets, SequencesExt

CONSTANTS
    Events,           \* webhook_events rows
    Info,             \* [Events -> what the alert says: see EventInfo]
    Slots,            \* ids of incidents the scan may create
    SplitSlots,       \* ids of incidents a split may create
    Operators,        \* concurrent requests
    Summarisers,      \* concurrent runs of the summary task
    Changes,          \* the workflow patches operators send
    Window,           \* _INCIDENT_WINDOW_MINUTES
    Quiet,            \* _INCIDENT_QUIET_MINUTES
    AutoClose,        \* incident_auto_close_days
    MaxMembers,       \* _MAX_MEMBERS_PER_INCIDENT
    Floor,            \* rank of INCIDENT_MIN_IMPORTANCE
    SummaryFloor,     \* rank of INCIDENT_SUMMARY_MIN_IMPORTANCE
    Sla,              \* [rank -> ticks to acknowledge]; 0 is "not covered"
    MaxTries,         \* _SUMMARY_MAX_ATTEMPTS
    Lease,            \* _SUMMARY_LEASE_SECONDS
    MaxNow,           \* bound on time
    Limits,           \* bounds: the alerts of a behaviour, its requests, merges and splits, summary runs, crashes
    None

\* What the constants are.
Sane ==
    /\ Slots \cap SplitSlots = {} /\ None \notin Slots \cup SplitSlots \cup Operators
    /\ Window \in Nat /\ Quiet \in Nat /\ AutoClose \in Nat /\ MaxMembers \in Nat \ {0}
    /\ MaxTries \in Nat \ {0} /\ Lease \in Nat /\ MaxNow \in Nat \ {0}

Ids == Slots \cup SplitSlots
Dims == {"service", "environment"}
Rank == 0 .. 3        \* low, medium, high; 3 is an importance the system does not know
EventInfo == [id : Nat, source : STRING, conn : Nat, rule : Nat, dims : [Dims -> Nat],
              rank : Rank, recovery : BOOLEAN, synthetic : BOOLEAN, ts : 1 .. MaxNow]

VARIABLES
    now,
    arrived,   \* subset of Events
    member,    \* [Events -> Ids or None]   incident_members
    inc,       \* [Ids -> row]              incidents
    recur,     \* [Ids -> [previous, status]]   incident_recurrences
    trans,     \* sequence of workflow_transitions
    cards,     \* idempotency keys of the notices queued in the outbox
    scan,      \* the grouping transaction
    op,        \* [Operators -> request]
    summ,      \* [Summarisers -> <<incident, claimed>> pairs to write, the current one first]
    ops,       \* requests so far, which also tells time stamps of one tick apart
    left,      \* what is left of the bounds
    last,      \* [Ids -> Nat]   history: the operator decision in force
    lost,      \* history: undos that discarded something later, and whether they could see it
    overlap,   \* history, [counts, states]: incidents whose members, or whose status or
               \* workflow, two transactions that each held a copy both wrote
    shaped,    \* history: events an operator moved by a merge or a split
    died       \* history: incidents whose last summary attempt died

vars == <<now, arrived, member, inc, recur, trans, cards, scan, op, summ, ops, left, last, lost, overlap, shaped, died>>
history == <<last, lost, overlap, shaped, died>>

Workflow == {"open", "acknowledged", "in_progress", "resolved", "ignored"}
TerminalWorkflow == {"resolved", "ignored"}
Unset == <<0, 0>>
Stamp == <<now, ops + 1>>

NoIncident ==
    [status |-> "none", wf |-> "open", owner |-> None, ack |-> FALSE, resolved |-> Unset, ended |-> 0,
     sla |-> 0, escalated |-> FALSE, start |-> 0, upd |-> 0, source |-> "", conn |-> 0, rule |-> 0,
     dims |-> [d \in Dims |-> 0], rank |-> 0, count |-> 0, sum |-> "none", tries |-> 0, next |-> 0, text |-> FALSE]

\* What the unit of work writes: the attributes whose value differs from the
\* loaded one, and updated_at (onupdate) when a change leaves it alone.
Flush(db, loaded, new) ==
    IF new = loaded THEN db
    ELSE [f \in DOMAIN db |->
            IF f = "upd" /\ new.upd = loaded.upd THEN now
            ELSE IF new[f] # loaded[f] THEN new[f] ELSE db[f]]

-----------------------------------------------------------------------------
(* Correlation.  Scores are hundredths; 0 as a dimension, a rule or a        *)
(* connection means "missing".                                               *)

DimensionScore(a, b) ==
    LET shared == {d \in Dims : a[d] # 0 /\ a[d] = b[d]} IN
    IF {"service", "environment"} \subseteq shared THEN 90
    ELSE IF "service" \in shared THEN 72 ELSE 0

DimensionsConflict(a, b) == \E d \in Dims : a[d] # 0 /\ b[d] # 0 /\ a[d] # b[d]

\* Mutant: unmanaged traffic may join a managed source's incident.
ConnectionConflicts_OneSided(c, d) == c # 0 /\ d # 0 /\ c # d

\* _source_connection_conflicts: a missing connection differs from any other.
ConnectionConflicts(c, d) == c # d

EventPairScore(e, f) ==
    LET a == Info[e]  b == Info[f]  dim == DimensionScore(a.dims, b.dims) IN
    IF ConnectionConflicts(a.conn, b.conn) \/ DimensionsConflict(a.dims, b.dims) THEN 0
    ELSE IF a.source = b.source /\ a.rule = b.rule THEN 100
    ELSE IF dim > 0 /\ (a.source = b.source \/ dim >= 80) THEN dim
    ELSE IF a.source = b.source /\ (a.rule = 0 \/ b.rule = 0) THEN 65 ELSE 0

\* _incident_rule_matches: a title without a rule matches every rule.
RuleMatches(rule, row) == rule = 0 \/ row.rule = 0 \/ rule = row.rule

IncidentScore(e, row) ==
    LET a == Info[e]  dim == DimensionScore(a.dims, row.dims) IN
    IF ConnectionConflicts(a.conn, row.conn) \/ DimensionsConflict(a.dims, row.dims) THEN 0
    ELSE IF a.source = row.source /\ RuleMatches(a.rule, row) THEN 100
    ELSE IF dim > 0 /\ (a.source = row.source \/ dim >= 80) THEN dim
    ELSE IF a.source = row.source /\ a.rule = 0 THEN 65 ELSE 0

\* The first element of the list with the best score of at least min.
BestOf(list, Score(_), min) ==
    LET ok == {k \in DOMAIN list : Score(list[k]) >= min} IN
    IF ok = {} THEN None
    ELSE LET top == CHOOSE k \in ok : \A j \in ok : Score(list[j]) <= Score(list[k]) IN
         list[CHOOSE k \in ok : Score(list[k]) = Score(list[top]) /\ \A j \in ok : Score(list[j]) = Score(list[k]) => k <= j]

Near(t, u) == t - Window <= u /\ u <= t + Window

FindMatchingIncident(e, rows, list) ==
    LET Score(i) == IF /\ rows[i].status = "active" /\ rows[i].count < MaxMembers
                       /\ Near(Info[e].ts, rows[i].upd)
                    THEN IncidentScore(e, rows[i]) ELSE 0
    IN  BestOf(list, Score, 65)

FindMatchingCandidate(e, candidates) ==
    LET Score(f) == IF Near(Info[e].ts, Info[f].ts) THEN EventPairScore(e, f) ELSE 0
    IN  BestOf(Reverse(candidates), Score, 65)

FindRecoveryIncident(e, rows, list) ==
    LET Score(i) == IF /\ rows[i].status \in {"active", "quiet"} /\ rows[i].count < MaxMembers
                       /\ ~ConnectionConflicts(Info[e].conn, rows[i].conn)
                       /\ rows[i].start <= Info[e].ts
                    THEN IF Info[e].rule # 0 THEN IncidentScore(e, rows[i])
                         ELSE DimensionScore(Info[e].dims, rows[i].dims)
                    ELSE 0
    IN  BestOf(list, Score, 80)

-----------------------------------------------------------------------------
(* One alert at a time.                                                      *)

\* queue_summary_if_needed.
QueueSummary(row) ==
    IF row.text THEN row
    ELSE IF row.count >= 2 /\ row.rank >= SummaryFloor
         THEN [row EXCEPT !.sum = "pending", !.tries = 0, !.next = now]
         ELSE [row EXCEPT !.sum = "skipped", !.next = 0]

\* apply_auto_sla.
AutoSla(row) ==
    IF row.sla = 0 /\ row.wf \notin TerminalWorkflow /\ ~row.ack /\ Sla[row.rank] # 0
    THEN [row EXCEPT !.sla = now + Sla[row.rank]] ELSE row

CreateIncident(e) ==
    [NoIncident EXCEPT !.status = "active", !.source = Info[e].source, !.conn = Info[e].conn,
                       !.rule = Info[e].rule, !.start = Info[e].ts, !.upd = Info[e].ts,
                       !.rank = Info[e].rank, !.dims = Info[e].dims]

Accepts(row, e) == row.count < MaxMembers /\ ~ConnectionConflicts(Info[e].conn, row.conn)

\* Mutant: the counter is left to the next refresh.
AddEvent_NoCount(row, e) == AutoSla([row EXCEPT !.upd = IF Info[e].ts > @ THEN Info[e].ts ELSE @])

\* _add_event_to_incident.
AddEvent(row, e) ==
    AutoSla([row EXCEPT
        !.count = @ + 1,
        !.upd = IF Info[e].ts > @ THEN Info[e].ts ELSE @,
        !.rank = IF Info[e].rank = 2 \/ @ # 2 THEN Info[e].rank ELSE @,
        !.dims = [d \in Dims |-> IF @[d] = 0 THEN Info[e].dims[d] ELSE @[d]],
        !.source = IF @ # Info[e].source THEN "multiple" ELSE @])

\* _resolve_incident_from_recovery.
ResolveFromRecovery(row, e) ==
    QueueSummary([row EXCEPT !.status = "closed", !.wf = "resolved", !.resolved = <<Info[e].ts, 0>>,
                             !.ended = Info[e].ts, !.upd = Info[e].ts])

\* The loop of run_incident_grouping on one event.  g is the state of the
\* unit of work: the rows, the members it adds, the two lists of incidents, the
\* candidates and the incidents created.
GroupEvent(g, e) ==
    LET Join(h, i, f) == IF ~Accepts(h.rows[i], f) THEN h
                         ELSE [h EXCEPT !.rows[i] = AddEvent(@, f), !.members[f] = i]
        free == {i \in Slots : g.rows[i].status = "none"}
        found == FindMatchingIncident(e, g.rows, g.active)
        partner == FindMatchingCandidate(e, g.candidates)
        recovered == FindRecoveryIncident(e, g.rows, g.recoverable)
        Opened(i) == [g EXCEPT !.rows[i] = CreateIncident(partner), !.active = Append(@, i),
                               !.recoverable = Append(@, i), !.created = Append(@, i),
                               !.candidates = SelectSeq(@, LAMBDA f : f # partner)]
    IN  IF Info[e].synthetic THEN g
        ELSE IF Info[e].recovery
             THEN IF recovered = None \/ ~Accepts(g.rows[recovered], e) THEN g
                  ELSE [g EXCEPT !.rows[recovered] = ResolveFromRecovery(AddEvent(@, e), e),
                                 !.members[e] = recovered]
        ELSE IF Info[e].rank < Floor THEN g
        ELSE IF found # None THEN Join(g, found, e)
        ELSE IF partner = None \/ free = {} THEN [g EXCEPT !.candidates = Append(@, e)]
        ELSE LET i == CHOOSE i \in free : TRUE IN Join(Join(Opened(i), i, partner), i, e)

ByStart(rows, S) == SetToSortSeq(S, LAMBDA i, j : rows[i].start < rows[j].start)

\* The batch is small enough here to hold every unassigned event.
Unassigned ==
    SetToSortSeq({e \in arrived : member[e] = None},
                 LAMBDA e, f : \/ Info[e].ts < Info[f].ts
                               \/ Info[e].ts = Info[f].ts /\ Info[e].id < Info[f].id)

Grouped(rows, todo) ==
    FoldLeft(GroupEvent,
             [rows |-> rows, members |-> [e \in Events |-> None], candidates |-> <<>>, created |-> <<>>,
              active |-> ByStart(rows, {i \in Ids : rows[i].status = "active" /\ rows[i].upd > now - Quiet}),
              recoverable |-> Reverse(ByStart(rows, {i \in Ids : rows[i].status \in {"active", "quiet"}}))],
             todo)

-----------------------------------------------------------------------------
Init ==
    /\ left \in Limits
    /\ now = 1 /\ arrived = {e \in left.alerts : Info[e].ts = 1} /\ member = [e \in Events |-> None]
    /\ inc = [i \in Ids |-> NoIncident]
    /\ recur = [i \in Ids |-> [previous |-> None, status |-> "none"]]
    /\ trans = <<>> /\ cards = {}
    /\ scan = [pc |-> "idle"]
    /\ op = [o \in Operators |-> [pc |-> "idle"]]
    /\ summ = [s \in Summarisers |-> <<>>]
    /\ ops = 0
    /\ last = [i \in Ids |-> 0] /\ lost = {} /\ shaped = {}
    /\ overlap = [counts |-> {}, states |-> {}] /\ died = {}

Arrive(e) ==
    /\ e \in left.alerts \ arrived /\ Info[e].ts <= now
    /\ arrived' = arrived \cup {e}
    /\ UNCHANGED <<now, member, inc, recur, trans, cards, scan, op, summ, ops, left, history>>

\* The reversible state of an incident: _snapshot.
Snapshot(row) == [f \in {"wf", "owner", "ack", "resolved", "sla", "status", "ended"} |-> row[f]]

\* Rows a request holds a copy of; and those a merge does, which writes their members.
Shaping(o) == IF op[o].pc # "idle" /\ op[o].what = "merge" THEN {op[o].i, op[o].j} ELSE {}
Held(o) == IF op[o].pc = "idle" THEN {} ELSE {op[o].i} \cup Shaping(o)

\* Rows whose members, or whose reversible state, the scan under way is about to write.
ScanJoins == IF scan.pc = "idle" THEN {} ELSE {i \in Ids : scan.group.rows[i].count # scan.rows[i].count}
ScanStates ==
    IF scan.pc = "idle" THEN {}
    ELSE {i \in Ids : i \in scan.quiet \/ Snapshot(scan.group.rows[i]) # Snapshot(scan.rows[i])}

-----------------------------------------------------------------------------
(* run_incident_grouping: one transaction under the advisory lock.           *)

\* Mutant: an incident goes quiet whatever its status.
IsQuiet_AnyStatus(row) == row.status # "none" /\ row.upd <= now - Quiet

IsQuiet(row) == row.status = "active" /\ row.upd <= now - Quiet

\* The events are grouped on the loaded rows, and the quiet incidents selected.
\* A request that would wait for the scan's row locks is taken to come before.
ScanLoad ==
    LET g == Grouped(inc, Unassigned) IN
    /\ scan.pc = "idle"
    /\ scan' = [pc |-> "writing", rows |-> inc, group |-> g,
                quiet |-> {i \in Ids : IsQuiet(Flush(inc[i], inc[i], g.rows[i]))}]
    /\ UNCHANGED <<now, arrived, member, inc, recur, trans, cards, op, summ, ops, left, history>>

\* _close_quiet_incidents on one row.
Quieted(row) == QueueSummary([row EXCEPT !.status = "quiet", !.ended = now, !.upd = now])

\* detect_incident_recurrence: the latest incident resolved before this one
\* started, of the same connection, service and environment and with an alert
\* of the same source and rule.
Identity(e) == <<Info[e].source, Info[e].conn, Info[e].rule>>
Recurrence(rows, members, i) ==
    LET Alerts(k) == {Identity(e) : e \in {x \in Events : members[x] = k /\ Info[x].rule # 0}}
        matching == {k \in Ids \ {i} :
                        /\ rows[k].status = "closed" /\ rows[k].wf = "resolved" /\ rows[k].count > 0
                        /\ rows[k].conn = rows[i].conn
                        /\ rows[k].dims = rows[i].dims /\ \A d \in Dims : rows[k].dims[d] # 0
                        /\ rows[k].resolved # Unset /\ rows[k].resolved[1] < rows[i].start
                        /\ Alerts(i) \cap Alerts(k) # {}}
    IN  IF matching = {} \/ rows[i].status # "active" \/ rows[i].count < 2 THEN None
        ELSE CHOOSE k \in matching : \A j \in matching : rows[j].resolved[1] <= rows[k].resolved[1]

\* queue_sla_breach_notifications.
Breached(row) == row.sla # 0 /\ row.sla <= now /\ row.wf \notin TerminalWorkflow /\ ~row.ack

ScanCommit ==
    LET g == scan.group
        grouped == [i \in Ids |-> Flush(inc[i], scan.rows[i], g.rows[i])]
        members == [e \in Events |-> IF g.members[e] # None THEN g.members[e] ELSE member[e]]
        quieted == [i \in Ids |-> IF i \notin scan.quiet THEN grouped[i]
                                  ELSE Flush(grouped[i], g.rows[i], Quieted(g.rows[i]))]
        breached == {i \in Ids : Breached(quieted[i])}
        created == Range(g.created)
        linked == {i \in created : Recurrence(grouped, members, i) # None}
    IN
    /\ scan.pc = "writing"
    /\ inc' = [i \in Ids |-> IF i \notin breached \/ <<"sla", i, quieted[i].sla>> \in cards THEN quieted[i]
                             ELSE Flush(quieted[i], quieted[i], [quieted[i] EXCEPT !.escalated = TRUE])]
    /\ member' = members
    /\ recur' = [i \in Ids |-> IF i \in linked
                               THEN [previous |-> Recurrence(grouped, members, i), status |-> "pending"]
                               ELSE recur[i]]
    /\ cards' = cards \cup {<<"created", i, 0>> : i \in created}
                      \cup {<<"sla", i, quieted[i].sla>> : i \in breached}
    /\ scan' = [pc |-> "idle"]
    /\ overlap' = [counts |-> overlap.counts \cup (ScanJoins \cap UNION {Shaping(o) : o \in Operators}),
                   states |-> overlap.states \cup (ScanStates \cap UNION {Held(o) : o \in Operators})]
    /\ UNCHANGED <<now, arrived, trans, op, summ, ops, left, last, lost, shaped, died>>

-----------------------------------------------------------------------------
(* Operators.  A request loads its rows, and writes them in a later step.    *)

Load(o, what, i, j) ==
    /\ op[o].pc = "idle" /\ left.requests > 0
    /\ inc[i].status # "none"
    /\ op' = [op EXCEPT ![o] = [pc |-> "loaded", what |-> what, i |-> i, j |-> j, row |-> inc[i],
                                other |-> IF j \in Ids THEN inc[j] ELSE NoIncident]]
    /\ UNCHANGED <<now, arrived, member, inc, recur, trans, cards, scan, summ, ops, left, history>>

StartRequest(o) ==
    \E i \in Ids :
        \/ \E c \in Changes \cup {"undo", "reopen"} : Load(o, c, i, None)
        \/ \E j \in Ids \ {i} : inc[j].status # "none" /\ left.shapes > 0 /\ Load(o, "merge", i, j)

\* The end of a request that wrote the rows of W, a merge or split when they are two:
\* a decision in force.
Decided(o, W, id) ==
    /\ ops' = ops + 1
    /\ left' = [left EXCEPT !.requests = @ - 1, !.shapes = IF Cardinality(W) = 2 THEN @ - 1 ELSE @]
    /\ last' = [i \in Ids |-> IF i \in W /\ Snapshot(inc'[i]) # Snapshot(inc[i]) THEN id ELSE last[i]]
    /\ LET others == Operators \ {o}
           shapes == IF Cardinality(W) = 2 THEN W ELSE {}
       IN  overlap' = [counts |-> overlap.counts
                                    \cup (shapes \cap (ScanJoins \cup UNION {Shaping(p) : p \in others})),
                       states |-> overlap.states
                                    \cup (W \cap (ScanStates \cup UNION {Held(p) : p \in others}))]
    /\ op' = [op EXCEPT ![o] = [pc |-> "idle"]]

\* A request the guards turn away.
Refused(o) ==
    /\ op' = [op EXCEPT ![o] = [pc |-> "idle"]]
    /\ UNCHANGED <<now, arrived, member, inc, recur, trans, cards, scan, summ, ops, left, history>>

\* The patch of update_workflow.
Worked(row, c, o) ==
    LET ended == [row EXCEPT !.wf = c, !.resolved = Stamp, !.status = "closed",
                             !.ended = IF @ = 0 THEN now ELSE @]
        open == [row EXCEPT !.wf = c, !.resolved = Unset]
    IN  CASE c \in TerminalWorkflow -> QueueSummary(ended)
          [] c \in {"acknowledged", "in_progress"} -> [row EXCEPT !.wf = c, !.ack = TRUE]
          [] c = "open" /\ row.status = "closed" -> [open EXCEPT !.status = "active", !.ended = 0]
          [] c = "open" /\ row.status # "closed" -> open
          [] c = "assign" -> [row EXCEPT !.owner = o]
          [] c = "clear_sla" -> [row EXCEPT !.sla = 0]

UpdateWorkflow(o) ==
    LET i == op[o].i  row == op[o].row  new == Worked(row, op[o].what, o) IN
    /\ op[o].pc = "loaded" /\ op[o].what \in Changes
    /\ inc' = [inc EXCEPT ![i] = Flush(@, row, new)]
    /\ cards' = IF op[o].what = "resolved" THEN cards \cup {<<"recap", i, 0>>} ELSE cards
    /\ IF Snapshot(new) # Snapshot(row)
       THEN trans' = Append(trans, [id |-> ops + 1, i |-> i, before |-> Snapshot(row), after |-> Snapshot(new),
                                    previous |-> last[i], status |-> "applied"])
       ELSE UNCHANGED trans
    /\ Decided(o, {i}, ops + 1)
    /\ UNCHANGED <<now, arrived, member, recur, scan, summ, lost, shaped, died>>

\* The latest applied transition of an incident; 0 if there is none.
Undoable(i) ==
    LET ks == {k \in DOMAIN trans : trans[k].i = i /\ trans[k].status = "applied"} IN
    IF ks = {} THEN 0 ELSE CHOOSE k \in ks : \A j \in ks : j <= k

\* Mutant: the last transition is taken back whatever happened since.
StillAsLeft_Always(row, t) == TRUE

\* The guard of undo_workflow.
StillAsLeft(row, t) == Snapshot(row) = t.after

\* undo_workflow up to the guard: the transition is read, and locked, after
\* the incident.
UndoCheck(o) ==
    LET i == op[o].i  k == Undoable(i) IN
    /\ op[o].pc = "loaded" /\ op[o].what = "undo"
    /\ ~\E p \in Operators : op[p].pc = "undoing" /\ op[p].i = i
    /\ \/ /\ k # 0 /\ StillAsLeft(op[o].row, trans[k])
          /\ op' = [op EXCEPT ![o] = [pc |-> "undoing", what |-> "undo", i |-> i, k |-> k, row |-> @.row]]
          /\ UNCHANGED <<now, arrived, member, inc, recur, trans, cards, scan, summ, ops, left, history>>
       \/ (IF k = 0 THEN TRUE ELSE ~StillAsLeft(op[o].row, trans[k])) /\ Refused(o)

Restore(row, s) == [f \in DOMAIN row |-> IF f \in DOMAIN s THEN s[f] ELSE row[f]]

UndoCommit(o) ==
    LET i == op[o].i  t == trans[op[o].k]  row == op[o].row IN
    /\ op[o].pc = "undoing"
    /\ inc' = [inc EXCEPT ![i] = Flush(@, row, Restore(row, t.before))]
    /\ trans' = [trans EXCEPT ![op[o].k].status = "undone"]
    /\ lost' = IF last[i] = t.id /\ Snapshot(inc[i]) = t.after THEN lost
               ELSE lost \cup {<<i, Snapshot(inc[i]) # t.after>>}
    /\ Decided(o, {i}, t.previous)
    /\ UNCHANGED <<now, arrived, member, recur, cards, scan, summ, shaped, died>>

Reopened(row) ==
    LET r == [row EXCEPT !.status = "active", !.wf = "open", !.resolved = Unset, !.ended = 0] IN
    IF row.text THEN r ELSE [r EXCEPT !.sum = "none", !.tries = 0, !.next = 0]

\* reopen_incident_endpoint.
Reopen(o) ==
    LET i == op[o].i IN
    /\ op[o].pc = "loaded" /\ op[o].what = "reopen"
    /\ inc' = [inc EXCEPT ![i] = Flush(@, op[o].row, Reopened(op[o].row))]
    /\ Decided(o, {i}, ops + 1)
    /\ UNCHANGED <<now, arrived, member, recur, trans, cards, scan, summ, lost, shaped, died>>

Closed(row) ==
    QueueSummary([row EXCEPT !.status = "closed", !.wf = "resolved",
                             !.resolved = IF @ = Unset THEN Stamp ELSE @, !.ended = IF @ = 0 THEN now ELSE @])

\* close_incident_endpoint, which loads the row under a row lock.
Close(o, i) ==
    /\ op[o].pc = "idle" /\ left.requests > 0
    /\ inc[i].status # "none"
    /\ ~(inc[i].status = "closed" /\ inc[i].wf = "resolved")
    /\ inc' = [inc EXCEPT ![i] = Flush(@, @, Closed(@))]
    /\ Decided(o, {i}, ops + 1)
    /\ UNCHANGED <<now, arrived, member, recur, trans, cards, scan, summ, lost, shaped, died>>

\* A button of the incident's chat card, under a row lock and without a transition:
\* acknowledge, which assigns an incident nobody has, and resolve.
PressCard(o, i, action) ==
    LET row == inc[i]
        taken == [row EXCEPT !.wf = "acknowledged", !.ack = TRUE, !.owner = IF @ = None THEN o ELSE @]
    IN
    /\ op[o].pc = "idle" /\ left.requests > 0
    /\ row.status # "none"
    /\ row.wf \in IF action = "acknowledge" THEN {"open"} ELSE Workflow \ {"resolved"}
    /\ inc' = [inc EXCEPT ![i] = Flush(@, @, IF action = "acknowledge" THEN taken ELSE Closed(@))]
    /\ cards' = IF action = "acknowledge" THEN cards ELSE cards \cup {<<"recap", i, 0>>}
    /\ Decided(o, {i}, ops + 1)
    /\ UNCHANGED <<now, arrived, member, recur, trans, scan, summ, lost, shaped, died>>

Order(rank) == IF rank = 3 THEN 0 ELSE rank + 1

\* _refresh_incident_aggregate, from the members the transaction now sees.
Refreshed(row, S) ==
    IF S = {} THEN [row EXCEPT !.count = 0]
    ELSE LET first == CHOOSE e \in S : \A f \in S : Info[e].ts <= Info[f].ts IN
         [row EXCEPT !.count = Cardinality(S),
                     !.start = Info[first].ts,
                     !.upd = CHOOSE t \in {Info[e].ts : e \in S} : \A e \in S : Info[e].ts <= t,
                     !.source = IF \A e \in S : Info[e].source = Info[first].source THEN Info[first].source
                                ELSE "multiple",
                     !.rank = CHOOSE r \in {Info[e].rank : e \in S} : \A e \in S : Order(Info[e].rank) <= Order(r)]

MembersOf(m, i) == {e \in Events : m[e] = i}

\* What a merge makes of an incident whose members it moved.
MergedAway(row) ==
    [row EXCEPT !.status = "closed", !.wf = "resolved", !.resolved = Stamp, !.ended = IF @ = 0 THEN now ELSE @,
                !.count = 0]

\* merge_incidents of the incident j into i.
Merge(o) ==
    LET i == op[o].i  j == op[o].j
        moved == [e \in Events |-> IF member[e] = j THEN i ELSE member[e]]
    IN
    /\ op[o].pc = "loaded" /\ op[o].what = "merge"
    /\ member' = moved
    /\ inc' = [inc EXCEPT ![j] = Flush(@, op[o].other, MergedAway(op[o].other)),
                          ![i] = Flush(@, op[o].row, Refreshed(op[o].row, MembersOf(moved, i)))]
    /\ shaped' = shaped \cup MembersOf(member, j)
    /\ Decided(o, {i, j}, ops + 1)
    /\ UNCHANGED <<now, arrived, recur, trans, cards, scan, summ, lost, died>>

\* split_incident: the new incident has no connection.
Split(o) ==
    /\ op[o].pc = "idle" /\ left.requests > 0 /\ left.shapes > 0
    /\ \E i \in Ids, j \in SplitSlots : \E S \in SUBSET MembersOf(member, i) :
          LET first == CHOOSE e \in S : \A f \in S : Info[e].ts <= Info[f].ts
              moved == [e \in Events |-> IF e \in S THEN j ELSE member[e]]
          IN
          /\ inc[j].status = "none" /\ S # {} /\ Cardinality(S) < inc[i].count
          /\ member' = moved
          /\ inc' = [inc EXCEPT ![i] = Flush(@, @, Refreshed(@, MembersOf(moved, i))),
                                ![j] = Refreshed([CreateIncident(first) EXCEPT !.conn = 0], S)]
          /\ shaped' = shaped \cup S
          /\ Decided(o, {i, j}, ops + 1)
    /\ UNCHANGED <<now, arrived, recur, trans, cards, scan, summ, lost, died>>

\* review_incident_recurrence, under a row lock.
ReviewRecurrence(i) ==
    /\ recur[i].status = "pending" /\ left.requests > 0
    /\ \E decision \in {"confirmed", "dismissed"} : recur' = [recur EXCEPT ![i].status = decision]
    /\ ops' = ops + 1 /\ left' = [left EXCEPT !.requests = @ - 1]
    /\ UNCHANGED <<now, arrived, member, inc, trans, cards, scan, op, summ, history>>

-----------------------------------------------------------------------------
(* Summaries.                                                                *)

Awaiting(row) == ~row.text /\ row.sum \in {"pending", "retrying", "processing"}

\* _skip_ineligible_summaries.
SkipIneligible(row) ==
    IF row.count < 2 /\ Awaiting(row) THEN [row EXCEPT !.sum = "skipped", !.next = 0, !.upd = now] ELSE row

\* Mutant: the number of attempts is not looked at.
Claimable_NoBudget(row) ==
    row.status \in {"quiet", "closed"} /\ row.count >= 2 /\ Awaiting(row) /\ row.next <= now

\* The rows _claim_pending_summaries selects.
Claimable(row) ==
    /\ row.status \in {"quiet", "closed"} /\ row.count >= 2
    /\ Awaiting(row) /\ row.next <= now /\ row.tries < MaxTries

Claimed(row) == [row EXCEPT !.sum = "processing", !.tries = @ + 1, !.next = now + Lease, !.upd = now]

\* run_pending_incident_summaries: one batch is claimed, and worked off in turn.
ClaimSummaries(s) ==
    LET rows == [i \in Ids |-> SkipIneligible(inc[i])]
        batch == {i \in Ids : Claimable(rows[i])}
    IN
    /\ summ[s] = <<>> /\ left.runs > 0 /\ left' = [left EXCEPT !.runs = @ - 1]
    /\ batch # {} \/ rows # inc
    /\ inc' = [i \in Ids |-> IF i \in batch THEN Claimed(rows[i]) ELSE rows[i]]
    /\ summ' = [summ EXCEPT ![s] = SetToSeq(batch \X {TRUE})]
    /\ UNCHANGED <<now, arrived, member, recur, trans, cards, scan, op, ops, history>>

\* The console's request for a summary, which claims nothing.
TriggerSummary(s, i) ==
    /\ summ[s] = <<>> /\ left.runs > 0 /\ left.requests > 0
    /\ inc[i].status # "none" /\ inc[i].count >= 2
    /\ summ' = [summ EXCEPT ![s] = << <<i, FALSE>> >>]
    /\ ops' = ops + 1 /\ left' = [left EXCEPT !.requests = @ - 1]
    /\ UNCHANGED <<now, arrived, member, inc, recur, trans, cards, scan, op, history>>

Working(i) == \E s \in Summarisers : <<i, TRUE>> \in Range(summ[s])

Written(row) == [row EXCEPT !.text = TRUE, !.sum = "completed", !.next = 0, !.upd = now]

\* The model answered, and the summary is stored whatever became of the incident.
PersistSummary(s) ==
    LET i == Head(summ[s])[1] IN
    /\ summ[s] # <<>>
    /\ inc' = [inc EXCEPT ![i] = Written(@)]
    /\ summ' = [summ EXCEPT ![s] = Tail(@)]
    /\ UNCHANGED <<now, arrived, member, recur, trans, cards, scan, op, ops, left, history>>

\* Mutant: the budget is not looked at when an attempt failed.
AfterFailure_NoBudget(row, retryable) ==
    IF row.text THEN row
    ELSE IF ~retryable THEN [row EXCEPT !.sum = "failed", !.next = 0]
    ELSE [row EXCEPT !.sum = "retrying", !.next = now + 1]

\* _mark_summary_retry.
AfterFailure(row, retryable) ==
    IF row.text THEN row
    ELSE IF ~retryable \/ row.tries >= MaxTries THEN [row EXCEPT !.sum = "failed", !.next = 0]
    ELSE [row EXCEPT !.sum = "retrying", !.next = now + 1]

\* A failed console request leaves the row alone.
FailSummary(s) ==
    LET i == Head(summ[s])[1] IN
    /\ summ[s] # <<>>
    /\ IF Head(summ[s])[2]
       THEN \E retryable \in BOOLEAN : inc' = [inc EXCEPT ![i] = Flush(@, @, AfterFailure(@, retryable))]
       ELSE UNCHANGED inc
    /\ summ' = [summ EXCEPT ![s] = Tail(@)]
    /\ UNCHANGED <<now, arrived, member, recur, trans, cards, scan, op, ops, left, history>>

CrashSummary(s) ==
    /\ summ[s] # <<>> /\ left.crashes > 0 /\ left' = [left EXCEPT !.crashes = @ - 1]
    /\ died' = died \cup {p[1] : p \in {q \in Range(summ[s]) : q[2]}}
    /\ summ' = [summ EXCEPT ![s] = <<>>]
    /\ UNCHANGED <<now, arrived, member, inc, recur, trans, cards, scan, op, ops, last, lost, overlap, shaped>>

-----------------------------------------------------------------------------
\* cleanup_secondary_tables closes the incidents that have been quiet for long: one
\* UPDATE, which queues no summary and records no transition.
CloseOld ==
    LET old == {i \in Ids : inc[i].status = "quiet" /\ inc[i].upd + AutoClose <= now} IN
    /\ old # {}
    /\ inc' = [i \in Ids |-> IF i \notin old THEN inc[i]
                             ELSE [inc[i] EXCEPT !.status = "closed", !.wf = "resolved", !.resolved = <<now, 0>>,
                                                 !.ended = now, !.upd = now]]
    /\ overlap' = [overlap EXCEPT !.states = @ \cup (old \cap (ScanStates \cup UNION {Held(o) : o \in Operators}))]
    /\ UNCHANGED <<now, arrived, member, recur, trans, cards, scan, op, summ, ops, left, last, lost, shaped, died>>

-----------------------------------------------------------------------------
\* Transactions are short, model calls are not.
Tick ==
    /\ now < MaxNow
    /\ scan.pc = "idle" /\ \A o \in Operators : op[o].pc = "idle"
    /\ now' = now + 1
    /\ UNCHANGED <<arrived, member, inc, recur, trans, cards, scan, op, summ, ops, left, history>>

Request(o) ==
    \/ StartRequest(o) \/ UpdateWorkflow(o) \/ UndoCheck(o) \/ UndoCommit(o) \/ Reopen(o) \/ Merge(o)
    \/ \E i \in Ids, action \in {"acknowledge", "resolve"} : PressCard(o, i, action)
    \/ Split(o) \/ \E i \in Ids : Close(o, i)

Summarise(s) ==
    \/ ClaimSummaries(s) \/ PersistSummary(s) \/ FailSummary(s) \/ CrashSummary(s)
    \/ \E i \in Ids : TriggerSummary(s, i)

Next ==
    \/ \E e \in Events : Arrive(e)
    \/ ScanLoad \/ ScanCommit
    \/ \E o \in Operators : Request(o)
    \/ \E i \in Ids : ReviewRecurrence(i)
    \/ \E s \in Summarisers : Summarise(s)
    \/ CloseOld
    \/ Tick

Spec == Init /\ [][Next]_vars

-----------------------------------------------------------------------------
TypeOK ==
    /\ now \in 1 .. MaxNow /\ arrived \subseteq Events /\ member \in [Events -> Ids \cup {None}]
    /\ \A i \in Ids : /\ inc[i].status \in {"none", "active", "quiet", "closed"} /\ inc[i].wf \in Workflow
                      /\ inc[i].rank \in Rank /\ inc[i].count \in 0 .. Cardinality(Events)
                      /\ inc[i].sum \in {"none", "pending", "retrying", "processing", "completed", "failed", "skipped"}
                      /\ inc[i].tries \in 0 .. MaxTries /\ inc[i].text \in BOOLEAN
    /\ recur \in [Ids -> [previous : Ids \cup {None}, status : {"none", "pending", "confirmed", "dismissed"}]]

\* models/incident.py:23, the denormalised alert_count: it is the number of
\* members, whatever decisions, scans and summaries write the other columns in
\* between.  What is left out is a merge or split of an incident to which a scan
\* under way adds an alert (CountNeverDrifts).
CountAgrees == \A i \in Ids \ overlap.counts : inc[i].count = Cardinality(MembersOf(member, i))

\* An incident an operator, a recovery or retention ended is closed, and neither
\* the quiet scan nor a late alert gives it another status, also when the scan
\* loaded it before it was ended, as long as the scan does not write its state too
\* (EndedStaysClosed).
EndedIsClosed ==
    \A i \in Ids \ overlap.states : inc[i].wf \in TerminalWorkflow => inc[i].status = "closed"

\* grouping.py:166 keeps managed traffic inside its connection: over any sequence
\* of scans, merges and splits, an alert that no operator moved is in an incident
\* of its own connection.
ConnectionBoundary ==
    \A i \in Ids : \A e \in MembersOf(member, i) \ shaped : Info[e].conn = inc[i].conn

\* An undo finds the incident as its change left it: it never overwrites what an
\* operator, a recovery, the quiet scan or retention visibly made of it before the
\* undo loaded it (UndoNeverDiscards is the promise without the last clause).
UndoKeepsDecisions == \A d \in lost : d[1] \in overlap.states \/ ~d[2]

\* A summary that is still owed can be claimed again or is being written, unless
\* the run that held it died: a failed attempt never strands it.
SummaryNotStranded ==
    \A i \in Ids : inc[i].status \in {"quiet", "closed"} /\ inc[i].count >= 2 /\ Awaiting(inc[i])
                      => inc[i].tries < MaxTries \/ Working(i) \/ i \in died

-----------------------------------------------------------------------------
\* What overlapping transactions and deaths take away.

\* workflow.py:169: "Take back the most recent workflow change, if nothing has
\* happened since" - no decision by any request, even one after another.
\* The code does not keep this: README, section 6.
NothingHappenedSince == \A d \in lost : d[1] \in overlap.states

\* "Restoring blindly would silently discard their decision": an undo that loaded
\* the incident before somebody else's change commits over it.
\* The code does not keep this: README, section 6.
UndoNeverDiscards == \A d \in lost : ~d[2]

\* The counter is the number of members in every interleaving: the scan adds one to
\* the count it loaded, a merge or split recounts the members it sees.
\* The code does not keep this: README, section 6.
CountNeverDrifts == \A i \in Ids : inc[i].count = Cardinality(MembersOf(member, i))

\* What was ended stays closed in every interleaving: the quiet scan writes the
\* status of a row it loaded while it was active.
\* The code does not keep this: README, section 6.
EndedStaysClosed == \A i \in Ids : inc[i].wf \in TerminalWorkflow => inc[i].status = "closed"

\* A summary that is owed is written or given up in every case: a run that dies on
\* the last attempt leaves it in processing, which nobody claims again.
\* The code does not keep this: README, section 6.
SummaryNeverStranded ==
    \A i \in Ids : inc[i].status \in {"quiet", "closed"} /\ inc[i].count >= 2 /\ Awaiting(inc[i])
                      => inc[i].tries < MaxTries \/ Working(i)
=============================================================================
