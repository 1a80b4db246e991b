--------------------------- MODULE AlertQuality ---------------------------
(***************************************************************************)
(* The alert-quality centre: a read-only overview that grades every source *)
(* by the events it sent in a window, and keeps the result per process for *)
(* a short time.  One request reads five things one after the other        *)
(* (totals, a bounded newest-first scan, the connections, the incident     *)
(* members, the unattended incidents) while the pipeline goes on writing.  *)
(*                                                                         *)
(* A source is graded under its origin: the connection an event came       *)
(* through or, without one, its source name.  A payload is what the        *)
(* inspection finds wrong with it; a rate is kept in tenths of a percent.  *)
(***************************************************************************)
EXTENDS Integers, SequencesExt, FiniteSetsExt

CONSTANTS
    Origins,        \* origins: connections and bare source names
    Managed,        \* the origins that are connections
    Synthetic,      \* the origins that are probes (is_synthetic_source)
    Samples,        \* what may arrive: [origin, label, key, recovery, missing, offsets,
                    \* dup, at]; offsets are its timestamps' distances from its arrival
    StaleTolerance, FutureTolerance,    \* _TIMESTAMP_STALE/FUTURE_TOLERANCE
    NoKey,          \* the identity key of an event that has none
    Readers,        \* requests of one process
    NoView,         \* nothing cached or answered
    Window,         \* window_days
    ScanLimit,      \* _MAX_PAYLOAD_SCAN_EVENTS
    SampleLimit,    \* _MAX_ISSUE_SAMPLES
    ChurnFloor,     \* scanned >= 10
    UnattendedAfter, UnrecoveredAfter,
    CacheTTL,       \* _OVERVIEW_CACHE_TTL_SECONDS
    SourceLimit,    \* source_limit
    MaxRun,         \* how long a request may take
    MaxNow, MaxEvents, MaxIncidents,   \* bounds of the instance: of the tables,
    Budgets         \* how much may happen: [touches by operators, writes racing
                    \* a request, asks]; one is chosen at the start

VARIABLES
    now,
    events,         \* webhook_events, by id
    members,        \* ids of the events that are incident members
    incidents,      \* incidents: [origin, label, at, attended]
    conns,          \* source_connections
    cache,          \* _OVERVIEW_CACHE: [until, view]
    readers,        \* the requests
    left            \* what is left of the bounds: [touches, racing, asks]

qualityVars == <<now, events, members, incidents, conns, cache, readers, left>>

-----------------------------------------------------------------------------
(* What the inspection of a payload can find missing, and what each costs. *)

FieldRules ==
    [missing_identity |-> 25, missing_service |-> 15, missing_environment |-> 10,
     missing_severity |-> 15, timestamp_anomaly |-> 8]

Ids == DOMAIN events
Connection == [enabled : BOOLEAN, revoked : BOOLEAN, last : -1..MaxNow,
               changedAt : -1..MaxNow, changes : 0..MaxNow + 1]
IdleReader == [stage |-> "idle"]

\* Python's round(a / b): to the nearest, halves to the even neighbour.
RoundDiv(a, b) ==
    LET q == a \div b  r == a % b
    IN IF 2 * r > b \/ (2 * r = b /\ q % 2 = 1) THEN q + 1 ELSE q

\* round(count / denominator * 100, 1), in tenths.
Rate(count, denominator) ==
    IF denominator = 0 THEN 0 ELSE RoundDiv(1000 * count, denominator)

\* _issue_severity
Severity(code, rate) ==
    CASE code \in {"missing_identity", "missing_severity", "unmatched_recovery",
                   "missing_service"} /\ rate >= 500 -> "high"
      [] code \in {"missing_environment", "schema_drift", "timestamp_anomaly"}
            /\ rate < 250 -> "low"
      [] OTHER -> "medium"

\* _proportional_penalty: the whole penalty from half of the events on.
Penalty(count, denominator, maximum) ==
    IF count <= 0 \/ denominator <= 0 THEN 0
    ELSE IF 2 * count >= denominator THEN maximum
    ELSE Max({1, RoundDiv(2 * maximum * count, denominator)})

\* _finding, and the findings that are given their penalty outright.
Finding(code, count, denominator, maximum, samples) ==
    [code |-> code, severity |-> Severity(code, Rate(count, denominator)),
     count |-> count, penalty |-> Penalty(count, denominator, maximum),
     samples |-> samples]

Plain(code, count, penalty) ==
    [code |-> code, severity |-> "medium", count |-> count, penalty |-> penalty,
     samples |-> {}]

-----------------------------------------------------------------------------
(* The accumulators.  A request r holds what it has read:                  *)
(* total/dups (per origin), scan (newest first), conns, start, end.        *)

Labels == {e.label : e \in Samples}

\* get_source_event_stats: a row per (source name, origin) with events in the
\* window, largest first.
StatRows(start, o) ==
    LET In(l) == {i \in Ids : /\ events[i].at >= start
                              /\ events[i].origin = o /\ events[i].label = l}
    IN {[total |-> Cardinality(In(l)),
         dups |-> Cardinality({i \in In(l) : events[i].dup})] :
            l \in {k \in Labels : In(k) # {}}}

\* Every row is assigned to its accumulator, so of two rows with one key the
\* later, smaller one stays.
Assigned(rows) ==
    IF rows = {} THEN [total |-> 0, dups |-> 0]
    ELSE CHOOSE w \in rows : \A v \in rows : w.total <= v.total

\* The newest ScanLimit events of the window; ids follow the timestamps.
Newest(start) ==
    LET all == SetToSortSeq({i \in Ids : events[i].at >= start}, LAMBDA a, b : a > b)
    IN SubSeq(all, 1, Min({ScanLimit, Len(all)}))

\* _timestamp_anomaly_offset: the timestamp closest to the arrival is out of
\* tolerance.
Skewed(e) ==
    /\ e.offsets # {}
    /\ LET Far(d) == IF d < 0 THEN -d ELSE d
           closest == CHOOSE d \in e.offsets : \A x \in e.offsets : Far(d) <= Far(x)
       IN closest \notin -StaleTolerance..FutureTolerance

\* What the inspection of a payload finds wrong with it.
Defects(e) == e.missing \cup {d \in {"timestamp_anomaly"} : Skewed(e)}

ScannedOf(r, o) == {i \in ToSet(r.scan) : events[i].origin = o}
Defective(r, o, code) == {i \in ScannedOf(r, o) : code \in Defects(events[i])}
Recoveries(r, o) == {i \in ScannedOf(r, o) : events[i].recovery}
Graded(r) == {o \in Origins \ Synthetic :
                 o \in Managed \/ r.stats[o].total > 0 \/ ScannedOf(r, o) # {}}

\* _record_sample: the first SampleLimit ids in scan order.
Sampled(r, S) ==
    LET order == SelectSeq(r.scan, LAMBDA i : i \in S)
    IN ToSet(SubSeq(order, 1, Min({SampleLimit, Len(order)})))

\* _classify_recoveries.  The firing events of an identity are gathered over
\* every origin that also sent a recovery of it.
MadeIncident(r, key, joined) ==
    /\ key # NoKey
    /\ \E o \in Graded(r) :
          /\ \E i \in Recoveries(r, o) : events[i].key = key
          /\ \E i \in ScannedOf(r, o) \ Recoveries(r, o) :
                events[i].key = key /\ i \in joined

Matched(r, o, joined) == Recoveries(r, o) \cap joined

\* Mutant: every recovery that joined no incident is the source's fault.
Standalone_Never(r, o, joined) == {}

Standalone(r, o, joined) ==
    {i \in Recoveries(r, o) \ joined : ~MadeIncident(r, events[i].key, joined)}

\* Mutant: only the matched recoveries are taken off the samples.
UnmatchedSamples_All(r, o, joined) == Sampled(r, Recoveries(r, o)) \ Matched(r, o, joined)

\* The evidence that stays: sampled while scanning, before any recovery was
\* known to be matched or standalone.
UnmatchedSamples(r, o, joined) ==
    Sampled(r, Recoveries(r, o)) \ (Matched(r, o, joined) \cup Standalone(r, o, joined))

\* _attributable_recoveries
Attributable(r, o, joined) ==
    Max({0, Cardinality(Recoveries(r, o)) - Cardinality(Standalone(r, o, joined))})

\* _unrecovered_identity_count: identities that fired three times and whose
\* latest event is an old firing.  Of two events of one moment the sort keeps
\* the scan's order, newest id first, so the older id counts as the latest.
Unrecovered(r, o) ==
    LET Of(k) == {i \in ScannedOf(r, o) : events[i].key = k}
        Latest(S) == CHOOSE i \in S : \A j \in S :
                        \/ events[j].at < events[i].at
                        \/ events[j].at = events[i].at /\ i <= j
    IN {k \in {events[i].key : i \in ScannedOf(r, o)} \ {NoKey} :
           /\ Cardinality({i \in Of(k) : ~events[i].recovery}) >= 3
           /\ ~events[Latest(Of(k))].recovery
           /\ events[Latest(Of(k))].at <= r.end - UnrecoveredAfter}

\* The churn rule of _source_findings.
Churning(r, o) ==
    LET n == Cardinality(ScannedOf(r, o))
        keys == {events[i].key : i \in ScannedOf(r, o)} \ {NoKey}
        anchors == {events[i].key : i \in ScannedOf(r, o) \ Defective(r, o, "missing_identity")}
    IN /\ n >= ChurnFloor
       /\ Rate(Cardinality(keys), n) >= 800
       /\ 10 * r.stats[o].dups <= r.stats[o].total
       /\ Cardinality(anchors) <= Max({3, n \div 5})

\* _source_findings.  u is the count of unattended incidents.
SourceFindings(r, o, joined, u) ==
    LET n == Cardinality(ScannedOf(r, o))
        c == r.conns[o]
        unmatched == Attributable(r, o, joined) - Cardinality(Matched(r, o, joined))
        keys == {events[i].key : i \in ScannedOf(r, o)} \ {NoKey}
        silent == Cardinality(Unrecovered(r, o))
        quiet == o \in Managed /\ c.enabled /\ ~c.revoked /\ c.last < r.start
    IN IF r.stats[o].total = 0
       THEN {Plain("no_recent_events", 1, 0) : x \in {y \in {1} : quiet}}
       ELSE {Finding(f, Cardinality(Defective(r, o, f)), n, FieldRules[f],
                     Sampled(r, Defective(r, o, f))) :
                f \in {g \in DOMAIN FieldRules : Defective(r, o, g) # {}}}
            \cup {Finding("unmatched_recovery", unmatched, Attributable(r, o, joined), 18,
                          UnmatchedSamples(r, o, joined)) : x \in {y \in {1} : unmatched > 0}}
            \cup {Finding("identity_churn", Cardinality(keys), n, 15, {}) :
                     x \in {y \in {1} : Churning(r, o)}}
            \cup {Finding("no_recovery_signals", silent, Max({1, Cardinality(keys)}), 10, {}) :
                     x \in {y \in {1} : silent > 0}}
            \cup {Plain("schema_drift", c.changes, 8) :
                     x \in {y \in {1} : o \in Managed /\ c.changedAt >= r.start /\ c.changes > 0}}
            \cup {Plain("unattended_incidents", u, Min({8, 2 * u})) : x \in {y \in {1} : u > 0}}

\* _source_payload: the score, -1 for none.
Payload(r, o, found) ==
    [score |-> IF r.stats[o].total = 0 THEN -1
               ELSE Max({0, 100 - MapThenSumSet(LAMBDA f : f.penalty, found)}),
     events |-> r.stats[o].total, scanned |-> Cardinality(ScannedOf(r, o)),
     findings |-> found]

\* Mutant: the best score first.
Before_Best(p, q) == p.score > q.score \/ (p.score = q.score /\ p.events > q.events)

\* The order of the list: the worst score first, sources without one last;
\* the list is cut at SourceLimit.
Before(p, q) ==
    LET Rank(x) == IF x.score = -1 THEN 101 ELSE x.score
    IN Rank(p) < Rank(q) \/ (Rank(p) = Rank(q) /\ p.events > q.events)

Visible(payloads) ==
    {o \in DOMAIN payloads :
        Cardinality({p \in DOMAIN payloads : Before(payloads[p], payloads[o])}) < SourceLimit}

\* The rest of the overview that a reader relies on.
View(r, payloads) ==
    [end |-> r.end, scan |-> r.scan, truncated |-> r.inWindow > Len(r.scan),
     sources |-> payloads, visible |-> Visible(payloads), members |-> r.members,
     before |-> r.before]

-----------------------------------------------------------------------------
(* The pipeline goes on.                                                   *)

Writes(touches) ==
    LET racing == IF \E q \in Readers : readers[q].stage # "idle" THEN 1 ELSE 0
    IN /\ left.touches >= touches /\ left.racing >= racing
       /\ left' = [left EXCEPT !.touches = @ - touches, !.racing = @ - racing]

\* An event is stored, and the connection it came through notes it.
Arrive(s) ==
    /\ Len(events) < MaxEvents
    /\ events' = Append(events, [s EXCEPT !.at = now])
    /\ conns' = IF s.origin \in Managed THEN [conns EXCEPT ![s.origin].last = now] ELSE conns
    /\ Writes(0)
    /\ UNCHANGED <<now, members, incidents, cache, readers>>

\* Grouping makes an event a member of an incident, opening one for a firing
\* event when the origin has none open.
Join(i) ==
    /\ i \notin members
    /\ LET e == events[i]
           open == \E n \in DOMAIN incidents :
                      incidents[n].origin = e.origin /\ incidents[n].label = e.label
       IN /\ open \/ (~e.recovery /\ Len(incidents) < MaxIncidents)
          /\ incidents' = IF open THEN incidents
                          ELSE Append(incidents, [origin |-> e.origin, label |-> e.label,
                                                  at |-> now, attended |-> FALSE])
    /\ members' = members \cup {i}
    /\ Writes(0)
    /\ UNCHANGED <<now, events, conns, cache, readers>>

\* Somebody acknowledges, takes or closes an incident.
Attend(n) ==
    /\ ~incidents[n].attended
    /\ incidents' = [incidents EXCEPT ![n].attended = TRUE]
    /\ Writes(1)
    /\ UNCHANGED <<now, events, members, conns, cache, readers>>

\* The source onboarding sees the payload's shape change.
Drift(o) ==
    /\ conns[o].changes < 1
    /\ conns' = [conns EXCEPT ![o].changedAt = now, ![o].changes = @ + 1]
    /\ Writes(1)
    /\ UNCHANGED <<now, events, members, incidents, cache, readers>>

\* A connection is revoked.
Revoke(o) ==
    /\ ~conns[o].revoked
    /\ conns' = [conns EXCEPT ![o].revoked = TRUE, ![o].enabled = FALSE]
    /\ Writes(1)
    /\ UNCHANGED <<now, events, members, incidents, cache, readers>>

Running(r) == r.stage \notin {"idle", "done"}

\* Time passes; no request outlives MaxRun.
Tick ==
    /\ now < MaxNow
    /\ \A q \in Readers : Running(readers[q]) => now - readers[q].end < MaxRun
    /\ now' = now + 1
    /\ UNCHANGED <<events, members, incidents, conns, cache, readers, left>>

-----------------------------------------------------------------------------
(* get_alert_quality_overview                                              *)

Asks == left.asks > 0 /\ left' = [left EXCEPT !.asks = @ - 1]

AnswerWith(q, view) ==
    readers' = [readers EXCEPT ![q] = [stage |-> "done", view |-> view, at |-> now]]

\* Mutant: the entry's time is not looked at.
CacheFresh_Always == cache # NoView

CacheFresh == cache # NoView /\ now < cache.until

\* A request answered from the process's cache.
AnswerCached(q) ==
    /\ ~Running(readers[q]) /\ CacheFresh
    /\ AnswerWith(q, cache.view)
    /\ Asks
    /\ UNCHANGED <<now, events, members, incidents, conns, cache>>

\* A request that has to compute takes the time and reads the totals.
ReadTotals(q) ==
    /\ ~Running(readers[q]) /\ ~CacheFresh
    /\ LET start == now - Window IN
       readers' = [readers EXCEPT ![q] =
           [stage |-> "totals", start |-> start, end |-> now,
            stats |-> [o \in Origins |-> Assigned(StatRows(start, o))],
            inWindow |-> Cardinality({i \in Ids : events[i].at >= start}),
            before |-> {i \in Ids : events[i].at >= start}]]
    /\ Asks
    /\ UNCHANGED <<now, events, members, incidents, conns, cache>>

\* The bounded scan.
ReadEvents(q) ==
    /\ readers[q].stage = "totals"
    /\ readers' = [readers EXCEPT ![q] =
           [scan |-> Newest(readers[q].start), stage |-> "events"] @@ readers[q]]
    /\ UNCHANGED <<now, events, members, incidents, conns, cache, left>>

\* The connections, then the inspection of the scanned payloads.
ReadConnections(q) ==
    /\ readers[q].stage = "events"
    /\ readers' = [readers EXCEPT ![q] =
           [conns |-> conns, stage |-> "scanned"] @@ readers[q]]
    /\ UNCHANGED <<now, events, members, incidents, conns, cache, left>>

\* The members among the recoveries and their firing events.
ClassifyRecoveries(q) ==
    /\ readers[q].stage = "scanned"
    /\ readers' = [readers EXCEPT ![q] =
           [members |-> members \cap ToSet(readers[q].scan), stage |-> "classified"]
               @@ readers[q]]
    /\ UNCHANGED <<now, events, members, incidents, conns, cache, left>>

\* _unattended_by_source: one count per (source name, origin); of two with one
\* key the one the database returns last, here that of label l, stays.
Unattended(r, o, l) ==
    LET Of(k) == {n \in DOMAIN incidents :
                     /\ incidents[n].origin = o /\ incidents[n].label = k
                     /\ ~incidents[n].attended
                     /\ incidents[n].at >= r.start
                     /\ incidents[n].at <= r.end - UnattendedAfter}
        counts == {Cardinality(Of(k)) : k \in Labels} \ {0}
    IN IF Of(l) # {} THEN Cardinality(Of(l))
       ELSE IF counts = {} THEN 0 ELSE Max(counts)

\* The last read, the findings, the overview; it is kept for CacheTTL and
\* answered.
FinishOverview(q) ==
    /\ readers[q].stage = "classified"
    /\ \E l \in Labels :
          LET r == readers[q]
              pay == [o \in Graded(r) |->
                        Payload(r, o, SourceFindings(r, o, r.members, Unattended(r, o, l)))]
          IN /\ cache' = [until |-> now + CacheTTL, view |-> View(r, pay)]
             /\ AnswerWith(q, View(r, pay))
    /\ UNCHANGED <<now, events, members, incidents, conns, left>>

-----------------------------------------------------------------------------
QualityInit ==
    /\ now = 0 /\ events = <<>> /\ members = {} /\ incidents = <<>>
    /\ conns = [o \in Managed |-> [enabled |-> TRUE, revoked |-> FALSE, last |-> -1,
                                   changedAt |-> -1, changes |-> 0]]
    /\ cache = NoView
    /\ readers = [q \in Readers |-> IdleReader]
    /\ left \in Budgets

QualityNext ==
    \/ Tick
    \/ \E s \in Samples : Arrive(s)
    \/ \E i \in Ids : Join(i)
    \/ \E n \in DOMAIN incidents : Attend(n)
    \/ \E o \in Managed : Drift(o) \/ Revoke(o)
    \/ \E q \in Readers : \/ AnswerCached(q) \/ ReadTotals(q) \/ ReadEvents(q)
                           \/ ReadConnections(q) \/ ClassifyRecoveries(q)
                           \/ FinishOverview(q)

QualitySpec == QualityInit /\ [][QualityNext]_qualityVars

-----------------------------------------------------------------------------
(* Types: events, members and connections keep their shape, and a score is *)
(* between 0 and 100, or absent (the tables and the payload of             *)
(* get_alert_quality_overview).                                            *)
QualityTypeOK ==
    /\ now \in 0..MaxNow
    /\ \A i \in Ids : events[i].at \in 0..now
    /\ members \subseteq Ids
    /\ conns \in [Managed -> Connection]
    /\ \A q \in Readers : readers[q].stage = "done" =>
          \A o \in DOMAIN readers[q].view.sources :
             readers[q].view.sources[o].score \in -1..100

Answers == {readers[q] : q \in {p \in Readers : readers[p].stage = "done"}}

(* A source loses score for an unmatched recovery only when some firing    *)
(* event of that identity was an incident member when the request looked:  *)
(* a fire-and-resolve pair that never made an incident is never held       *)
(* against the source (_classify_recoveries, _attributable_recoveries).    *)
BlameHasGrounds ==
    \A a \in Answers : \A o \in DOMAIN a.view.sources :
        \A f \in a.view.sources[o].findings :
            f.code = "unmatched_recovery" =>
                /\ f.count <= Cardinality(
                       {i \in ToSet(a.view.scan) :
                           /\ events[i].origin = o /\ events[i].recovery
                           /\ i \notin a.view.members
                           /\ \E j \in a.view.members :
                                 ~events[j].recovery /\ events[j].key = events[i].key})
                /\ \A i \in f.samples : i \notin a.view.members

(* Every event a finding names as evidence was sent by that source, is of  *)
(* the window that was scanned and shows that defect, in spite of events   *)
(* and memberships written between the reads (_record_sample,              *)
(* _classify_recoveries).                                                  *)
EvidenceTrue ==
    \A a \in Answers : \A o \in DOMAIN a.view.sources :
        \A f \in a.view.sources[o].findings : \A i \in f.samples :
            /\ events[i].origin = o /\ events[i].at >= a.view.end - Window
            /\ \/ f.code \in Defects(events[i])
               \/ /\ f.code = "unmatched_recovery" /\ events[i].recovery
                  /\ \E j \in a.view.members :
                        ~events[j].recovery /\ events[j].key = events[i].key

(* An answer, cached or not, is always younger than the cache's life and   *)
(* the longest request together: the reads it stands on began no earlier   *)
(* (get_alert_quality_overview, _OVERVIEW_CACHE).                          *)
AnswerRecent == \A a \in Answers : a.at - a.view.end < CacheTTL + MaxRun

(* A list cut at source_limit hides no source that is worse than one it    *)
(* shows (the sort of get_alert_quality_overview).                         *)
WorstShown ==
    \A a \in Answers : \A o \in DOMAIN a.view.sources \ a.view.visible :
        \A p \in a.view.visible :
            a.view.sources[o].score # -1 =>
                /\ a.view.sources[p].score # -1
                /\ a.view.sources[p].score <= a.view.sources[o].score

(* The event count a source is graded with is at least the number of its   *)
(* events that were scanned and were there when the totals were read: "the *)
(* full-window event count" (alert_quality.py, _source_findings).          *)
(* The code does not keep this: README, section 6.                         *)
CountIsFullWindow ==
    \A a \in Answers : \A o \in DOMAIN a.view.sources :
        a.view.sources[o].events >=
            Cardinality({i \in ToSet(a.view.scan) \cap a.view.before : events[i].origin = o})
=============================================================================
