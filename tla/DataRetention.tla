--------------------------- MODULE DataRetention ---------------------------
(***************************************************************************)
(* The nightly data maintenance (services/operations/data_maintenance.py): *)
(* events past their retention move to the archive in batches, provided no *)
(* child row or later event depends on them, and the secondary tables are  *)
(* bounded.  The rest of the system goes on adding children to old events  *)
(* meanwhile, and a run that outlives its leader lock overlaps the next.   *)
(*                                                                         *)
(* Events are numbered in the order of their ids.  Days count from 0.      *)
(***************************************************************************)
EXTENDS Naturals, FiniteSets

CONSTANTS
    Events,          \* 1 .. n
    Profiles,        \* [importance, source, keyword]: what the policy tells apart
    ImportanceDays,  \* retention_policies: [importance -> days]
    SourceDays,      \* source_retention_policies: [source -> days]
    DefaultDays,     \* retention_days_default
    OutboxDays,      \* terminal_outbox_retention_days
    ArchiveDays,     \* archive_retention_days
    BatchLimit,      \* batch_limit, 5000 in the code
    Runs,            \* maintenance runs that may overlap
    MaxDay,          \* bound: the last day
    MaxFaults,       \* bound: crashes
    MaxChildren,     \* bound: children added to events
    None             \* "no earlier event"

\* What the constants are.
Sane ==
    /\ Profiles # {} /\ \A p \in Profiles : p.keyword \in BOOLEAN
    /\ \A i \in DOMAIN ImportanceDays : ImportanceDays[i] \in Nat
    /\ \A s \in DOMAIN SourceDays : SourceDays[s] \in Nat
    /\ {DefaultDays, OutboxDays, ArchiveDays, MaxDay, MaxFaults, MaxChildren} \subseteq Nat

VARIABLES
    today,
    event,      \* [Events -> Event]
    outbox,     \* [Events -> Outbox]   the delivery of the event, if any
    kept,       \* events with a deep analysis or an incident membership
    archive,    \* [Events -> Nat]      copies of the event in the archive
    since,      \* [Events -> day]      the day it was archived
    purged,     \* events the archive has let go of
    run,        \* [Runs -> Run]
    raced,      \* history: events that gained a child while a run had picked them
    lost,       \* history: events whose unfinished child went with them
    faults, children

retentionVars == <<today, event, outbox, kept, archive, since, purged, run, raced, lost, faults, children>>

Event == [live : BOOLEAN, born : 0 .. MaxDay, profile : Profiles, ref : Events \cup {None}]
Outbox == [status : {"none", "open", "done"}, day : 0 .. MaxDay]
Run == [pc : {"idle", "load", "commit", "secondary"}, picked : SUBSET Events]

NoOutbox == [status |-> "none", day |-> 0]
NoRun == [pc |-> "idle", picked |-> {}]

Live == {e \in Events : event[e].live}
Seen == {e \in Events : event[e].live \/ archive[e] > 0 \/ e \in purged}

Init ==
    /\ today = 0
    /\ event = [e \in Events |-> [live |-> FALSE, born |-> 0, profile |-> CHOOSE p \in Profiles : TRUE, ref |-> None]]
    /\ outbox = [e \in Events |-> NoOutbox]
    /\ kept = {}
    /\ archive = [e \in Events |-> 0] /\ since = [e \in Events |-> 0] /\ purged = {}
    /\ run = [r \in Runs |-> NoRun]
    /\ raced = {} /\ lost = {} /\ faults = 0 /\ children = 0

-----------------------------------------------------------------------------
(* The predicate of a sweep *)

Older(e, days) == today - event[e].born > days

\* _does_not_match_policy, for the two kinds of policy.
NoImportancePolicy(p) == p.importance \notin DOMAIN ImportanceDays
NoSourcePolicy(p) == p.source \notin DOMAIN SourceDays

CleanupFilterUnranked(e) ==
    LET p == event[e].profile
    IN  \/ p.keyword /\ Older(e, DefaultDays)
        \/ ~NoImportancePolicy(p) /\ Older(e, ImportanceDays[p.importance])
        \/ ~NoSourcePolicy(p) /\ Older(e, SourceDays[p.source])
        \/ NoImportancePolicy(p) /\ NoSourcePolicy(p) /\ Older(e, DefaultDays)

\* _cleanup_filter, one disjunct per condition it collects.
CleanupFilter(e) ==
    LET p == event[e].profile
    IN  \/ p.keyword /\ Older(e, DefaultDays)
        \/ ~NoImportancePolicy(p) /\ Older(e, ImportanceDays[p.importance])
        \/ NoImportancePolicy(p) /\ ~NoSourcePolicy(p) /\ Older(e, SourceDays[p.source])
        \/ NoImportancePolicy(p) /\ NoSourcePolicy(p) /\ Older(e, DefaultDays)

\* _has_no_live_dependencies: no outbox row of whatever status, no deep
\* analysis, no membership, and no event that repeats this one.
NoLiveDependencies(e) ==
    /\ outbox[e].status = "none" /\ e \notin kept
    /\ \A f \in Live : event[f].ref # e

Targets == {e \in Live : CleanupFilter(e) /\ NoLiveDependencies(e)}

-----------------------------------------------------------------------------
(* cleanup_old_data_by_policy *)

PickFresh(r) ==
    /\ run[r].pc = "idle"
    /\ run' = [run EXCEPT ![r] = [pc |-> "load", picked |-> {e \in Live : CleanupFilter(e)}]]
    /\ UNCHANGED <<today, event, outbox, kept, archive, since, purged, raced, lost, faults, children>>

\* The ids of the first BatchLimit targets; with none the run goes on to the
\* secondary tables.
Pick(r) ==
    /\ run[r].pc = "idle"
    /\ run' = [run EXCEPT ![r] =
                  IF Targets = {} THEN [NoRun EXCEPT !.pc = "secondary"]
                  ELSE [pc |-> "load",
                        picked |-> {e \in Targets : Cardinality({f \in Targets : f < e}) < BatchLimit}]]
    /\ UNCHANGED <<today, event, outbox, kept, archive, since, purged, raced, lost, faults, children>>

\* The rows of the chunk are read again by id, without the predicate.
Load(r) ==
    /\ run[r].pc = "load"
    /\ run' = [run EXCEPT ![r] = [pc |-> "commit", picked |-> @.picked \cap Live]]
    /\ UNCHANGED <<today, event, outbox, kept, archive, since, purged, raced, lost, faults, children>>

CommitTwice(r) ==
    LET gone == run[r].picked
    IN  /\ run[r].pc = "commit"
        /\ event' = [e \in Events |-> IF e \in gone THEN [event[e] EXCEPT !.live = FALSE] ELSE event[e]]
        /\ archive' = [e \in Events |-> IF e \in gone THEN archive[e] + 1 ELSE archive[e]]
        /\ run' = [run EXCEPT ![r] = [NoRun EXCEPT !.pc = "secondary"]]
        /\ UNCHANGED <<today, outbox, kept, since, purged, raced, lost, faults, children>>

\* The inserts into the archive, the deletes with their cascades, and the
\* commit.  An id another run has archived meanwhile fails the whole batch.  A
\* full batch is followed by another, a short one by the secondary tables.
Commit(r) ==
    LET gone == run[r].picked
    IN  /\ run[r].pc = "commit"
        /\ IF \E e \in gone : archive[e] > 0
           THEN /\ run' = [run EXCEPT ![r] = NoRun]
                /\ UNCHANGED <<event, outbox, kept, archive, since, lost>>
           ELSE /\ event' = [e \in Events |->
                               [event[e] EXCEPT !.live = @ /\ e \notin gone,
                                                !.ref = IF @ \in gone /\ e \notin gone THEN None ELSE @]]
                /\ archive' = [e \in Events |-> IF e \in gone THEN archive[e] + 1 ELSE archive[e]]
                /\ since' = [e \in Events |-> IF e \in gone THEN today ELSE since[e]]
                /\ outbox' = [e \in Events |-> IF e \in gone THEN NoOutbox ELSE outbox[e]]
                /\ kept' = kept \ gone
                /\ lost' = lost \cup {e \in gone : outbox[e].status = "open" \/ e \in kept}
                /\ run' = [run EXCEPT ![r] = [NoRun EXCEPT !.pc = IF Cardinality(gone) < BatchLimit
                                                                   THEN "secondary" ELSE "idle"]]
        /\ UNCHANGED <<today, purged, raced, faults, children>>

\* cleanup_expired_operational_data: old archives and old finished outbox rows
\* (and, with no bearing on the rest, usage logs and traces) are deleted.  The
\* incidents it closes by age are CloseOld in Incidents.
CleanupSecondary(r) ==
    LET expired == {e \in Events : archive[e] > 0 /\ today - since[e] > ArchiveDays}
    IN  /\ run[r].pc = "secondary"
        /\ archive' = [e \in Events |-> IF e \in expired THEN 0 ELSE archive[e]]
        /\ purged' = purged \cup expired
        /\ outbox' = [e \in Events |-> IF outbox[e].status = "done" /\ today - outbox[e].day > OutboxDays
                                       THEN NoOutbox ELSE outbox[e]]
        /\ run' = [run EXCEPT ![r] = NoRun]
        /\ UNCHANGED <<today, event, kept, since, raced, lost, faults, children>>

Crash(r) ==
    /\ run[r].pc # "idle" /\ faults < MaxFaults
    /\ faults' = faults + 1
    /\ run' = [run EXCEPT ![r] = NoRun]
    /\ UNCHANGED <<today, event, outbox, kept, archive, since, purged, raced, lost, children>>

-----------------------------------------------------------------------------
(* What the rest of the system does to the events *)

Picked == UNION {run[r].picked : r \in Runs}

\* An alert is stored, by itself or as a repetition of a live one.
Arrive(e) ==
    /\ e \notin Seen /\ \A f \in Events : f < e => f \in Seen
    /\ \E p \in Profiles, ref \in Live \cup {None} :
          /\ event' = [event EXCEPT ![e] = [live |-> TRUE, born |-> today, profile |-> p, ref |-> ref]]
          /\ raced' = raced \cup ({ref} \cap Picked)
    /\ UNCHANGED <<today, outbox, kept, archive, since, purged, run, lost, faults, children>>

\* Its delivery is recorded, or requeued, and finished.
OpenOutbox(e) ==
    /\ event[e].live /\ outbox[e].status # "open" /\ children < MaxChildren
    /\ children' = children + 1
    /\ outbox' = [outbox EXCEPT ![e] = [status |-> "open", day |-> today]]
    /\ raced' = raced \cup ({e} \cap Picked)
    /\ UNCHANGED <<today, event, kept, archive, since, purged, run, lost, faults>>

FinishOutbox(e) ==
    /\ outbox[e].status = "open"
    /\ outbox' = [outbox EXCEPT ![e] = [status |-> "done", day |-> today]]
    /\ UNCHANGED <<today, event, kept, archive, since, purged, run, raced, lost, faults, children>>

\* It is investigated, or grouped into an incident, which keeps it for good.
Keep(e) ==
    /\ event[e].live /\ e \notin kept /\ children < MaxChildren
    /\ children' = children + 1
    /\ kept' = kept \cup {e}
    /\ raced' = raced \cup ({e} \cap Picked)
    /\ UNCHANGED <<today, event, outbox, archive, since, purged, run, lost, faults>>

\* A day passes; the transaction of a batch does not last as long.
NewDay ==
    /\ today < MaxDay /\ today' = today + 1
    /\ Picked = {}
    /\ UNCHANGED <<event, outbox, kept, archive, since, purged, run, raced, lost, faults, children>>

Step(r) == Pick(r) \/ Load(r) \/ Commit(r) \/ CleanupSecondary(r)

Next ==
    \/ \E r \in Runs : Step(r) \/ Crash(r)
    \/ \E e \in Events : Arrive(e) \/ OpenOutbox(e) \/ FinishOutbox(e) \/ Keep(e)
    \/ NewDay

\* The job is dispatched every night, and a run goes on.
Fairness == \A r \in Runs : WF_retentionVars(Step(r))

Spec == Init /\ [][Next]_retentionVars /\ Fairness

-----------------------------------------------------------------------------
TypeOK ==
    /\ today \in 0 .. MaxDay
    /\ event \in [Events -> Event]
    /\ outbox \in [Events -> Outbox]
    /\ kept \subseteq Events /\ purged \subseteq Events
    /\ archive \in [Events -> Nat] /\ since \in [Events -> 0 .. MaxDay]
    /\ run \in [Runs -> Run]
    /\ raced \subseteq Events /\ lost \subseteq Events
    /\ faults \in 0 .. MaxFaults /\ children \in 0 .. MaxChildren

\* An event that has arrived is in one place: live, or archived once, or past
\* the archive's own retention; also when two runs overlap and when one dies.
OnePlace ==
    \A e \in Seen : (IF event[e].live THEN 1 ELSE 0) + archive[e] + (IF e \in purged THEN 1 ELSE 0) = 1

\* The days an event stays live: those of its importance if it has a policy,
\* else those of its source, else the default; a keyword only shortens them.
Window(p) ==
    LET own == IF p.importance \in DOMAIN ImportanceDays THEN ImportanceDays[p.importance]
               ELSE IF p.source \in DOMAIN SourceDays THEN SourceDays[p.source]
               ELSE DefaultDays
    IN  IF p.keyword /\ DefaultDays < own THEN DefaultDays ELSE own

\* No event is archived before its own window is over, the importance owning
\* it before the source does ("configured importance retention owns known
\* importance values").
ArchiveStep ==
    \A e \in Events : (event[e].live /\ ~event'[e].live) => today - event[e].born > Window(event[e].profile)

ArchivedWhenDue == [][ArchiveStep]_retentionVars

\* An event that is delivered again or investigated while a run is archiving
\* is the only one whose unfinished children its delete can cascade to.
ChildrenKept == lost \subseteq raced

\* An event past its window is held back by a child of its own, or by a later
\* event of its thread that is still held.
Held[e \in Events] ==
    \/ today - event[e].born <= Window(event[e].profile)
    \/ outbox[e].status # "none" \/ e \in kept
    \/ \E f \in {g \in Events : g > e} : event[f].live /\ event[f].ref = e /\ Held[f]

\* Every event that nothing holds is archived in the end: a thread goes from
\* its newest event back, one link in every run.
ArchivedAtLast == <>[](\A e \in Live : Held[e])
=============================================================================
