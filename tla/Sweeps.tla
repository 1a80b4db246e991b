------------------------------- MODULE Sweeps -------------------------------
(***************************************************************************)
(* The background work of a deployment that meets rows other parties       *)
(* change: the sweep that drafts knowledge from incidents (KnowledgeBase), *)
(* the one that turns maintenance windows into silences, and the nightly   *)
(* retention.  They run side by side and share no state.                   *)
(***************************************************************************)
EXTENDS KnowledgeBase

CONSTANTS
    Windows, Schedules, Slots, MaxNow, MaxEdits,
    MaxTouches,      \* the parameters of MaintenanceWindows
    Stored, Profiles, ImportanceDays, SourceDays, DefaultDays, OutboxDays, ArchiveDays,
    BatchLimit, Runs, MaxDay, MaxDeaths, MaxChildren,
    None             \* the parameters of DataRetention

VARIABLES
    window, muted, now, windowSweep, lifts, lateLifts, edits,
    touches,         \* the state of MaintenanceWindows
    today, event, outbox, kept, archive, since, purged, run, raced, lost, deaths,
    children         \* the state of DataRetention

Silences == INSTANCE MaintenanceWindows WITH
    row <- muted, sweep <- windowSweep, raced <- lateLifts

Retention == INSTANCE DataRetention WITH
    Events <- Stored, faults <- deaths, MaxFaults <- MaxDeaths

SweepsSane == Sane /\ Silences!Sane /\ Retention!Sane

SweepsSpec == KBSpec /\ Silences!Spec /\ Retention!Spec

\* What a sweep does to a row another party has meanwhile changed: an occurrence an
\* operator lifted is not muted again, an event is in one place, and only an event that
\* gained a child while it was picked takes the child with it.
SweptOnce ==
    /\ Silences!TypeOK /\ Silences!LiftSticks
    /\ Retention!TypeOK /\ Retention!OnePlace /\ Retention!ChildrenKept

\* An event is archived when its policy says so and not before; a sweep replaces
\* neither text that was approved, however long ago it selected the incident, nor a
\* draft that a reviewer amended before it selected the incident.
SweepsRespect == Retention!ArchivedWhenDue /\ ApprovalBoundary /\ AmendmentSticks

\* Once edits and clock come to rest, the silences agree with the windows, what is past
\* its retention is archived unless something holds it, and an ended incident comes to
\* have a document.
SweepsFinish == Silences!SweepsSettle /\ Retention!ArchivedAtLast /\ Sedimented
=============================================================================
