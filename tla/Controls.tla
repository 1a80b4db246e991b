------------------------------ MODULE Controls ------------------------------
(***************************************************************************)
(* What tells the delivery of a deployment what to do: the cached tables   *)
(* of rules and silences (ConfigCache), the overrides of the runtime       *)
(* settings in every process, and the operators who decide on proposed     *)
(* remedies.  They run side by side and share no state.                    *)
(***************************************************************************)
EXTENDS ConfigCache

CONSTANTS
    Interval, MaxRefresh, MaxOverrides,
    MaxMishaps,       \* the parameters of RuntimeSettings
    Proposals, Proposers, Deciders, Presses, Actions, MaxPending, ProposalTTL,
    MaxDeaths         \* the parameters of Remediation

VARIABLES
    rows, snapshot, refresh, sleep, put, notices, subscribed, superseded, failed,
    mishaps,          \* the state of RuntimeSettings
    proposal, proposer, decider, receipt, readback, runs, died, decisions,
    deciderFaults     \* the state of Remediation

\* The snapshots of the runtime overrides, in the processes of the caches.
Settings == INSTANCE RuntimeSettings WITH
    MaxLoad <- MaxRefresh, MaxVersion <- MaxOverrides, MaxFaults <- MaxMishaps,
    since <- superseded

\* The proposals of commands and those who decide on them.
Remedy == INSTANCE Remediation WITH
    TTL <- ProposalTTL, MaxFaults <- MaxDeaths, faults <- deciderFaults

ControlsSane == CacheSane /\ Settings!Sane /\ Remedy!Sane

ControlsSpec == CacheSpec /\ Settings!Spec /\ Remedy!Spec

\* What a process serves from a cache of the configuration is never older than the
\* last notice it acted on, nor than the last announced edit once nothing is under
\* way, nor superseded for longer than the TTL and a load, whatever was lost.  And no
\* process works with overrides that were superseded longer ago than its refresh loop
\* allows, also when an older read is swapped in after a newer one.
ConfigFresh ==
    /\ CacheTypeOK /\ NoticeHonoured /\ EditIsLive /\ BoundedStaleness
    /\ Settings!TypeOK /\ Settings!SnapshotCatchesUp

\* A command that took effect is on record as approved or failed, a press is acted on
\* once, and a command that leaves the decision's transaction alone runs once, except
\* where a decider died.
DecisionsKept == Remedy!DecisionsKept
=============================================================================
