-------------------------- MODULE RuntimeSettings --------------------------
(***************************************************************************)
(* The runtime overrides of the settings: a table, and in every process a  *)
(* snapshot of it that three tasks replace independently, each by reading  *)
(* the table and swapping what it read: the interval loop, the pub/sub     *)
(* listener and the request that made the edit                             *)
(* (services/operations/runtime_settings.py, api/v1/runtime_settings.py).  *)
(*                                                                         *)
(* The table is its version, the number of committed edits.                *)
(***************************************************************************)
EXTENDS Naturals

CONSTANTS
    Procs,        \* API and worker processes
    Interval,     \* _REFRESH_INTERVAL_SECONDS, in ticks
    MaxLoad,      \* bound: ticks one refresh takes
    MaxVersion,   \* bound: edits
    MaxFaults,    \* bound: lost notices, broken subscriptions, failed refreshes, restarts
    None          \* "no snapshot yet: every setting is the environment's"

\* What the constants are.
Sane == {Interval, MaxLoad, MaxVersion, MaxFaults} \subseteq Nat /\ None \notin Nat

VARIABLES
    rows,        \* the committed version of runtime_settings
    snapshot,    \* [Procs -> Version or None]
    refresh,     \* [Procs -> [Tasks -> Refresh]]   refreshes in flight
    sleep,       \* [Procs -> 0..Interval]   what is left of the loop's sleep
    put,         \* [Procs -> {"idle", "committed", "publish"}]   the admin request
    notices,     \* [Procs -> Nat]       messages on the way to the listener
    subscribed,  \* [Procs -> BOOLEAN]
    since,       \* [Version -> Nat]     history: ticks since a version was superseded
    failed,      \* [Procs -> Nat]       history: turns of the loop that failed in a row
    mishaps      \* faults so far

settingsVars == <<rows, snapshot, refresh, sleep, put, notices, subscribed, since, failed, mishaps>>

Version == 0 .. MaxVersion
Tasks == {"loop", "listener", "put"}
Refresh == [on : BOOLEAN, val : Version, left : 0 .. MaxLoad]
NoRefresh == [on |-> FALSE, val |-> 0, left |-> 0]

\* The longest a snapshot outlives its version, each failed turn of the loop
\* costing one more.
Bound == Interval + 2 * MaxLoad
MaxStale == (1 + MaxFaults) * Bound

Init ==
    /\ rows = 0
    /\ snapshot = [p \in Procs |-> 0]
    /\ refresh = [p \in Procs |-> [t \in Tasks |-> NoRefresh]]
    /\ sleep = [p \in Procs |-> Interval]
    /\ put = [p \in Procs |-> "idle"]
    /\ notices = [p \in Procs |-> 0]
    /\ subscribed = [p \in Procs |-> TRUE]
    /\ since = [v \in Version |-> 0] /\ failed = [p \in Procs |-> 0]
    /\ mishaps = 0

Mishap == mishaps < MaxFaults /\ mishaps' = mishaps + 1

\* refresh_runtime_settings, first half: the SELECT.
Read(p, t) ==
    /\ ~refresh[p][t].on
    /\ refresh' = [refresh EXCEPT ![p][t] = [on |-> TRUE, val |-> rows, left |-> MaxLoad]]

\* _refresh_loop wakes up.
Wake(p) ==
    /\ sleep[p] = 0
    /\ Read(p, "loop")
    /\ UNCHANGED <<rows, snapshot, sleep, put, notices, subscribed, since, failed, mishaps>>

WakeUnlessSubscribed(p) ==
    /\ sleep[p] = 0 /\ ~refresh[p]["loop"].on
    /\ IF subscribed[p] THEN sleep' = [sleep EXCEPT ![p] = Interval] /\ UNCHANGED refresh
                        ELSE Read(p, "loop") /\ UNCHANGED sleep
    /\ UNCHANGED <<rows, snapshot, put, notices, subscribed, since, failed, mishaps>>

\* _listen_loop takes a message, once the refresh of the one before is done.
Hear(p) ==
    /\ subscribed[p] /\ notices[p] > 0
    /\ notices' = [notices EXCEPT ![p] = @ - 1]
    /\ Read(p, "listener")
    /\ UNCHANGED <<rows, snapshot, sleep, put, subscribed, since, failed, mishaps>>

\* What a task goes on to do after its refresh, whatever came of it.
Resume(p, t) ==
    /\ refresh' = [refresh EXCEPT ![p][t] = NoRefresh]
    /\ sleep' = IF t = "loop" THEN [sleep EXCEPT ![p] = Interval] ELSE sleep
    /\ put' = IF t = "put" THEN [put EXCEPT ![p] = "publish"] ELSE put

\* refresh_runtime_settings, second half: _swap_snapshot with the rows read.
Swap(p, t) ==
    /\ refresh[p][t].on
    /\ snapshot' = [snapshot EXCEPT ![p] = refresh[p][t].val]
    /\ failed' = [failed EXCEPT ![p] = IF t = "loop" THEN 0 ELSE @]
    /\ Resume(p, t)
    /\ UNCHANGED <<rows, notices, subscribed, since, mishaps>>

\* ... or the database fails, and the snapshot is kept.
RefreshFails(p, t) ==
    /\ refresh[p][t].on /\ Mishap
    /\ failed' = [failed EXCEPT ![p] = IF t = "loop" THEN @ + 1 ELSE @]
    /\ Resume(p, t)
    /\ UNCHANGED <<rows, snapshot, notices, subscribed, since>>

\* put_runtime_setting_endpoint and delete_runtime_setting_endpoint, up to
\* their commit.  (An unknown key, a value the registry refuses and an
\* override that was not set leave the table alone.)
Edit(p) ==
    /\ put[p] = "idle" /\ rows < MaxVersion
    /\ rows' = rows + 1
    /\ put' = [put EXCEPT ![p] = "committed"]
    /\ UNCHANGED <<snapshot, refresh, sleep, notices, subscribed, since, failed, mishaps>>

\* publish_runtime_settings_invalidation: the local refresh ...
RefreshAfterEdit(p) ==
    /\ put[p] = "committed"
    /\ Read(p, "put")
    /\ UNCHANGED <<rows, snapshot, sleep, put, notices, subscribed, since, failed, mishaps>>

\* ... and the message to every process that is subscribed at this moment.
PublishEdit(p) ==
    /\ put[p] = "publish"
    /\ put' = [put EXCEPT ![p] = "idle"]
    /\ \/ /\ notices' = [q \in Procs |-> IF subscribed[q] THEN notices[q] + 1 ELSE notices[q]]
          /\ UNCHANGED mishaps
       \/ Mishap /\ UNCHANGED notices
    /\ UNCHANGED <<rows, snapshot, refresh, sleep, subscribed, since, failed>>

\* The subscription breaks; the listener tries again, and what was published
\* in between never arrives.
Disconnect(p) ==
    /\ subscribed[p] /\ ~refresh[p]["listener"].on /\ Mishap
    /\ subscribed' = [subscribed EXCEPT ![p] = FALSE]
    /\ notices' = [notices EXCEPT ![p] = 0]
    /\ UNCHANGED <<rows, snapshot, refresh, sleep, put, since, failed>>

Reconnect(p) ==
    /\ ~subscribed[p]
    /\ subscribed' = [subscribed EXCEPT ![p] = TRUE]
    /\ UNCHANGED <<rows, snapshot, refresh, sleep, put, notices, since, failed, mishaps>>

\* The process restarts with an empty snapshot, which
\* start_runtime_settings_plane fills at once unless the database fails it.
Restart(p) ==
    /\ Mishap
    /\ snapshot' = [snapshot EXCEPT ![p] = None]
    /\ refresh' = [refresh EXCEPT ![p] = [t \in Tasks |-> NoRefresh]]
    /\ sleep' = [sleep EXCEPT ![p] = 0]
    /\ put' = [put EXCEPT ![p] = "idle"]
    /\ notices' = [notices EXCEPT ![p] = 0]
    /\ subscribed' = [subscribed EXCEPT ![p] = TRUE]
    /\ UNCHANGED <<rows, since, failed>>

\* A tick: no refresh outlasts MaxLoad, and the loop wakes on time.
Tick ==
    /\ \A p \in Procs :
          /\ \A t \in Tasks : refresh[p][t].on => refresh[p][t].left > 0
          /\ sleep[p] > 0 \/ refresh[p]["loop"].on
    /\ refresh' = [p \in Procs |-> [t \in Tasks |->
                     IF refresh[p][t].on THEN [refresh[p][t] EXCEPT !.left = @ - 1] ELSE NoRefresh]]
    /\ sleep' = [p \in Procs |-> IF sleep[p] > 0 THEN sleep[p] - 1 ELSE 0]
    /\ since' = [v \in Version |-> IF v < rows /\ since[v] <= MaxStale THEN since[v] + 1 ELSE since[v]]
    /\ UNCHANGED <<rows, snapshot, put, notices, subscribed, failed, mishaps>>

Next ==
    \/ \E p \in Procs :
          \/ Wake(p) \/ Hear(p) \/ Edit(p) \/ RefreshAfterEdit(p) \/ PublishEdit(p)
          \/ Disconnect(p) \/ Reconnect(p) \/ Restart(p)
          \/ \E t \in Tasks : Swap(p, t) \/ RefreshFails(p, t)
    \/ Tick

Spec == Init /\ [][Next]_settingsVars

-----------------------------------------------------------------------------
TypeOK ==
    /\ rows \in Version
    /\ snapshot \in [Procs -> Version \cup {None}]
    /\ refresh \in [Procs -> [Tasks -> Refresh]]
    /\ sleep \in [Procs -> 0 .. Interval]
    /\ put \in [Procs -> {"idle", "committed", "publish"}]
    /\ notices \in [Procs -> Nat]
    /\ subscribed \in [Procs -> BOOLEAN]
    /\ since \in [Version -> 0 .. MaxStale + 1]
    /\ failed \in [Procs -> 0 .. MaxFaults]
    /\ mishaps \in 0 .. MaxFaults

\* No process works with overrides that were superseded longer ago than one
\* interval and two refreshes, and one such turn more for every turn of its
\* loop that failed: also when the notice is lost, and when an older read is
\* swapped in after a newer one ("live within ~1 min").
SnapshotCatchesUp ==
    \A p \in Procs : snapshot[p] # None => since[snapshot[p]] <= (1 + failed[p]) * Bound
=============================================================================
