---------------------------- MODULE ConfigCache ----------------------------
(***************************************************************************)
(* A table of operator configuration (forward rules, silences, inbound     *)
(* rules) as every process of the deployment sees it: the process-local    *)
(* TtlPubSubCache over it, its Redis pub/sub listener, and the sessions    *)
(* that edit the table with the notices they owe (core/pubsub_cache.py,    *)
(* db/session.py and the writers of the three tables).                     *)
(*                                                                         *)
(* The table is its version, the number of committed edits.  Ages are in   *)
(* ticks of the TTL.                                                       *)
(***************************************************************************)
EXTENDS Naturals, FiniteSets

CONSTANTS
    Procs,        \* API and worker processes
    CacheTTL,     \* ttl_seconds of the cache
    MaxLoad,      \* bound: ticks one run of the loader takes
    MaxVersion,   \* bound: edits begun
    MaxFaults,    \* bound: lost notices, dead listeners and restarts
    None          \* "nothing cached"

\* What the constants are.
CacheSane ==
    /\ IsFiniteSet(Procs)
    /\ CacheTTL \in Nat /\ MaxLoad \in Nat /\ MaxVersion \in Nat /\ MaxFaults \in Nat
    /\ None \notin Nat

VARIABLES
    table,       \* the committed version of the table
    kinds,       \* which writers this table has
    session,     \* [Procs -> Session]   the edit a process is making
    cache,       \* [Procs -> Entry]
    load,        \* [Procs -> Load]      the reload under the single-flight lock
    inbox,       \* [Procs -> Nat]       invalidations on the way to the process
    listening,   \* [Procs -> BOOLEAN]   the pub/sub task is alive
    since,       \* [0..MaxVersion -> Nat]   history: ticks since a version was superseded
    told,        \* [Procs -> Nat]       history: the table when the last notice was acted on
    announced,   \* history: the last version committed by an edit that announces itself
    edits,       \* edits begun so far
    faults       \* faults so far

cacheVars == <<table, kinds, session, cache, load, inbox, listening, since, told, announced, edits, faults>>

Version == 0 .. MaxVersion

\* The writers of the three tables; no process listens for the last one's cache.
RuleWriters == {"rule", "import", "remediate"}
SilenceWriters == {"silence", "import", "sweep"}
InboundWriters == {"inbound"}
Kinds == RuleWriters \cup SilenceWriters \cup InboundWriters

Session == [pc : {"idle", "flushed", "committed"}, kind : Kinds]
Entry == [val : Version \cup {None}, age : 0 .. CacheTTL]
Load == [on : BOOLEAN, val : Version, clean : BOOLEAN, left : 0 .. MaxLoad]

NoSession == [pc |-> "idle", kind |-> "import"]
Empty == [val |-> None, age |-> 0]
NoLoad == [on |-> FALSE, val |-> 0, clean |-> TRUE, left |-> 0]

Listened == kinds # InboundWriters

CacheInit ==
    /\ table = 0
    /\ kinds \in {RuleWriters, SilenceWriters, InboundWriters}
    /\ session = [p \in Procs |-> NoSession]
    /\ cache = [p \in Procs |-> Empty]
    /\ load = [p \in Procs |-> NoLoad]
    /\ inbox = [p \in Procs |-> 0]
    /\ listening = [p \in Procs |-> Listened]
    /\ since = [v \in Version |-> 0]
    /\ told = [p \in Procs |-> 0]
    /\ announced = 0
    /\ edits = 0
    /\ faults = 0

Fault == faults < MaxFaults /\ faults' = faults + 1

-----------------------------------------------------------------------------
(* TtlPubSubCache *)

\* invalidate: the value is dropped, and the epoch moves on, which a reload in
\* flight will notice.
Invalidate(p) ==
    /\ cache' = [cache EXCEPT ![p] = Empty]
    /\ load' = [load EXCEPT ![p].clean = ~load[p].on]
    /\ told' = [told EXCEPT ![p] = table]

\* The condition of get under which the cached value is returned.
Fresh(p) == cache[p].val # None /\ cache[p].age < CacheTTL

FreshForever(p) == cache[p].val # None

\* get, on a miss: the epoch is remembered and the loader's one SELECT runs.
\* (An invalidation between the two only has the newer value thrown away.)
StartLoad(p) ==
    /\ ~Fresh(p) /\ ~load[p].on
    /\ load' = [load EXCEPT ![p] = [on |-> TRUE, val |-> table, clean |-> TRUE, left |-> MaxLoad]]
    /\ UNCHANGED <<table, kinds, session, cache, inbox, listening, since, told, announced, edits, faults>>

InstallAlways(p) ==
    /\ load[p].on
    /\ cache' = [cache EXCEPT ![p] = [val |-> load[p].val, age |-> 0]]
    /\ load' = [load EXCEPT ![p] = NoLoad]
    /\ UNCHANGED <<table, kinds, session, inbox, listening, since, told, announced, edits, faults>>

\* get, once the loader has answered: the caller has its value, the cache
\* keeps it only if no invalidation came meanwhile.
FinishLoad(p) ==
    /\ load[p].on
    /\ cache' = IF load[p].clean THEN [cache EXCEPT ![p] = [val |-> load[p].val, age |-> 0]] ELSE cache
    /\ load' = [load EXCEPT ![p] = NoLoad]
    /\ UNCHANGED <<table, kinds, session, inbox, listening, since, told, announced, edits, faults>>

\* publish_invalidation: a message for every process that listens, or a
\* failure that is logged.
Publish ==
    \/ /\ inbox' = [p \in Procs |-> IF listening[p] THEN inbox[p] + 1 ELSE inbox[p]]
       /\ UNCHANGED faults
    \/ /\ Fault
       /\ UNCHANGED inbox

\* start_listener's task: one message, one invalidation.
Hear(p) ==
    /\ listening[p] /\ inbox[p] > 0
    /\ inbox' = [inbox EXCEPT ![p] = @ - 1]
    /\ Invalidate(p)
    /\ UNCHANGED <<table, kinds, session, listening, since, announced, edits, faults>>

\* The subscription breaks: the task ends, nobody starts it again, and what
\* was on the way is lost.
ListenerDies(p) ==
    /\ listening[p] /\ Fault
    /\ listening' = [listening EXCEPT ![p] = FALSE]
    /\ inbox' = [inbox EXCEPT ![p] = 0]
    /\ UNCHANGED <<table, kinds, session, cache, load, since, told, announced, edits>>

-----------------------------------------------------------------------------
(* The sessions that edit the table *)

Begin(p, k) ==
    /\ session[p].pc = "idle" /\ k \in kinds
    /\ edits < MaxVersion /\ edits' = edits + 1
    /\ session' = [session EXCEPT ![p] = [pc |-> "flushed", kind |-> k]]

\* create, update and delete of a forward rule: flushed, the local value
\* dropped, the notice registered on the session.
ChangeForwardRule(p) == Begin(p, "rule") /\ Invalidate(p)

\* create, update, lift and delete of a silence, in the same way.
ChangeSilence(p) == Begin(p, "silence") /\ Invalidate(p)

\* The requests that make these changes.  (One that is refused, or whose row is
\* not there, changes nothing.)
ForwardRuleRequest(p) ==
    /\ ChangeForwardRule(p)
    /\ UNCHANGED <<table, kinds, inbox, listening, since, announced, faults>>

SilenceRequest(p) ==
    /\ ChangeSilence(p)
    /\ UNCHANGED <<table, kinds, inbox, listening, since, announced, faults>>

\* A sweep of the maintenance windows: the notice goes out before the commit.
\* An import of a bundle runs one as well, when it changes a silence.
SweepRequest(p, k) ==
    /\ Begin(p, k) /\ "silence" \in kinds
    /\ Invalidate(p)
    /\ Publish
    /\ UNCHANGED <<table, kinds, listening, since, announced>>

Quietly(p, k) ==
    /\ Begin(p, k)
    /\ UNCHANGED <<table, kinds, cache, load, inbox, listening, since, told, announced, faults>>

\* An import that changes no silence.
ImportConfig(p) == Quietly(p, "import")

\* create, update and delete of an inbound rule: only flushed.
InboundRuleRequest(p) == Quietly(p, "inbound")

\* _change_rule of a remediation: the rule is switched or retargeted and
\* committed, and nobody is told.
RemediateRule(p) == Quietly(p, "remediate")

\* The commit, after which a sweep and a remediation have nothing left to do.
Commit(p) ==
    /\ session[p].pc = "flushed"
    /\ table' = table + 1
    /\ session' = [session EXCEPT ![p] = IF @.kind \in {"sweep", "remediate"} THEN NoSession ELSE [@ EXCEPT !.pc = "committed"]]
    /\ announced' = IF session[p].kind \in {"rule", "silence", "import"} THEN table + 1 ELSE announced
    /\ UNCHANGED <<kinds, cache, load, inbox, listening, since, told, edits, faults>>

\* The request fails, or a bundle is only tried out: the registered notice is
\* discarded with the transaction.
Rollback(p) ==
    /\ session[p].pc = "flushed"
    /\ session' = [session EXCEPT ![p] = NoSession]
    /\ UNCHANGED <<table, kinds, cache, load, inbox, listening, since, told, announced, edits, faults>>

ForgetNotice(p) ==
    /\ session[p].pc = "committed"
    /\ session' = [session EXCEPT ![p] = NoSession]
    /\ IF session[p].kind = "inbound" THEN UNCHANGED <<cache, load, told>> ELSE Invalidate(p)
    /\ UNCHANGED <<table, kinds, inbox, listening, since, announced, edits, faults>>

\* _run_after_commit_actions, or what the handler does after its commit: the
\* local value is dropped once more, and the other processes are told.  The
\* handlers of the inbound rules publish and drop nothing.
AfterCommit(p) ==
    /\ session[p].pc = "committed"
    /\ session' = [session EXCEPT ![p] = NoSession]
    /\ IF session[p].kind = "inbound" THEN UNCHANGED <<cache, load, told>> ELSE Invalidate(p)
    /\ Publish
    /\ UNCHANGED <<table, kinds, listening, since, announced, edits>>

-----------------------------------------------------------------------------
\* The process restarts: an open transaction is rolled back, a notice not yet
\* sent is lost, and the new process starts empty and listening.
Restart(p) ==
    /\ Fault
    /\ session' = [session EXCEPT ![p] = NoSession]
    /\ cache' = [cache EXCEPT ![p] = Empty]
    /\ load' = [load EXCEPT ![p] = NoLoad]
    /\ inbox' = [inbox EXCEPT ![p] = 0]
    /\ listening' = [listening EXCEPT ![p] = Listened]
    /\ told' = [told EXCEPT ![p] = table]
    /\ UNCHANGED <<table, kinds, since, announced, edits>>

MaxStale == CacheTTL + MaxLoad

\* A tick; a loader is not out for more than MaxLoad of them.
CacheTick ==
    /\ \A p \in Procs : load[p].on => load[p].left > 0
    /\ cache' = [p \in Procs |-> IF Fresh(p) /\ cache[p].age < CacheTTL THEN [cache[p] EXCEPT !.age = @ + 1] ELSE cache[p]]
    /\ load' = [p \in Procs |-> IF load[p].on THEN [load[p] EXCEPT !.left = @ - 1] ELSE load[p]]
    /\ since' = [v \in Version |-> IF v < table /\ since[v] <= MaxStale THEN since[v] + 1 ELSE since[v]]
    /\ UNCHANGED <<table, kinds, session, inbox, listening, told, announced, edits, faults>>

CacheNext ==
    \/ \E p \in Procs :
          \/ StartLoad(p) \/ FinishLoad(p) \/ Hear(p) \/ ListenerDies(p)
          \/ ForwardRuleRequest(p) \/ SilenceRequest(p)
          \/ SweepRequest(p, "sweep") \/ SweepRequest(p, "import") \/ ImportConfig(p)
          \/ InboundRuleRequest(p) \/ RemediateRule(p)
          \/ Commit(p) \/ Rollback(p) \/ AfterCommit(p) \/ Restart(p)
    \/ CacheTick

CacheSpec == CacheInit /\ [][CacheNext]_cacheVars

-----------------------------------------------------------------------------
CacheTypeOK ==
    /\ table \in Version
    /\ kinds \in {RuleWriters, SilenceWriters, InboundWriters}
    /\ session \in [Procs -> Session]
    /\ cache \in [Procs -> Entry]
    /\ load \in [Procs -> Load]
    /\ inbox \in [Procs -> Nat]
    /\ listening \in [Procs -> BOOLEAN]
    /\ since \in [Version -> 0 .. MaxStale + 1]
    /\ told \in [Procs -> Version]
    /\ announced \in Version
    /\ edits \in Version
    /\ faults \in 0 .. MaxFaults

\* A notice is never undone by a reload that was already under way: whatever
\* a process would serve from its cache is no older than the table was when it
\* last acted on an invalidation (the epoch guard of TtlPubSubCache.get).
NoticeHonoured == \A p \in Procs : Fresh(p) => cache[p].val >= told[p]

\* Without a fault, once nobody is editing and no notice is on the way, no
\* process still serves a table older than the last edit made through the
\* console or an import (invalidate_after_commit and its listeners).
EditIsLive ==
    ( /\ faults = 0
      /\ \A p \in Procs : session[p].pc = "idle" /\ inbox[p] = 0 )
    => \A p \in Procs : Fresh(p) => cache[p].val >= announced

\* Whatever is lost, and with nobody listening at all, a table is served from
\* the cache for no longer than the TTL and one load after it was superseded
\* ("a publish failure only risks a stale read for up to one TTL").
BoundedStaleness == \A p \in Procs : Fresh(p) => since[cache[p].val] <= MaxStale
=============================================================================
