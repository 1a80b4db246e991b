----------------------------- MODULE MCDelivery ------------------------------
(***************************************************************************)
(* The delivery side of a deployment: the outbox with one row, and beside  *)
(* it what decides what is delivered and repairs it.  The components share *)
(* no state a property relates, so a behaviour exercises one of them and   *)
(* the others rest.                                                        *)
(***************************************************************************)
EXTENDS ForwardOutbox, Controls, Sequences, TLC

VARIABLES
    part,   \* the component the behaviour exercises
    \* ForwardOutbox
    digestRow, digestForwardStatus, digestRuleEnabled, digestFollowUps,
    digestAccepted, digestQueue, digestWorker, digestRequeues, digestCrashes,
    \* NoiseCenter
    traffic, filters, inbound, silences, actions, operators, locks, hand

\* Every row has an event of its own; one forward rule; the first failure waits one
\* time unit, the later ones two.
OwnEvent == [i \in Ids |-> {i}]
OneRule == [i \in Ids |-> "r"]
NoNotices == [i \in Ids |-> {}]
Backoff == [a \in 0 .. MaxAttempts + 1 |-> IF a <= 1 THEN 1 ELSE 2]

\* The two rows of a digest.
Pair == {1, 2}
PairEvent == [i \in Pair |-> {i}]
PairRule == [i \in Pair |-> "r"]
PairNotices == [i \in Pair |-> {}]

\* Two presses of the buttons of one card: approve and reject.
TwoPresses == [e1 |-> [proposal |-> 1, approve |-> TRUE], e2 |-> [proposal |-> 1, approve |-> FALSE]]
Commands == {"retry_outbox", "retry_dead_letters", "acknowledge"}

\* Alerts as the noise centre counts them.
Seen(source, name, dup, trace, hour, recovery) ==
    [source |-> source, name |-> name, dup |-> dup, trace |-> trace, hour |-> hour,
     recovery |-> recovery, old |-> FALSE]
Repeats == <<Seen("grafana", "disk", TRUE, "forwarded", 1, FALSE),
             Seen("grafana", "disk", TRUE, "cooldown", 1, TRUE)>>
SeenKinds == {Repeats[1], Repeats[2], Seen("grafana", "disk", FALSE, "missing", 2, FALSE),
              Seen("zabbix", "none", FALSE, "silenced", 1, FALSE),
              Seen("probe", "disk", FALSE, "cooldown", 2, FALSE),
              [Repeats[2] EXCEPT !.old = TRUE]}
\* A window of two sources, of which a table of one row shows the other one.
Crowded == Repeats \o <<Seen("zabbix", "none", FALSE, "silenced", 1, FALSE),
                        Seen("zabbix", "none", TRUE, "silenced", 1, FALSE),
                        Seen("zabbix", "none", TRUE, "forwarded", 1, FALSE)>>
BusyWindows == {Repeats, Crowded}
SeenWindows == BusyWindows \cup UNION {[1 .. n -> SeenKinds] : n \in 0 .. 3}
RuleScope == [oncall |-> "grafana", shadow |-> "all"]
RulePurpose == [oncall |-> "alerts", shadow |-> "comparison"]
FilterFrom == [total |-> 2, dups |-> 1, rate |-> 35]
SilenceFrom == [total |-> 2, dups |-> 2, rate |-> 90]
DigestFrom == [total |-> 2, dups |-> 0, rate |-> 40]

\* The same outbox with a group of two rows that are delivered as one digest.
Digest == INSTANCE ForwardOutbox WITH
    Ids <- Pair, DigestIds <- Pair, FollowUpIds <- {}, NoticeFor <- PairNotices,
    Events <- Pair, EventsOf <- PairEvent, RuleOf <- PairRule, MaxRequeues <- 0,
    row <- digestRow, forwardStatus <- digestForwardStatus,
    ruleEnabled <- digestRuleEnabled, followUps <- digestFollowUps,
    accepted <- digestAccepted, queue <- digestQueue, worker <- digestWorker,
    requeues <- digestRequeues, crashes <- digestCrashes

ASSUME ControlsSane

\* Two operators who apply and undo the suggestions of the noise centre.
Noise == INSTANCE NoiseCenter WITH
    Operators <- Workers, ForwardRules <- {"oncall", "shadow"}, Scope <- RuleScope,
    Purpose <- RulePurpose, Synthetic <- {"probe"}, Traffics <- SeenWindows,
    Busy <- BusyWindows, MaxSources <- 1, FilterAt <- FilterFrom, SilenceAt <- SilenceFrom,
    DigestAt <- DigestFrom, SilenceHours <- 1, HandWindow <- 30, MaxActions <- 3,
    MaxHand <- 1, Nobody <- NoJob

------------------------------------------------------------------------------
digestState == <<digestRow, digestForwardStatus, digestRuleEnabled, digestFollowUps,
                 digestAccepted, digestQueue, digestWorker, digestRequeues,
                 digestCrashes>>
DigestRests ==
    /\ digestRow = "off" /\ digestForwardStatus = "off" /\ digestRuleEnabled = "off"
    /\ digestFollowUps = "off" /\ digestAccepted = "off" /\ digestQueue = "off"
    /\ digestWorker = "off" /\ digestRequeues = "off" /\ digestCrashes = "off"
settingsVars == <<rows, snapshot, refresh, sleep, put, notices, subscribed, superseded,
                  failed, mishaps>>
remedyVars == <<proposal, proposer, decider, receipt, readback, runs, died, decisions,
                deciderFaults>>
noiseState == <<traffic, filters, inbound, silences, actions, operators, locks, hand>>
NoiseRests ==
    /\ traffic = "off" /\ filters = "off" /\ inbound = "off" /\ silences = "off"
    /\ actions = "off" /\ operators = "off" /\ locks = "off" /\ hand = "off"

MCInit ==
    /\ part \in {"outbox", "digest", "cache", "settings", "remedy", "noise"}
    /\ Init
    /\ IF part = "digest" THEN Digest!Init ELSE DigestRests
    /\ CacheInit /\ (part # "cache" => kinds = RuleWriters)
    /\ Settings!Init
    /\ Remedy!Init
    /\ IF part = "noise" THEN Noise!NoiseInit ELSE NoiseRests

MCVars == <<part, vars, digestState, cacheVars, settingsVars, remedyVars, noiseState>>

MCNext ==
    \/ part = "outbox" /\ Next
       /\ UNCHANGED <<part, digestState, cacheVars, settingsVars, remedyVars,
                      noiseState>>
    \/ part = "digest" /\ Digest!Next
       /\ UNCHANGED <<part, vars, cacheVars, settingsVars, remedyVars, noiseState>>
    \/ part = "cache" /\ CacheNext
       /\ UNCHANGED <<part, vars, digestState, settingsVars, remedyVars, noiseState>>
    \/ part = "settings" /\ Settings!Next
       /\ UNCHANGED <<part, vars, digestState, cacheVars, remedyVars, noiseState>>
    \/ part = "remedy" /\ Remedy!Next
       /\ UNCHANGED <<part, vars, digestState, cacheVars, settingsVars, noiseState>>
    \/ part = "noise" /\ Noise!NoiseNext
       /\ UNCHANGED <<part, vars, digestState, cacheVars, settingsVars, remedyVars>>

MCSpec == MCInit /\ [][MCNext]_MCVars

ProcessSymmetry == Permutations(Workers) \cup Permutations(Deciders)

------------------------------------------------------------------------------
\* The rows that are delivered as one digest are claimed, settled and parked together:
\* one worker holds them, their events tell what became of them, and no path leaves a
\* claimed sibling behind (_park_digest_siblings and the finalizers of outbox.py).
DigestAccounts ==
    part = "digest" =>
        Digest!TypeOK /\ Digest!ExclusiveHolder /\ Digest!EventAgrees /\ Digest!NoOrphan

\* The tables of the noise centre count no more than its summary and, uncut, all of it;
\* whatever it quietened belongs to an action that can still be undone, and no action is
\* undone twice.
NoiseUndoable ==
    part = "noise" =>
        Noise!NoiseTypeOK /\ Noise!TablesSum /\ Noise!QuietHasOwner /\ Noise!UndoneOnce
==============================================================================
