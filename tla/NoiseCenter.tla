------------------------------ MODULE NoiseCenter ------------------------------
(* The noise centre (services/operations/noise_center.py): it counts the       *)
(* alerts of a window, proposes reversible ways to quieten them, and lets an   *)
(* operator apply a proposal and undo it later.  Operators run at once, and    *)
(* the rules, digests and silences they change are edited by hand as well.     *)
EXTENDS Naturals, Sequences, FiniteSets, SequencesExt, FiniteSetsExt

CONSTANTS
    Operators, ForwardRules, \* the enabled forward rules
    Scope,         \* the single source a forward rule names, or "all"
    Purpose,       \* what a forward rule is for: "alerts", "system" events or a "comparison"
    Synthetic,     \* the sources that are probes
    Traffics,      \* windows of alerts: sequences of [source, name, dup, trace, hour, recovery, old];
                   \* old: the event is from before the window, its trace is not
    Busy,          \* the windows operators act on
    MaxSources,    \* _MAX_SOURCES: rows a table shows
    FilterAt, SilenceAt, DigestAt, \* thresholds [total, dups, rate]
    SilenceHours, HandWindow,
    MaxActions, MaxHand, Nobody

VARIABLES
    traffic,    \* the alerts of the current window
    filters,    \* match_duplicate of every forward rule, and the action that set it
    inbound,    \* the inbound rules: [name, enabled, action, window, by]; the name "any" is none
    silences,   \* [source, name, lifted, left, by]
    actions,    \* noise_reduction_actions: [suggestion, row, status, undos]
    operators,  \* the request each operator has under way
    locks,      \* the action rows locked by an undo
    hand        \* hand edits left

noiseVars == <<traffic, filters, inbound, silences, actions, operators, locks, hand>>

NoiseCodes == {"cooldown", "duplicate_no_rule", "noise_suppressed", "silenced"}
DefaultWindow == 60
Idle == [pc |-> "idle"]
Pct(part, whole) == IF whole = 0 THEN 0 ELSE (100 * part) \div whole

--------------------------------------------------------------------------------
(* The counts of a window: the alerts by the time of the event, the cards by   *)
(* the time of the trace.  Probes are left out of both.                        *)
Real == {e \in DOMAIN traffic : traffic[e].source \notin Synthetic}
Counted == {e \in Real : ~traffic[e].old}
(* Mutant: the probes are left out of the alerts but not of the traces.        *)
Traced_WithProbes == {e \in DOMAIN traffic : traffic[e].trace # "missing"}

Traced == {e \in Real : traffic[e].trace # "missing"}
Noisy(e) == traffic[e].dup \/ traffic[e].trace \in NoiseCodes

Row(set) == [total |-> Cardinality(set),
             duplicates |-> Cardinality({e \in set : traffic[e].dup}),
             noise |-> Cardinality({e \in set : Noisy(e)})]

Summary ==
    [total |-> Row(Counted).total, duplicates |-> Row(Counted).duplicates,
     noise |-> Row(Counted).noise,
     forwarded |-> Cardinality({e \in Traced : traffic[e].trace = "forwarded"}),
     avoided |-> Cardinality({e \in Traced : traffic[e].trace \in NoiseCodes})]

(* Recoveries, by the rule the payload names.                                  *)
PayloadRule(e) == IF traffic[e].name = "none" THEN traffic[e].source ELSE traffic[e].name
Recoveries(label) ==
    Cardinality({e \in Counted : traffic[e].recovery /\ PayloadRule(e) = label})

SourceRow(source) ==
    LET set == {e \in Counted : traffic[e].source = source}
    IN  Row(set) @@ [recoveries |-> Cardinality({e \in set : traffic[e].recovery}),
                     avoided |-> Cardinality({e \in Traced : traffic[e].source = source
                                                /\ traffic[e].trace \in NoiseCodes})]

(* The table of rules: an alert goes under the rule name of its trace, or      *)
(* under its source when it has no trace or the trace names no rule.           *)
Label(e) == IF e \in Traced /\ traffic[e].name # "none" THEN traffic[e].name ELSE traffic[e].source
AlertRuleNames == {traffic[e].name : e \in Traced} \ {"none"}
RuleRow(label) ==
    LET set == {e \in Counted : Label(e) = label}
    IN  Row(set) @@ [recoveries |-> Recoveries(label),
                     windows |-> Cardinality({traffic[e].hour : e \in set}),
                     avoided |-> Cardinality({e \in Traced : traffic[e].name = label
                                                /\ traffic[e].trace \in NoiseCodes})]

(* A table shows the rows with the most noise, then the most alerts; which of  *)
(* equal rows come first is the order the database happened to answer in.      *)
Before(row, other) ==
    row.noise > other.noise \/ (row.noise = other.noise /\ row.total > other.total)
Cut(table) ==
    {shown \in SUBSET DOMAIN table :
        /\ Cardinality(shown) = Min({Cardinality(DOMAIN table), MaxSources})
        /\ \A k \in shown, l \in DOMAIN table \ shown : ~Before(table[l], table[k])}
Sources == {traffic[e].source : e \in Counted}
Labels == {Label(e) : e \in Counted}
SourceTables == Cut([s \in Sources |-> SourceRow(s)])
RuleTables == Cut([n \in Labels |-> RuleRow(n)])

(* The audit groups by source and by the rule the payload names.               *)
AuditRow(source, name) ==
    Row({e \in Counted : traffic[e].source = source /\ traffic[e].name = name})

Reaches(row, at) ==
    /\ row.total >= at.total /\ row.duplicates >= at.dups
    /\ Pct(row.duplicates, row.total) >= at.rate

--------------------------------------------------------------------------------
(* The proposals.                                                              *)
(* A rule's own source when its table shows it, else the whole window.         *)
StatsFor(rule, sources) ==
    IF Scope[rule] \in sources THEN SourceRow(Scope[rule]) ELSE Summary

(* The rules that carry no alert to a person are off limits.                   *)
Tunable == {r \in ForwardRules : Purpose[r] = "alerts"}
FilterOffers(sources) ==
    {<<"duplicate_filter", rule>> :
        rule \in {r \in Tunable : filters[r].match = "all" /\ Reaches(StatsFor(r, sources), FilterAt)}}

Active(silence) == ~silence.lifted /\ silence.left > 0
SilenceOffers ==
    {<<"temporary_silence", traffic[e].source, traffic[e].name>> :
        e \in {e \in Counted :
                /\ traffic[e].name # "none"
                /\ Reaches(AuditRow(traffic[e].source, traffic[e].name), SilenceAt)
                /\ ~\E s \in DOMAIN silences :
                      /\ Active(silences[s])
                      /\ silences[s].source = traffic[e].source /\ silences[s].name = traffic[e].name}}

(* csv_value_matches: a digest rule that names no alert rule covers them all.  *)
Digested(name) ==
    \E i \in DOMAIN inbound :
        inbound[i].enabled /\ inbound[i].action = "digest" /\ inbound[i].name \in {name, "any"}
ExpectedReduction(row) == IF row.total > row.windows THEN row.total - row.windows ELSE 0
DigestOffers(rules) ==
    {<<"digest", name>> :
        name \in {n \in AlertRuleNames \cap rules : Reaches(RuleRow(n), DigestAt) /\ ~Digested(n)}}

Suggestions ==
    UNION {FilterOffers(sources) \cup SilenceOffers \cup DigestOffers(rules) :
              sources \in SourceTables, rules \in RuleTables}

--------------------------------------------------------------------------------
NoiseInit ==
    /\ traffic \in Traffics
    /\ hand = IF traffic \in Busy THEN MaxHand ELSE 0
    /\ filters = [r \in ForwardRules |-> [match |-> "all", by |-> 0]]
    /\ inbound = <<>> /\ silences = <<>> /\ actions = <<>>
    /\ operators = [o \in Operators |-> Idle]
    /\ locks = [a \in 1..MaxActions |-> Nobody]

Move(o, state) == operators' = [operators EXCEPT ![o] = state]
Applied(suggestion) ==
    \E a \in DOMAIN actions : actions[a].suggestion = suggestion /\ actions[a].status = "applied"

(* An apply begins: refused when it is applied already, then revalidated       *)
(* against the current window.                                                 *)
BeginApply(o, suggestion) ==
    /\ operators[o] = Idle /\ traffic \in Busy /\ Len(actions) < MaxActions
    /\ ~Applied(suggestion) /\ suggestion \in Suggestions
    /\ Move(o, [pc |-> "apply", suggestion |-> suggestion])
    /\ UNCHANGED <<traffic, filters, inbound, silences, actions, locks, hand>>

(* The target is read again: a filter has to be as the proposal found it; a    *)
(* digest adopts the oldest rule for the same alert, enabled or not.           *)
DigestRows(name) ==
    {i \in DOMAIN inbound : inbound[i].action = "digest" /\ inbound[i].name = name}
AsProposed(suggestion) ==
    suggestion[1] = "duplicate_filter" => filters[suggestion[2]].match = "all"
Adopted(suggestion) ==
    IF suggestion[1] = "digest" /\ DigestRows(suggestion[2]) # {}
    THEN Min(DigestRows(suggestion[2])) ELSE 0
ReadTarget(o) ==
    /\ operators[o].pc = "apply"
    /\ LET s == operators[o].suggestion
           row == Adopted(s)
       IN  Move(o, IF AsProposed(s)
                   THEN [pc |-> "write", suggestion |-> s, row |-> row,
                         read |-> IF row = 0 THEN Idle ELSE inbound[row]]
                   ELSE Idle)
    /\ UNCHANGED <<traffic, filters, inbound, silences, actions, locks, hand>>

(* The write, the action row and the commit; `row` is the resource it names.   *)
Record(suggestion, row) ==
    actions' = Append(actions, [suggestion |-> suggestion, row |-> row, status |-> "applied", undos |-> 0])

ApplyFilter(s, id) ==
    /\ s[1] = "duplicate_filter"
    /\ filters' = [filters EXCEPT ![s[2]] = [match |-> "new", by |-> id]]
    /\ Record(s, 0) /\ UNCHANGED <<inbound, silences>>
ApplySilence(s, id) ==
    /\ s[1] = "temporary_silence"
    /\ silences' = Append(silences, [source |-> s[2], name |-> s[3], lifted |-> FALSE,
                                     left |-> SilenceHours, by |-> id])
    /\ Record(s, Len(silences) + 1) /\ UNCHANGED <<filters, inbound>>
(* Of an adopted row only the columns are written that differ from the row as  *)
(* it was read: one read as enabled and disabled since stays disabled.         *)
ApplyDigest(s, row, read, id) ==
    /\ s[1] = "digest"
    /\ inbound' = IF row = 0
                  THEN Append(inbound, [name |-> s[2], enabled |-> TRUE, action |-> "digest",
                                        window |-> DefaultWindow, by |-> id])
                  ELSE [inbound EXCEPT ![row].enabled = @ \/ ~read.enabled,
                                       ![row].window = IF read.window = DefaultWindow THEN @ ELSE DefaultWindow,
                                       ![row].by = id]
    /\ Record(s, IF row = 0 THEN Len(inbound) + 1 ELSE row) /\ UNCHANGED <<filters, silences>>

CommitApply(o) ==
    /\ operators[o].pc = "write" /\ Len(actions) < MaxActions
    /\ LET s == operators[o].suggestion
           id == Len(actions) + 1
       IN  ApplyFilter(s, id) \/ ApplySilence(s, id) \/ ApplyDigest(s, operators[o].row, operators[o].read, id)
    /\ Move(o, Idle)
    /\ UNCHANGED <<traffic, locks, hand>>

(* Whether the target of an action still looks applied to the undo.            *)
StillApplied(a) ==
    LET s == actions[a].suggestion
    IN  CASE s[1] = "duplicate_filter" -> filters[s[2]].match = "new"
          [] s[1] = "temporary_silence" -> ~silences[actions[a].row].lifted
          [] s[1] = "digest" -> /\ inbound[actions[a].row].enabled
                                /\ inbound[actions[a].row].action = "digest"

(* Mutant: the undo does not lock the action.                                  *)
Free_Unlocked(a, o) == o \in Operators

Free(a, o) == locks[a] \in {Nobody, o}
(* An undo locks the action row, then reads the target without a lock.         *)
BeginUndo(o, a) ==
    /\ operators[o] = Idle /\ Free(a, o)
    /\ actions[a].status = "applied" /\ StillApplied(a)
    /\ locks' = [locks EXCEPT ![a] = o]
    /\ Move(o, [pc |-> "undo", action |-> a])
    /\ UNCHANGED <<traffic, filters, inbound, silences, actions, hand>>

(* Mutant: the digest to disable is looked up by name.                         *)
UndoRow_ByName(a) ==
    IF actions[a].suggestion[1] = "digest" THEN Min(DigestRows(actions[a].suggestion[2])) ELSE actions[a].row

UndoRow(a) == actions[a].row
Restore(a) ==
    LET s == actions[a].suggestion
    IN  \/ /\ s[1] = "duplicate_filter"
           /\ filters' = [filters EXCEPT ![s[2]] = [match |-> "all", by |-> 0]]
           /\ UNCHANGED <<inbound, silences>>
        \/ /\ s[1] = "temporary_silence"
           /\ silences' = [silences EXCEPT ![UndoRow(a)].lifted = TRUE]
           /\ UNCHANGED <<filters, inbound>>
        \/ /\ s[1] = "digest"
           /\ inbound' = [inbound EXCEPT ![UndoRow(a)].enabled = FALSE]
           /\ UNCHANGED <<filters, silences>>
CommitUndo(o) ==
    /\ operators[o].pc = "undo"
    /\ Restore(operators[o].action)
    /\ actions' = [actions EXCEPT ![operators[o].action].status = "undone",
                                  ![operators[o].action].undos = @ + 1]
    /\ locks' = [locks EXCEPT ![operators[o].action] = Nobody]
    /\ Move(o, Idle)
    /\ UNCHANGED <<traffic, hand>>

(* Edits by hand, through the pages of the rules and of the silences.          *)
EditFilter(rule, match) ==
    filters' = [filters EXCEPT ![rule] = [match |-> match, by |-> 0]] /\ UNCHANGED <<inbound, silences>>
EditInbound(i) ==
    /\ inbound' \in {[inbound EXCEPT ![i].enabled = ~@, ![i].by = 0],
                     [inbound EXCEPT ![i].window = HandWindow, ![i].by = 0]}
    /\ UNCHANGED <<filters, silences>>
AddBroadDigest ==
    /\ inbound' = Append(inbound, [name |-> "any", enabled |-> TRUE, action |-> "digest",
                                   window |-> HandWindow, by |-> 0])
    /\ UNCHANGED <<filters, silences>>
LiftSilence(s) ==
    /\ ~silences[s].lifted
    /\ silences' = [silences EXCEPT ![s].lifted = TRUE] /\ UNCHANGED <<filters, inbound>>
ByHand ==
    /\ hand > 0 /\ hand' = hand - 1
    /\ \/ \E rule \in Tunable, match \in {"all", "new", "duplicate"} : EditFilter(rule, match)
       \/ \E i \in DOMAIN inbound : EditInbound(i)
       \/ AddBroadDigest
       \/ \E s \in DOMAIN silences : LiftSilence(s)
    /\ UNCHANGED <<traffic, actions, operators, locks>>

Hour ==
    /\ \E s \in DOMAIN silences : silences[s].left > 0
    /\ silences' = [s \in DOMAIN silences |->
                      [silences[s] EXCEPT !.left = IF @ > 0 THEN @ - 1 ELSE 0]]
    /\ UNCHANGED <<traffic, filters, inbound, actions, operators, locks, hand>>

NoiseNext ==
    \/ \E o \in Operators :
        \/ \E suggestion \in Suggestions : BeginApply(o, suggestion)
        \/ ReadTarget(o) \/ CommitApply(o) \/ CommitUndo(o)
        \/ \E a \in DOMAIN actions : BeginUndo(o, a)
    \/ ByHand \/ Hour
NoiseSpec == NoiseInit /\ [][NoiseNext]_noiseVars

--------------------------------------------------------------------------------
(* Actions name rows that exist, and every row has its shape.                  *)
NoiseTypeOK ==
    /\ \A r \in ForwardRules : filters[r].match \in {"all", "new", "duplicate"} /\ filters[r].by \in 0..MaxActions
    /\ \A a \in DOMAIN actions :
        /\ actions[a].status \in {"applied", "undone"}
        /\ actions[a].suggestion[1] = "digest" => actions[a].row \in DOMAIN inbound
        /\ actions[a].suggestion[1] = "temporary_silence" => actions[a].row \in DOMAIN silences
    /\ \A i \in DOMAIN inbound : inbound[i].window \in {DefaultWindow, HandWindow}

(* The tables and the summary above them count the same window: a probe is in  *)
(* neither, no table counts more alerts, noise or avoided cards than the       *)
(* summary, whichever of equal rows it shows; a table that is not cut has      *)
(* every alert in exactly one row; and a digest is never priced at more than   *)
(* the alerts it batches.                                                      *)
SourceSum(shown, column) == MapThenSumSet(LAMBDA s : SourceRow(s)[column], shown)
RuleSum(shown, column) == MapThenSumSet(LAMBDA n : RuleRow(n)[column], shown)
TablesSum ==
    /\ \A column \in {"total", "noise", "avoided"} :
        /\ \A shown \in SourceTables : SourceSum(shown, column) <= Summary[column]
        /\ \A shown \in RuleTables : RuleSum(shown, column) <= Summary[column]
    /\ \A column \in {"total", "noise"} :
        /\ Cardinality(Sources) <= MaxSources => SourceSum(Sources, column) = Summary[column]
        /\ Cardinality(Labels) <= MaxSources => RuleSum(Labels, column) = Summary[column]
    /\ \A n \in Labels : ExpectedReduction(RuleRow(n)) < RuleRow(n).total

(* "Applied to both windows so the tables still sum to the summary above them" *)
(* (_window_metrics), whatever the number of sources and rules.                *)
(* The code does not keep this: README, section 6.                             *)
TablesAddUp ==
    \A column \in {"total", "noise", "avoided"} :
        /\ \A shown \in SourceTables : SourceSum(shown, column) = Summary[column]
        /\ column # "avoided" =>
              \A shown \in RuleTables : RuleSum(shown, column) = Summary[column]

(* Nothing the centre quietened is orphaned: whatever of it is still in force, *)
(* and no hand has touched since, belongs to an action that is still applied   *)
(* and can be undone, however operators' applies and undos overlap.            *)
QuietHasOwner ==
    /\ \A r \in ForwardRules :
        filters[r].match = "new" /\ filters[r].by # 0 => actions[filters[r].by].status = "applied"
    /\ \A i \in DOMAIN inbound :
        inbound[i].enabled /\ inbound[i].by # 0 => actions[inbound[i].by].status = "applied"
    /\ \A s \in DOMAIN silences : Active(silences[s]) => actions[silences[s].by].status = "applied"

(* An action is undone once: a second press, at the same time or later, never  *)
(* takes back what was applied or edited after the first.                      *)
UndoneOnce == \A a \in DOMAIN actions : actions[a].undos <= 1

(* An action that is listed as applied is in force, where no hand has touched  *)
(* its target: otherwise its proposal is refused as applied already.           *)
(* The code does not keep this: README, section 6.                             *)
AppliedInForce ==
    \A a \in DOMAIN actions :
        actions[a].status = "applied" /\ actions[a].suggestion[1] = "digest"
            /\ inbound[actions[a].row].by # 0 => inbound[actions[a].row].enabled

(* The target of an action is as its apply left it.                            *)
AsApplied(a) ==
    LET s == actions[a].suggestion
    IN  CASE s[1] = "duplicate_filter" -> filters[s[2]].match = "new"
          [] s[1] = "temporary_silence" -> ~silences[actions[a].row].lifted
          [] s[1] = "digest" -> /\ inbound[actions[a].row].enabled
                                /\ inbound[actions[a].row].window = DefaultWindow

(* "Undo an optimization only when its target still matches the applied state" *)
(* (noise_center.py): when an undo is committed its target is as the apply     *)
(* left it.                                                                    *)
(* The code does not keep this: README, section 6.                             *)
UndoMatchesApplied ==
    [][\A a \in DOMAIN actions : actions'[a].undos > actions[a].undos => AsApplied(a)]_noiseVars
================================================================================
