-------------------------- MODULE SourceAdapters --------------------------
(***************************************************************************)
(* From the body of a webhook to the keys it is threaded by: the registry  *)
(* of adapters built at start-up (adapters/registry.py, declarative.py,    *)
(* simple_adapters.py), the relay envelope that may hide or truncate the   *)
(* document (ecosystem_adapters.py), the identity an adapter reads off it  *)
(* (normalized.py) and the alert_hash and dedup_key made of that identity  *)
(* (services/dedup.py).                                                    *)
(*                                                                         *)
(* A JSON object is a sequence of pairs; a value is a scalar (its text) or *)
(* an object.  Its text is the sequence of its braces, commas, keys and    *)
(* scalars, and a sender may cut it after any of them.  A hash is the      *)
(* record that is hashed.                                                  *)
(***************************************************************************)
EXTENDS Integers, Sequences, FiniteSets, FiniteSetsExt, SequencesExt

CONSTANTS
    Directories,    \* possible contents of adapters/specs: sequences of adapters
    Hints,          \* source names a request may carry; "" for none
    Placeholders,   \* unknown, custom, default, generic
    Documents,      \* objects that arrive: with each, its values and its beginnings
    Wrappers,       \* fields the relay adds to the document it wraps (0: not wrapped)
    Keyings,        \* settings of DEDUP_FINGERPRINT_FIELDS (paths) and of
                    \* DEDUP_FINGERPRINT_EXCLUDE_LABELS (excluded) for the source
    MaxSalvage,     \* _MAX_SALVAGE_DEPTH
    MaxPasses       \* bound: calls of initialize_adapters

VARIABLES
    directory,      \* the specs of this deployment
    registry,       \* [detectors, normalizers, aliases]
    passes,         \* initialize_adapters calls completed
    todo,           \* specs the running pass has still to consider
    keying,         \* the live dedup settings: mode, paths and excluded
    log             \* the events normalised so far

adapterVars == <<directory, registry, passes, todo, keying, log>>

-----------------------------------------------------------------------------
(* Texts and documents.                                                    *)
RECURSIVE Text(_)
Text(doc) ==
    LET value(p) == IF p.object THEN Text(p.pairs) ELSE <<p.scalar>>
        pair(k) == (IF k > 1 THEN <<",">> ELSE <<>>) \o <<doc[k].key>> \o value(doc[k])
    IN  <<"{">> \o FlattenSeq([k \in DOMAIN doc |-> pair(k)]) \o <<"}">>

(* json.loads, by what it is: the document the text is the text of.        *)
Texts == [d \in Documents |-> Text(d)]
Whole(text) == \E d \in Documents : Texts[d] = text
Parse(text) == CHOOSE d \in Documents : Texts[d] = text

DepthAt(text, i) ==
    Cardinality({k \in 1..i : text[k] = "{"}) - Cardinality({k \in 1..i : text[k] = "}"})

(* _salvage_truncated_object, _salvage_trailing_object_pair: the pairs up  *)
(* to the last comma of the object itself, and what can be salvaged of the *)
(* object the cut fell into.  <<>> is "nothing survives".                  *)
Cuts_AnyDepth(text) == {i \in DOMAIN text : text[i] = ","}

Cuts(text) == {i \in DOMAIN text : text[i] = "," /\ DepthAt(text, i) = 1}

RECURSIVE Salvage(_, _)
Salvage(text, depth) ==
    LET cut   == IF Cuts(text) = {} THEN 1 ELSE Max(Cuts(text))
        front == SubSeq(text, 1, cut - 1) \o <<"}">>
        tail  == SubSeq(text, cut + 1, Len(text))
        inner == IF depth < MaxSalvage /\ Len(tail) > 1 /\ tail[2] = "{"
                 THEN Salvage(Tail(tail), depth + 1) ELSE <<>>
        last  == IF inner = <<>> THEN <<>> ELSE <<[key |-> tail[1], object |-> TRUE, scalar |-> "", pairs |-> inner]>>
    IN  IF cut = 1 THEN last ELSE IF Whole(front) THEN Parse(front) \o last ELSE <<>>

(* _unwrap_json_envelope: the view of a document that came as a string in  *)
(* an envelope of `wrapper` scalar fields, cut after `arrived` tokens.     *)
Envelope(wrapper) == [k \in 1..wrapper |-> [key |-> "envelope", object |-> FALSE, scalar |-> "relay", pairs |-> <<>>]]

View(doc, wrapper, arrived) ==
    LET text  == SubSeq(Texts[doc], 1, arrived)
        inner == IF Whole(text) THEN Parse(text) ELSE Salvage(text, 0)
    IN  IF wrapper = 0 THEN doc
        ELSE IF Len(inner) > wrapper THEN inner ELSE Envelope(wrapper)

-----------------------------------------------------------------------------
(* _resolve_path, _extract_field_path: paths of one or two keys.           *)
Paths(doc) ==
    {<<p.key>> : p \in ToSet(doc)}
    \cup UNION {{<<p.key, q.key>> : q \in ToSet(p.pairs)} : p \in ToSet(doc)}

Resolve(doc, path) ==
    LET p == CHOOSE p \in ToSet(doc) : p.key = path[1]
        q == CHOOSE q \in ToSet(p.pairs) : q.key = path[2]
    IN  IF path \notin Paths(doc) THEN "" ELSE IF Len(path) = 1 THEN p.scalar ELSE q.scalar

(* _first_non_empty, _pick_first: the first path with a non-blank value.   *)
FirstNonEmpty(doc, paths) ==
    LET found == SelectSeq(paths, LAMBDA p : Resolve(doc, p) # "")
    IN  IF found = <<>> THEN "" ELSE Resolve(doc, found[1])

-----------------------------------------------------------------------------
(* An adapter: the sets of paths of which one has to be present, and for   *)
(* each field of the identity the paths it is read from.  The first alert, *)
(* resource or label set of a list stands for the list; a prefix test on a *)
(* value counts as its presence.                                           *)
Fields == {"name", "resource", "fingerprint", "severity"}

AdapterOf(name, aliases, priority, needs, reads) ==
    [name |-> name, aliases |-> aliases, priority |-> priority, needs |-> needs, reads |-> reads]

Volcengine == AdapterOf("volcengine", {"volc", "vcm", "cloudmonitor"}, 0,
    {{<<"Namespace">>, <<"Resources">>}},
    [name        |-> <<<<"RuleName">>, <<"AlertName">>, <<"MetricName">>, <<"Type">>>>,
     resource    |-> <<<<"Resources", "InstanceId">>, <<"Resources", "ResourceID">>, <<"Resources", "Id">>>>,
     fingerprint |-> <<<<"alert_id">>, <<"AlertId">>, <<"ID">>>>,
     severity    |-> <<<<"Level">>, <<"Severity">>>>])

Grafana == AdapterOf("grafana", {}, 0,
    {{<<r>>, <<s>>} : r \in {"ruleName", "dashboardId"}, s \in {"state", "status"}}
    \cup {{<<"alerts">>, <<"orgId">>}, {<<"alerts">>, <<"receiver">>, <<"title">>, <<"message">>}},
    [name        |-> <<<<"alerts", "alertname">>, <<"commonLabels", "alertname">>, <<"ruleName">>, <<"title">>>>,
     resource    |-> <<<<"alerts", "instance">>, <<"alerts", "pod">>, <<"alerts", "host">>, <<"ruleId">>, <<"panelId">>, <<"dashboardId">>>>,
     fingerprint |-> <<<<"alerts", "fingerprint">>, <<"ruleId">>>>,
     severity    |-> <<<<"alerts", "status">>, <<"state">>, <<"status">>>>])

Prometheus == AdapterOf("prometheus", {"alertmanager"}, 0,
    {{<<"alerts">>}},
    [name        |-> <<<<"alerts", "alertname">>, <<"alertingRuleName">>>>,
     resource    |-> <<<<"alerts", "instance">>, <<"alerts", "pod">>, <<"alerts", "host">>, <<"alerts", "service">>, <<"alerts", "namespace">>>>,
     fingerprint |-> <<<<"alerts", "fingerprint">>, <<"alerts", "alert_id">>, <<"alerts", "rule_id">>>>,
     severity    |-> <<<<"alerts", "severity">>>>])

Datadog == AdapterOf("datadog", {}, 0,
    {{<<"alert_type">>, <<"event_type">>}, {<<"alert_type">>, <<"query">>}, {<<"event_type">>, <<"query">>}},
    [name        |-> <<<<"alert_name">>, <<"title">>>>,
     resource    |-> <<<<"host">>, <<"tags", "host">>, <<"tags", "instance">>>>,
     fingerprint |-> <<<<"id">>, <<"event_id">>>>,
     severity    |-> <<<<"alert_type">>, <<"priority">>>>])

Pagerduty == AdapterOf("pagerduty", {}, 0,
    {{<<"incident">>}, {<<"event", "event_type">>}},
    [name        |-> <<<<"incident", "title">>, <<"event", "title">>, <<"description">>>>,
     resource    |-> <<>>,
     fingerprint |-> <<<<"incident", "id">>, <<"event", "id">>>>,
     severity    |-> <<<<"incident", "urgency">>, <<"event", "event_type">>>>])

(* The fingerprint of a card joins its strategy and its trigger; here the  *)
(* strategy, which is the name, leaves the trigger.                        *)
FeishuCard == AdapterOf("feishu_card", {"volcengine_log"}, 0,
    {{<<"card">>}},
    [name        |-> <<<<"card", "strategy">>, <<"card", "title">>>>,
     resource    |-> <<<<"card", "topic">>>>,
     fingerprint |-> <<<<"card", "trigger">>>>,
     severity    |-> <<<<"card", "level">>>>])

Builtin == <<Volcengine, Grafana, Prometheus, Datadog, Pagerduty, FeishuCard>>

-----------------------------------------------------------------------------
(* AdapterRegistry: detectors ordered by priority, then by registration; a *)
(* name or an alias registered again points to the newest adapter.         *)
Empty == [detectors |-> <<>>, normalizers |-> {}, aliases |-> [k \in {} |-> ""]]

Placed_Newest(ds, a) == <<a>> \o ds

Placed(ds, a) ==
    SelectSeq(ds, LAMBDA d : d.priority >= a.priority) \o <<a>> \o SelectSeq(ds, LAMBDA d : d.priority < a.priority)

Register(r, a) ==
    [detectors   |-> Placed(r.detectors, a),
     normalizers |-> r.normalizers \cup {a.name},
     aliases     |-> [k \in DOMAIN r.aliases \cup {a.name} \cup a.aliases |->
                        IF k \in {a.name} \cup a.aliases THEN a.name ELSE r.aliases[k]]]

Known(r, name) == name \in DOMAIN r.aliases

Detects(d, doc) == \E paths \in d.needs : paths \subseteq Paths(doc)

(* find_adapter_by_payload: the first detector that accepts.  (No detector *)
(* there is raises on a JSON document.)                                    *)
ByPayload(doc) ==
    LET accepting == SelectSeq(registry.detectors, LAMBDA d : Detects(d, doc))
    IN  IF accepting = <<>> THEN "" ELSE accepting[1].name

(* normalize_webhook_event: the source names the adapter, else the         *)
(* document does; a source that says nothing is replaced by the adapter's. *)
Adapter(doc, hint) ==
    IF hint # "" /\ Known(registry, hint) THEN registry.aliases[hint] ELSE ByPayload(doc)

Source(doc, hint) ==
    LET a == Adapter(doc, hint)
    IN  IF a = "" THEN IF hint = "" THEN "unknown" ELSE hint
        ELSE IF hint \notin Placeholders \cup {""} /\ ~Known(registry, hint) THEN hint ELSE a

-----------------------------------------------------------------------------
(* with_alert_identity, extract_alert_identity: the fields the adapter     *)
(* found; a document without an adapter has no identity.                   *)
AdapterNamed(name) == CHOOSE d \in ToSet(registry.detectors) : d.name = name
Identity(doc, name) == [f \in Fields |-> FirstNonEmpty(doc, AdapterNamed(name).reads[f])]

(* _default_event_keys.  (The bucket of the resource risk is left out.)    *)
DefaultKeys(doc, name, source) ==
    IF name = "" THEN [hash |-> <<source, doc>>, key |-> <<"payload", source, doc>>]
    ELSE LET id == Identity(doc, name)
         IN  [hash |-> <<source, id>>, key |-> <<"identity", name, [f \in Fields \ {"severity"} |-> id[f]]>>]

(* _fingerprint_dedup_key, generate_event_keys: the configured fields that *)
(* resolve are the key, on a ladder of modes.                              *)
Configured_First(doc, source, paths) ==
    LET found == SelectSeq(paths, LAMBDA p : p \in Paths(doc))
    IN  IF found = <<>> THEN <<>>
        ELSE <<"fields", source, [p \in {found[1]} |-> Resolve(doc, p)]>>

Configured(doc, source, paths) ==
    LET found == {p \in ToSet(paths) : p \in Paths(doc)}
    IN  IF found = {} THEN <<>> ELSE <<"fields", source, [p \in found |-> Resolve(doc, p)]>>

(* _label_identity_dedup_key: the labels that are not excluded, of the     *)
(* first object that has any; the labels of an alert stand among its own   *)
(* fields.                                                                 *)
LabelMaps == <<"alerts", "commonLabels", "labels">>
AlertFields == {"status", "fingerprint", "alert_id", "rule_id"}

LabelsAt(doc, map) ==
    {l \in UNION {ToSet(p.pairs) : p \in {q \in ToSet(doc) : q.key = map}} : l.key \notin AlertFields}

LabelsOf(doc) ==
    LET maps == SelectSeq(LabelMaps, LAMBDA m : LabelsAt(doc, m) # {})
    IN  IF maps = <<>> THEN {} ELSE LabelsAt(doc, maps[1])

Remaining(doc, excluded) == {l \in LabelsOf(doc) : l.key \notin excluded}

WithoutLabels(doc, source, excluded) ==
    IF Remaining(doc, excluded) = {} THEN <<>> ELSE <<"labels", source, Remaining(doc, excluded)>>

Keyed == keying.paths # <<>> \/ keying.excluded # {}

EventKeys(doc, name, source) ==
    LET default    == DefaultKeys(doc, name, source)
        configured == IF keying.paths # <<>> THEN Configured(doc, source, keying.paths)
                      ELSE IF keying.excluded # {} THEN WithoutLabels(doc, source, keying.excluded)
                      ELSE <<>>
    IN  IF keying.mode = "enforce" /\ configured # <<>> THEN [default EXCEPT !.key = configured] ELSE default

-----------------------------------------------------------------------------
AdapterInit ==
    /\ directory \in Directories
    /\ registry = Empty
    /\ passes = 0
    /\ todo = <<>>
    /\ \E k \in Keyings, m \in {"off", "enforce"} :
          keying = [mode |-> m, paths |-> k.paths, excluded |-> k.excluded]
    /\ log = <<>>

(* register_simple_adapters: all of them, unless the first is there.       *)
RegisterBuiltin ==
    /\ passes < MaxPasses
    /\ todo = <<>>
    /\ log = <<>>
    /\ registry' = IF Known(registry, Builtin[1].name) THEN registry
                   ELSE FoldLeft(Register, registry, Builtin)
    /\ todo' = directory
    /\ passes' = IF directory = <<>> THEN passes + 1 ELSE passes
    /\ UNCHANGED <<directory, keying, log>>

(* register_declarative_adapters: a spec whose name is known is skipped.   *)
RegisterSpec_Always ==
    /\ todo # <<>>
    /\ registry' = Register(registry, Head(todo))
    /\ todo' = Tail(todo)
    /\ passes' = IF todo' = <<>> THEN passes + 1 ELSE passes
    /\ UNCHANGED <<directory, keying, log>>

RegisterSpec ==
    /\ todo # <<>>
    /\ registry' = IF Known(registry, Head(todo).name) THEN registry ELSE Register(registry, Head(todo))
    /\ todo' = Tail(todo)
    /\ passes' = IF todo' = <<>> THEN passes + 1 ELSE passes
    /\ UNCHANGED <<directory, keying, log>>

(* Bound: a second event only where configured keys are compared, neither  *)
(* of the two relayed.                                                     *)
MoreEvents ==
    \/ log = <<>>
    \/ Len(log) = 1 /\ Keyed /\ passes = MaxPasses /\ log[1].wrapper = 0

(* parse_request: an event is unwrapped, adapted and keyed.                *)
Normalize(doc, wrapper, arrived, hint) ==
    LET view   == View(doc, wrapper, arrived)
        name   == Adapter(view, hint)
        source == Source(view, hint)
    IN  /\ passes > 0 /\ todo = <<>>
        /\ log # <<>> => wrapper = 0
        /\ log' = Append(log, [doc |-> doc, wrapper |-> wrapper, arrived |-> arrived, hint |-> hint,
                               view |-> view, adapter |-> name, source |-> source,
                               keys |-> EventKeys(view, name, source), keying |-> keying])
        /\ UNCHANGED <<directory, registry, passes, todo, keying>>

(* DEDUP_FINGERPRINT_MODE is a runtime setting.                            *)
ChangeMode(mode) ==
    /\ Len(log) = 1
    /\ mode # keying.mode /\ Keyed /\ passes = MaxPasses
    /\ keying' = [keying EXCEPT !.mode = mode]
    /\ UNCHANGED <<directory, registry, passes, todo, log>>

AdapterNext ==
    \/ RegisterBuiltin
    \/ RegisterSpec
    \/ MoreEvents /\ \E doc \in Documents, wrapper \in Wrappers, hint \in Hints :
          \E arrived \in 1..Len(Texts[doc]) :
             /\ wrapper = 0 => arrived = Len(Texts[doc])
             /\ Normalize(doc, wrapper, arrived, hint)
    \/ \E mode \in {"off", "shadow", "enforce"} : ChangeMode(mode)

AdapterSpec == AdapterInit /\ [][AdapterNext]_adapterVars

-----------------------------------------------------------------------------
(* Starting the adapters again, as every entry point of a process does,    *)
(* changes nothing: no detector is doubled and no name changes hands.      *)
InitIdempotent == [][passes > 0 => registry' = registry]_adapterVars

(* A built-in adapter wins the tie: an event whose source names nobody     *)
(* goes to a declarative adapter only when no built-in one recognises it   *)
(* or the spec asked for a higher priority.                                *)
BuiltinWinsTie ==
    \A k \in DOMAIN log :
        LET e == log[k]
            builtins == {d \in ToSet(Builtin) : Detects(d, e.view)}
        IN  ~Known(registry, e.hint) /\ builtins # {} =>
               /\ e.adapter # ""
               /\ \/ e.adapter \in {d.name : d \in builtins}
                  \/ AdapterNamed(e.adapter).priority > 0

(* What is read out of a truncated envelope is true and all that was       *)
(* whole: it is a beginning of the document that was sent, and it has      *)
(* every pair, of the document or of the object the cut fell into, that    *)
(* was followed by a comma.  It is not given up when more of them arrived  *)
(* than the envelope has.                                                  *)
SalvageTrue ==
    \A k \in DOMAIN log :
        LET e    == log[k]
            seen == e.view
            upto(i) == IF i = 0 THEN 1 ELSE Len(Text(SubSeq(e.doc, 1, i)))
            whole == {i \in DOMAIN e.doc : i < Len(e.doc) /\ upto(i) <= e.arrived}
            inside(i, j) == upto(i - 1) + 1 + Len(Text(SubSeq(e.doc[i].pairs, 1, j)))
        IN  e.wrapper > 0 /\ (seen # Envelope(e.wrapper) \/ Cardinality(whole) > e.wrapper) =>
               /\ Len(seen) <= Len(e.doc)
               /\ \A i \in DOMAIN seen :
                     \/ seen[i] = e.doc[i]
                     \/ /\ seen[i].key = e.doc[i].key
                        /\ e.doc[i].object
                        /\ IsPrefix(seen[i].pairs, e.doc[i].pairs)
               /\ \A i \in DOMAIN e.doc :
                     /\ i \in whole => i <= Len(seen) /\ seen[i] = e.doc[i]
                     /\ \A j \in 1..(Len(e.doc[i].pairs) - 1) :
                           inside(i, j) <= e.arrived =>
                              i <= Len(seen) /\ IsPrefix(SubSeq(e.doc[i].pairs, 1, j), seen[i].pairs)

(* An operator's choice of identity fields never threads two alerts that   *)
(* it tells apart: events with one dedup_key agree on every configured     *)
(* field, or on every label that is not excluded, or have one built-in     *)
(* key; also when the mode changed in between.                             *)
NoCollapse ==
    \A j, k \in DOMAIN log :
        log[j].keys.key = log[k].keys.key =>
            \/ /\ keying.paths # <<>>
               /\ \A p \in ToSet(keying.paths) : Resolve(log[j].view, p) = Resolve(log[k].view, p)
            \/ /\ keying.paths = <<>>
               /\ Remaining(log[j].view, keying.excluded) = Remaining(log[k].view, keying.excluded)
            \/ DefaultKeys(log[j].view, log[j].adapter, log[j].source).key
                   = DefaultKeys(log[k].view, log[k].adapter, log[k].source).key

(* "A half-matching config must fragment, not collapse everything into one *)
(* bucket" (generate_event_keys): when a configured field is missing, the  *)
(* built-in key still tells the alerts apart.                              *)
(* The code does not keep this: README, section 6.                         *)
HalfMatchFragments ==
    \A j, k \in DOMAIN log :
        /\ log[j].keys.key = log[k].keys.key
        /\ \E p \in ToSet(keying.paths) : p \notin Paths(log[j].view)
        => DefaultKeys(log[j].view, log[j].adapter, log[j].source).key
              = DefaultKeys(log[k].view, log[k].adapter, log[k].source).key

AdapterTypeOK ==
    /\ directory \in Directories
    /\ \A k \in DOMAIN registry.detectors : registry.detectors[k].name \in registry.normalizers
    /\ \A k \in DOMAIN registry.aliases : registry.aliases[k] \in registry.normalizers
    /\ passes \in 0..MaxPasses
    /\ \A k \in DOMAIN log : log[k].hint \in Hints /\ log[k].adapter \in registry.normalizers \cup {""}
=============================================================================
