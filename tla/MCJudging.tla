------------------------------ MODULE MCJudging ------------------------------
(***************************************************************************)
(* What an alert is worth and whom it is told to: the decision that routes *)
(* it, and the stage that relates it to the alerts before it.  They share  *)
(* no state a property relates, so a behaviour exercises one of them and   *)
(* the other rests.                                                        *)
(***************************************************************************)
EXTENDS AlertRouting, NoiseReduction, TLC

VARIABLE part    \* the component the behaviour exercises

\* Small tables and the alerts they apply to.
Anything == [pos |-> {}, neg |-> {}]
Only(v) == [pos |-> {v}, neg |-> {}]
Not(v) == [pos |-> {}, neg |-> {v}]

High == [imp |-> "high", cached |-> FALSE, derived |-> FALSE]
Derived == [imp |-> "low", cached |-> TRUE, derived |-> TRUE]

\* A production alert that says so, and one whose project and environment are
\* only in its text and whose project field is a placeholder.
Stated == [source |-> "volc", name |-> "disk", projects |-> <<<<"shop">>>>, region |-> "cn",
           env |-> <<"production">>, texts |-> <<>>, fields |-> [team |-> "sre"],
           verdicts |-> {High}]
Inferred == [source |-> "volc", name |-> "disk", projects |-> <<<<"default">>>>, region |-> "",
             env |-> <<>>, texts |-> <<<<"shop", "prod", "1">>>>, fields |-> <<>>,
             verdicts |-> {High}]
Unnamed == [Inferred EXCEPT !.name = ""]
Drifting == [Stated EXCEPT !.verdicts = {High, Derived}]

Chat == [id |-> 1, target |-> "chat", url |-> TRUE, stop |-> FALSE,
         m |-> [NoCriteria EXCEPT !.project = Only(<<"shop">>), !.env = Only(<<"prod">>)]]
Investigate == [id |-> 2, target |-> "deep_analysis", url |-> FALSE, stop |-> FALSE,
                m |-> [NoCriteria EXCEPT !.imp = {"high"}, !.dup = "new"]]
Night == [id |-> 3, target |-> "webhook", url |-> TRUE, stop |-> TRUE,
          m |-> [NoCriteria EXCEPT !.imp = {"low", "medium"}, !.src = {"volc"}]]
Elsewhere == [id |-> 4, target |-> "webhook", url |-> TRUE, stop |-> TRUE,
              m |-> [NoCriteria EXCEPT !.env = Not(<<"live">>)]]
Blank == [id |-> 5, target |-> "webhook", url |-> FALSE, stop |-> FALSE, m |-> NoCriteria]

Day == <<Elsewhere, Blank, Chat>>
DayAi == <<Elsewhere, Chat, Investigate>>
Hush == <<[NoCriteria EXCEPT !.pay = [team |-> "sre"], !.src = {"volc"}]>>
Inbound(action, value) == [action |-> action, value |-> value, name |-> Only("disk"), m |-> NoCriteria]
Capped == <<Inbound("cap_importance", "medium"),
            [Inbound("digest", "default") EXCEPT !.m = [NoCriteria EXCEPT !.imp = {"medium"}]]>>
Tables(rules, sils, inbound) == [rules |-> rules, silences |-> sils, inbound |-> inbound]

Plain == Tables(Day, <<>>, <<>>)
Hushed == Tables(Day, Hush, <<>>)
DayCapped == Tables(Day, <<>>, Capped)
NightCapped == Tables(<<Night, Chat>>, <<>>, Capped)
NoAi == Tables(DayAi, <<>>, <<Inbound("skip_ai", "")>>)
NoInvestigation == Tables(DayAi, <<>>, <<Inbound("skip_deep_analysis", "")>>)

Scenario(a, t, e, f) == [alert |-> a, tables |-> t, left |-> [edits |-> e, faults |-> f]]

\* A silence that goes or a ceiling that comes, a crash or a Redis failure.
FourTables == {Plain, Hushed, NightCapped, NoAi}
Mishaps == {Scenario(Stated, Hushed, 1, 0), Scenario(Inferred, NightCapped, 0, 0), Scenario(Unnamed, Plain, 0, 1),
            Scenario(Drifting, NoAi, 0, 0)}
TwoTables == {Plain, NoInvestigation}
Exclusions == {Scenario(Stated, NoInvestigation, 0, 0)}
AtRest == Scenario(Drifting, NoAi, 0, 0)

\* Alerts that share a rule, a resource or words, two of them in one scope.
NoiseKind(what, rule, scope, res, tok, level) ==
    [what |-> what, rule |-> rule, source |-> "prom", scope |-> scope, res |-> res,
     tok |-> tok, level |-> level]
NoiseKinds ==
    {NoiseKind("a", "disk", 0, {1}, {1}, "high"), NoiseKind("b", "disk", 0, {1}, {1, 2}, "low"),
     NoiseKind("c", "disk", 0, {2}, {1}, "high"), NoiseKind("b", "disk", 1, {1}, {1}, "high")}

ASSUME StageSane

------------------------------------------------------------------------------
MCInit ==
    /\ part \in {"routing", "stage"}
    /\ RoutingInit
    /\ part # "routing" => alert = AtRest.alert /\ tables = AtRest.tables /\ left = AtRest.left
    /\ StageInit

MCVars == <<part, routingVars, stageVars>>

MCNext ==
    \/ part = "routing" /\ RoutingNext
       /\ UNCHANGED <<part, stageVars>>
    \/ part = "stage" /\ StageNext
       /\ UNCHANGED <<part, routingVars>>

MCSpec == MCInit /\ [][MCNext]_MCVars

WorkerSymmetry == Permutations(RoutingWorkers)

------------------------------------------------------------------------------
\* Only a flapping alert is muted for flapping, and an alert is forwarded to every
\* target its rules name.
RoutingHolds == []MutedOnlyWhileFlapping /\ RoutedToAll
==============================================================================
