--------------------------- MODULE ResponseCenter ---------------------------
(***************************************************************************)
(* The response centre: two bounded read models over incidents.            *)
(*                                                                         *)
(* The work queue counts five buckets, one SELECT each, then reads one     *)
(* page of one bucket in SQL's order and describes each row again in       *)
(* Python.  The knowledge gaps read incidents, published documents and     *)
(* runbook executions one after the other, each up to a limit, and list    *)
(* the patterns no published runbook has been proven on.  Operators and    *)
(* the pipeline write between any two of those reads.  The two requests    *)
(* share nothing, so a behaviour has one of them.                          *)
(*                                                                         *)
(* An assignee is [who, tidy]: tidy is FALSE for a name stored with inner  *)
(* runs of blanks, which only Python's normalisation collapses.  Scores    *)
(* are kept in tenths.                                                     *)
(***************************************************************************)
EXTENDS Integers, SequencesExt, FiniteSetsExt

CONSTANTS
    Profiles,       \* what incidents may be: their fixed fields and first state
    Ids,            \* incident ids, in the order they start
    Documents,      \* documents that may be published: id -> their fields
    Assignees,      \* stored names of owners
    Nobody,         \* no owner
    Actor,          \* the operator who asks
    Never,          \* no deadline, no time
    Soon, Risk,     \* 30 minutes, sla_risk_minutes
    PageLimit,      \* limit
    Window,         \* window_days
    IncidentLimit, DocumentLimit, ExecutionLimit,
    FrequentIncidents, FrequentAlerts, HighMttr,    \* the thresholds of a gap
    MaxNow, MaxWrites, MaxRuns      \* bounds of the instance

VARIABLES
    now,
    incidents,      \* incidents that have begun
    published,      \* ids of published documents
    runs,           \* runbook_executions, oldest first
    desk,           \* the work-queue request
    gaps,           \* the knowledge-gap request
    writes          \* writes so far

deskVars == <<now, incidents, published, runs, desk, gaps, writes>>

-----------------------------------------------------------------------------
(* The work queue.                                                         *)

Buckets == <<"my", "unassigned", "sla_risk", "needs_recovery", "active">>
High == {"critical", "high"}
Idle == [stage |-> "idle"]

Owned(i) == incidents[i].assignee # Nobody
Breached(i, t) == incidents[i].due # Never /\ incidents[i].due <= t
AtRisk(i, t) == incidents[i].due # Never /\ incidents[i].due <= t + Risk

\* base_filters
Open(i) ==
    /\ incidents[i].alerts > 0
    /\ incidents[i].status \in {"active", "quiet"}
    /\ incidents[i].workflow \notin {"resolved", "ignored"}

\* bucket_filters: the SQL side.  lower(trim()) leaves inner blanks alone.
InBucket(i, b, t) ==
    CASE b = "active" -> TRUE
      [] b = "my" -> Owned(i) /\ incidents[i].assignee = [who |-> Actor, tidy |-> TRUE]
      [] b = "unassigned" -> ~Owned(i)
      [] b = "sla_risk" -> AtRisk(i, t)
      [] b = "needs_recovery" -> incidents[i].status = "quiet"

\* Mutant: a deadline on the edge is not at risk.
Memberships_Strict(i, t) ==
    {"active"}
    \cup {b \in {"my"} : Owned(i) /\ incidents[i].assignee.who = Actor}
    \cup {b \in {"unassigned"} : ~Owned(i)}
    \cup {b \in {"sla_risk"} : incidents[i].due # Never /\ incidents[i].due < t + Risk}
    \cup {b \in {"needs_recovery"} : incidents[i].status = "quiet"}

\* _work_queue_memberships: the Python side.
Memberships(i, t) ==
    {"active"}
    \cup {b \in {"my"} : Owned(i) /\ incidents[i].assignee.who = Actor}
    \cup {b \in {"unassigned"} : ~Owned(i)}
    \cup {b \in {"sla_risk"} : AtRisk(i, t)}
    \cup {b \in {"needs_recovery"} : incidents[i].status = "quiet"}

\* round(), halves to the even neighbour.
RoundDiv(a, b) ==
    LET q == a \div b  r == a % b
    IN IF 2 * r > b \/ (2 * r = b /\ q % 2 = 1) THEN q + 1 ELSE q

SeverityPoints(importance) ==
    CASE importance = "critical" -> 350
      [] importance = "high" -> 300
      [] importance = "medium" -> 180
      [] importance = "low" -> 60
      [] OTHER -> 100

\* priority_score of the query.
Priority(i, t) ==
    LET due == incidents[i].due
        If(cond, points) == IF cond THEN points ELSE 0
    IN SeverityPoints(incidents[i].importance)
       + (IF due = Never THEN 0
          ELSE IF due <= t THEN 350
          ELSE IF due <= t + Soon THEN 280
          ELSE If(due <= t + Risk, 180))
       + If(~incidents[i].acked, 120) + If(~Owned(i), 80)
       + If(incidents[i].status = "quiet", 120)

\* severity_tier
Tier(i, t) ==
    IF incidents[i].importance \in High THEN 0
    ELSE IF AtRisk(i, t) THEN 1
    ELSE IF incidents[i].status = "quiet" THEN 2 ELSE 3

\* Mutant: the score alone decides.
Sooner_ByScore(i, j, t) ==
    Priority(i, t) > Priority(j, t) \/ (Priority(i, t) = Priority(j, t) /\ i < j)

\* The order of the page; ids follow the starting times.
Sooner(i, j, t) ==
    \/ Tier(i, t) < Tier(j, t)
    \/ /\ Tier(i, t) = Tier(j, t)
       /\ \/ Priority(i, t) > Priority(j, t)
          \/ Priority(i, t) = Priority(j, t) /\ i < j

\* _next_action: exactly one, the first that applies.
NextAction(i, t) ==
    LET n == incidents[i] IN
    CASE ~n.acked /\ (n.importance \in High \/ Breached(i, t)) -> "acknowledge"
      [] ~Owned(i) -> "assign_owner"
      [] n.status = "quiet" -> "confirm_recovery"
      [] ~n.acked -> "acknowledge"
      [] Breached(i, t) -> "escalate_response"
      [] OTHER -> "investigate"

\* _work_item: what the page says of a row.  Its score adds the age to the
\* query's: a third of a point per hour, at most 8.
WorkItem(i, t) ==
    [id |-> i, importance |-> incidents[i].importance, buckets |-> Memberships(i, t),
     score |-> Min({1000, Priority(i, t) + Min({80, RoundDiv(10 * (t - incidents[i].started), 3)})}),
     next |-> NextAction(i, t)]

Matching(b, t) == {i \in DOMAIN incidents : Open(i) /\ InBucket(i, b, t)}

\* A request begins: the first page of a bucket, or the next one after that
\* of the same bucket.
AskQueue(b) ==
    /\ desk.stage = "idle" /\ gaps.stage = "idle"
    /\ desk' = [stage |-> "counting", bucket |-> b, offset |-> 0, at |-> now,
                todo |-> Buckets, count |-> 0, walk |-> <<>>, moved |-> 0]
    /\ UNCHANGED <<now, incidents, published, runs, gaps, writes>>

\* Incidents that time alone has moved in the bucket.
Shifted(b, s, t) ==
    {i \in DOMAIN incidents : Open(i) /\
        <<InBucket(i, b, s), Tier(i, s), Priority(i, s)>> # <<InBucket(i, b, t), Tier(i, t), Priority(i, t)>>}

AskNextPage ==
    /\ desk.stage = "paged"
    /\ desk' = [desk EXCEPT !.stage = "counting", !.at = now, !.todo = Buckets,
                !.moved = @ + Cardinality(Shifted(desk.bucket, desk.at, now))]
    /\ UNCHANGED <<now, incidents, published, runs, gaps, writes>>

\* One SELECT count(*) per bucket; the request needs that of its own.
CountBucket ==
    /\ desk.stage = "counting" /\ desk.todo # <<>>
    /\ desk' = [desk EXCEPT !.todo = Tail(@),
                !.count = IF Head(desk.todo) = desk.bucket
                          THEN Cardinality(Matching(desk.bucket, desk.at)) ELSE @]
    /\ UNCHANGED <<now, incidents, published, runs, gaps, writes>>

NextOffset(offset, returned, total) ==
    IF offset + returned < total THEN offset + returned ELSE Never

\* The page itself, described row by row.
ReadPage ==
    /\ desk.stage = "counting" /\ desk.todo = <<>>
    /\ LET order == SetToSortSeq(Matching(desk.bucket, desk.at),
                                 LAMBDA i, j : Sooner(i, j, desk.at))
           page == SubSeq(order, desk.offset + 1, Min({Len(order), desk.offset + PageLimit}))
           next == NextOffset(desk.offset, Len(page), desk.count)
       IN desk' = [desk EXCEPT
             !.walk = @ \o [k \in DOMAIN page |-> WorkItem(page[k], desk.at)],
             !.stage = IF next = Never THEN "done" ELSE "paged",
             !.offset = IF next = Never THEN @ ELSE next]
    /\ UNCHANGED <<now, incidents, published, runs, gaps, writes>>

-----------------------------------------------------------------------------
(* The knowledge gaps.                                                     *)

\* _group_key: scope (connection, service, environment, source) and pattern.
GroupOf(i) == [scope |-> incidents[i].scope, pattern |-> incidents[i].pattern]

\* _document_matches_group: a runbook whose tags do not exclude the group and
\* that names its pattern, or shares two specific words or one long one (the
\* generic words are left out of the sets of words).
DocumentMatches(d, g) ==
    LET doc == Documents[d]
        shared == (doc.words \cap g.pattern.words) \ g.scope.words
    IN /\ doc.kind = "runbook"
       /\ doc.services = {} \/ g.scope.service \in doc.services
       /\ doc.environments = {} \/ g.scope.environment = "" \/ g.scope.environment \in doc.environments
       /\ \/ g.pattern.name \in doc.patterns
          \/ Cardinality(shared) >= 2
          \/ \E w \in shared : w \in g.pattern.long

\* Mutant: a scan that just fills its limit passes for complete.
Full_Exactly(n, limit) == n > limit

\* A scan that returns as many rows as it may counts as truncated.
Full(n, limit) == n >= limit

\* A request takes its window and reads the newest incidents of it.
ReadIncidents ==
    /\ gaps.stage = "idle" /\ desk.stage = "idle"
    /\ LET recent == SetToSortSeq({i \in DOMAIN incidents : /\ incidents[i].started >= now - Window
                                                            /\ incidents[i].alerts > 0},
                                  LAMBDA i, j : i > j)
           read == ToSet(SubSeq(recent, 1, Min({IncidentLimit, Len(recent)})))
       IN gaps' = [stage |-> "incidents", read |-> [i \in read |-> incidents[i]],
                   full |-> Full(Len(recent), IncidentLimit), mark |-> runs]
    /\ UNCHANGED <<now, incidents, published, runs, desk, writes>>

\* The published documents, most recently updated first.
ReadDocuments ==
    /\ gaps.stage = "incidents"
    /\ \E D \in kSubset(Min({DocumentLimit, Cardinality(published)}), published) :
          gaps' = [gaps EXCEPT !.stage = "documents",
                   !.full = @ \/ Full(Cardinality(D), DocumentLimit)] @@ [docs |-> D]
    /\ UNCHANGED <<now, incidents, published, runs, desk, writes>>

\* _serialize_gap: nothing for a proven pattern or one that is neither
\* frequent, severe nor slow; otherwise its status and its score.
Serialized(g, members, refs, executions) ==
    LET over == {x \in executions : x.doc \in refs /\ x.status \in {"completed", "failed", "abandoned"}}
        proven == \E x \in over : x.status = "completed" /\ x.rating = "effective"
        bad == \E x \in over : x.rating = "ineffective" \/ x.status \in {"failed", "abandoned"}
        n == Cardinality(DOMAIN members)
        alerts == MapThenSumSet(LAMBDA i : members[i].alerts, DOMAIN members)
        severe == Cardinality({i \in DOMAIN members : members[i].importance \in High})
        solved == {i \in DOMAIN members : members[i].resolved # Never}
        mttr == IF solved = {} THEN 0
                ELSE RoundDiv(10 * MapThenSumSet(LAMBDA i : members[i].resolved - members[i].started,
                                                 solved), Cardinality(solved))
        frequent == n >= FrequentIncidents \/ alerts >= FrequentAlerts
        slow == solved # {} /\ mttr >= 10 * HighMttr
        status == IF refs = {} THEN "missing_runbook"
                  ELSE IF bad THEN "ineffective_runbook" ELSE "unproven_runbook"
    IN IF proven \/ ~(frequent \/ severe >= 1 \/ slow) THEN {}
       ELSE {[group |-> g, status |-> status,
              score |-> Min({1000, (IF frequent THEN Min({400, 80 * n + 8 * (alerts - n)}) ELSE 0)
                        + (IF severe >= 1 THEN Min({300, 120 * severe}) ELSE 0)
                        + (IF slow THEN Min({250, RoundDiv(mttr, 12)}) ELSE 0)
                        + (CASE status = "missing_runbook" -> 100
                             [] status = "ineffective_runbook" -> 80
                             [] OTHER -> 60)})]}

\* The executions of those incidents, newest first; then the list.  A
\* runbook that ran for a pattern counts as one of its runbooks.
FinishGaps ==
    /\ gaps.stage = "documents"
    /\ LET mine == SelectSeq(runs, LAMBDA x : x.incident \in DOMAIN gaps.read)
           read == SubSeq(mine, Max({1, Len(mine) - ExecutionLimit + 1}), Len(mine))
           groups == {GroupOf(i) : i \in DOMAIN gaps.read}
           Members(g) == [i \in {j \in DOMAIN gaps.read : GroupOf(j) = g} |-> gaps.read[i]]
           Ran(g) == {x \in ToSet(read) : GroupOf(x.incident) = g}
           Refs(g) == {d \in gaps.docs : DocumentMatches(d, g)}
                      \cup ({x.doc : x \in Ran(g)} \cap gaps.docs)
       IN gaps' = [gaps EXCEPT !.stage = "done",
                     !.full = @ \/ Full(Len(read), ExecutionLimit)]
                  @@ [list |-> UNION {Serialized(g, Members(g), Refs(g), Ran(g)) : g \in groups}]
    /\ UNCHANGED <<now, incidents, published, runs, desk, writes>>

-----------------------------------------------------------------------------
(* Everybody else.                                                         *)

\* What is written after the answer concerns nobody here.
Unanswered == "done" \notin {desk.stage, gaps.stage}

Writes ==
    /\ writes < MaxWrites /\ Unanswered
    /\ writes' = writes + 1
    /\ UNCHANGED <<now, gaps>>

\* A walk that has read something notes (history) that an incident has moved.
UnderWay ==
    /\ desk.stage \in {"counting", "paged"}
    /\ desk.walk # <<>> \/ desk.bucket \notin ToSet(desk.todo)

MovesOne == Writes /\ desk' = IF UnderWay THEN [desk EXCEPT !.moved = @ + 1] ELSE desk

\* An incident opens.
Begin(i, p) ==
    /\ i \notin DOMAIN incidents /\ \A j \in Ids : j < i => j \in DOMAIN incidents
    /\ incidents' = incidents @@ (i :> (p @@ [started |-> now, resolved |-> Never]))
    /\ MovesOne /\ UNCHANGED <<published, runs>>

\* A responder takes it, acknowledges it, or closes it; grouping finds it quiet.
Touch(i) ==
    /\ Open(i)
    /\ \/ \E a \in Assignees : /\ incidents[i].assignee # a
                               /\ incidents' = [incidents EXCEPT ![i].assignee = a]
       \/ ~incidents[i].acked /\ incidents' = [incidents EXCEPT ![i].acked = TRUE]
       \/ incidents[i].status = "active" /\ incidents' = [incidents EXCEPT ![i].status = "quiet"]
       \/ incidents' = [incidents EXCEPT ![i].workflow = "resolved", ![i].resolved = now]
    /\ MovesOne /\ UNCHANGED <<published, runs>>

\* A document is published or withdrawn.
Publish(d) ==
    /\ published' = IF d \in published THEN published \ {d} ELSE published \cup {d}
    /\ Writes /\ UNCHANGED <<incidents, runs, desk>>

\* A runbook is run on an incident to its end and rated.
RunRunbook(i, d, status, rating) ==
    /\ d \in published /\ Len(runs) < MaxRuns
    /\ (rating = "effective") => (status = "completed")
    /\ runs' = Append(runs, [incident |-> i, doc |-> d, status |-> status, rating |-> rating])
    /\ Writes /\ UNCHANGED <<incidents, published, desk>>

Tick ==
    /\ now < MaxNow /\ Unanswered
    /\ now' = now + 1
    /\ UNCHANGED <<incidents, published, runs, desk, gaps, writes>>

-----------------------------------------------------------------------------
DeskInit ==
    /\ now = 0 /\ incidents = <<>> /\ published = {} /\ runs = <<>> /\ writes = 0
    /\ desk = Idle /\ gaps = Idle

DeskNext ==
    \/ Tick
    \/ \E i \in Ids, p \in Profiles : Begin(i, p)
    \/ \E i \in DOMAIN incidents : Touch(i)
    \/ \E d \in DOMAIN Documents : Publish(d)
    \/ \E i \in DOMAIN incidents, d \in DOMAIN Documents,
          status \in {"completed", "failed"}, rating \in {"effective", "ineffective"} :
            RunRunbook(i, d, status, rating)
    \/ \E b \in ToSet(Buckets) : AskQueue(b)
    \/ AskNextPage \/ CountBucket \/ ReadPage
    \/ ReadIncidents \/ ReadDocuments \/ FinishGaps

DeskSpec == DeskInit /\ [][DeskNext]_deskVars

-----------------------------------------------------------------------------
(* Types: rows and executions refer to incidents that exist, a score stays *)
(* within 0 to 100 points, and a row is told exactly one next action       *)
(* (_work_item, _serialize_gap).                                           *)
DeskTypeOK ==
    /\ now \in 0..MaxNow /\ published \subseteq DOMAIN Documents
    /\ \A k \in DOMAIN runs : runs[k].incident \in DOMAIN incidents
    /\ desk.stage # "idle" => \A k \in DOMAIN desk.walk : desk.walk[k].score \in 0..1000
    /\ gaps.stage = "done" => \A g \in gaps.list : g.score \in 0..1000

(* Walking through a bucket page by page while incidents change, a reader  *)
(* meets no more incidents of high severity after one that is not, however *)
(* close the other's deadline is, than incidents have moved under the walk *)
(* (severity_tier and the order of get_response_work_queue): none, if      *)
(* nothing moved.                                                          *)
HighFirst ==
    desk.stage # "idle" =>
        LET late == {k \in DOMAIN desk.walk :
                        /\ desk.walk[k].importance \in High
                        /\ \E j \in 1 .. k - 1 : desk.walk[j].importance \notin High}
        IN Cardinality(late) <= desk.moved

(* A row SQL puts into a bucket is one Python also counts to that bucket   *)
(* (bucket_filters against _work_queue_memberships).                       *)
ItemInItsBucket ==
    desk.stage # "idle" =>
        \A k \in DOMAIN desk.walk : desk.bucket \in desk.walk[k].buckets

(* A walk taken to its end shows an incident again at most once for each   *)
(* that moved under it, and leaves out at most two: one that slid past the *)
(* offset, and one that came between the count of the bucket and its page, *)
(* so that the walk ended before the last (next_offset of                  *)
(* get_response_work_queue).  If nothing moved, it shows each once.        *)
PagesCover ==
    desk.stage = "done" =>
        LET shown == {desk.walk[k].id : k \in DOMAIN desk.walk}
        IN /\ Len(desk.walk) - Cardinality(shown) <= desk.moved
           /\ Cardinality(Matching(desk.bucket, desk.at) \ shown) <= 2 * desk.moved

(* A pattern that a published runbook was proven effective on, in an       *)
(* incident the request read, is listed as a gap only by an answer that    *)
(* says its scan was truncated, or when the runbook was withdrawn or       *)
(* proven in the meantime (get_knowledge_gaps, _serialize_gap).            *)
ProvenNotListed ==
    (gaps.stage = "done" /\ ~gaps.full) =>
        \A g \in gaps.list : \A k \in DOMAIN gaps.mark :
            ~(/\ gaps.mark[k].rating = "effective"
              /\ gaps.mark[k].doc \in gaps.docs
              /\ gaps.mark[k].incident \in DOMAIN gaps.read
              /\ GroupOf(gaps.mark[k].incident) = g.group)
=============================================================================
