--------------------------- MODULE KnowledgeBase ---------------------------
(***************************************************************************)
(* The resolve-to-learn loop of services/kb: a sweep composes the summary  *)
(* and the resolution record of an ended incident into a draft document,   *)
(* an operator reads, amends, publishes or discards the draft, and only    *)
(* published rows reach the prompt of the analysis and the alert cards.    *)
(*                                                                         *)
(* A document is a set of rows, one per distinct text: a text stands for   *)
(* the chunks it is split into.  Every writer of a draft holds the         *)
(* advisory lock of the document until its transaction ends, except the    *)
(* direct ingest, which holds none.  Times are abstracted to the one       *)
(* comparison the code makes of them (row.fresh).                          *)
(***************************************************************************)
EXTENDS Naturals, Sequences, FiniteSets, SequencesExt

CONSTANTS
    Incidents,      \* ended incidents
    Operators,      \* reviewers of drafts
    DraftBatch,     \* _DRAFT_BATCH
    MaxSaves,       \* bound: resolution records saved
    MaxReviews,     \* bound: requests of the reviewers that write
    MaxFaults       \* bound: sweeps that fail

(* What the constants are.                                                 *)
Sane ==
    /\ Incidents # {} /\ IsFiniteSet(Incidents) /\ DraftBatch \in Nat \ {0}
    /\ MaxSaves \in Nat /\ MaxReviews \in Nat /\ MaxFaults \in Nat

VARIABLES
    incident,       \* the columns of Incident the sweep reads
    recent,         \* incidents by updated_at, latest first
    rows,           \* the kb_documents rows of each incident's source_ref
    sweep,          \* the running sweep
    seen,           \* the draft text each operator has on the screen
    saves, reviews, faults

kbVars == <<incident, recent, rows, sweep, seen, saves, reviews, faults>>

Statuses == {"draft", "published"}

(* What a text says: the facts of the incident it was composed from, or    *)
(* the n-th text written by an operator.                                   *)
Composed(n) == [by |-> "sweep", rev |-> n]
Written(n)  == [by |-> "operator", rev |-> n]
Texts == {Composed(n) : n \in 0..MaxSaves} \cup {Written(n) : n \in 1..MaxReviews}
Nothing == [by |-> "nobody", rev |-> 0]

(* fresh: updated_at is not before the incident's                          *)
(* resolution_record_updated_at.  reviewed: the row was published by an    *)
(* operator's approval.  settled: no sweep had already selected the        *)
(* incident when an operator wrote the row.                                *)
KBRow == [text : Texts, status : Statuses, fresh : BOOLEAN,
        reviewed : BOOLEAN, settled : BOOLEAN]

Incident == [summarised : BOOLEAN, facts : 0..MaxSaves, saved : BOOLEAN]

NoRound == [todo |-> <<>>, locks |-> {}, drafts |-> {}]

KBTypeOK ==
    /\ incident \in [Incidents -> Incident]
    /\ recent \in [1..Cardinality(Incidents) -> Incidents]
    /\ \A i \in Incidents : rows[i] \subseteq KBRow
    /\ sweep.locks \subseteq Incidents
    /\ ToSet(sweep.todo) \subseteq Incidents
    /\ \A d \in sweep.drafts : d.incident \in sweep.locks /\ d.text \in Texts
    /\ \A o \in Operators : seen[o].text \in Texts \cup {Nothing}
    /\ saves <= MaxSaves /\ reviews <= MaxReviews /\ faults <= MaxFaults

KBInit ==
    /\ incident = [i \in Incidents |-> [summarised |-> FALSE, facts |-> 0, saved |-> FALSE]]
    /\ recent = SetToSeq(Incidents)
    /\ rows = [i \in Incidents |-> {}]
    /\ sweep = NoRound
    /\ seen = [o \in Operators |-> [incident |-> CHOOSE i \in Incidents : TRUE, text |-> Nothing]]
    /\ saves = 0 /\ reviews = 0 /\ faults = 0

-----------------------------------------------------------------------------
(* ingest_document: upsert by content hash, then prune what the source     *)
(* reference held before.  The conflicting upsert leaves updated_at alone, *)
(* so the row of an unchanged text keeps its age.                          *)
Ingest(i, text, status, settled) ==
    LET same == {r \in rows[i] : r.text = text}
    IN  {[text |-> text, status |-> status, reviewed |-> FALSE, settled |-> settled,
          fresh |-> IF same = {} THEN TRUE ELSE \E r \in same : r.fresh]}

Drafts(i)    == {r \in rows[i] : r.status = "draft"}

(* retrieve, find_kb_snippets_for_alert: only published rows are read.     *)
Served(i) == {r \in rows[i] : r.status = "published"}

(* _compose_kb_content: the summary, with the confirmed facts of the       *)
(* resolution record before the generated ones.                            *)
Compose(i) == Composed(incident[i].facts)

(* acquire_advisory_xact_lock: a writer of a draft waits for the sweep.    *)
LockFree(i) == i \notin sweep.locks

Touch(i) == recent' = <<i>> \o SelectSeq(recent, LAMBDA x : x # i)

-----------------------------------------------------------------------------
(* The incident ends and its summary is stored (services/incidents).       *)
Summarise(i) ==
    /\ ~incident[i].summarised
    /\ incident' = [incident EXCEPT ![i].summarised = TRUE]
    /\ Touch(i)
    /\ UNCHANGED <<rows, sweep, seen, saves, reviews, faults>>

(* apply_resolution_record: a save that changes nothing is not stored; the *)
(* other saves stamp the record, whatever field they change (the actor is  *)
(* a change too, and is not part of the composed text).                    *)
SaveRecord(i, changesText) ==
    /\ saves < MaxSaves
    /\ incident[i].summarised
    /\ changesText \/ incident[i].saved
    /\ incident' = [incident EXCEPT ![i].saved = TRUE,
                                    ![i].facts = IF changesText THEN saves + 1 ELSE @]
    /\ rows' = [rows EXCEPT ![i] = {[r EXCEPT !.fresh = FALSE] : r \in @}]
    /\ saves' = saves + 1
    /\ Touch(i)
    /\ UNCHANGED <<sweep, seen, reviews, faults>>

-----------------------------------------------------------------------------
(* _incidents_pending_sediment: incidents with no document, and those      *)
(* whose unpublished draft is older than the record.                       *)
Pending_Recorded(i) ==
    /\ incident[i].summarised
    /\ incident[i].saved
    /\ Served(i) = {}
    /\ ~\E r \in Drafts(i) : r.fresh

Pending_Refreshed(i) ==
    /\ incident[i].summarised
    /\ rows[i] = {} \/ Served(i) = {}

Pending(i) ==
    /\ incident[i].summarised
    /\ \/ rows[i] = {}
       \/ /\ incident[i].saved
          /\ Served(i) = {}
          /\ ~\E r \in Drafts(i) : r.fresh

(* run_pending_kb_drafts: one transaction selects the ids, the latest      *)
(* updated first, and then drafts them one after the other.                *)
Before(i, j) == \E m, n \in DOMAIN recent : m < n /\ recent[m] = i /\ recent[n] = j

PickDrafts ==
    LET ready == {i \in Incidents : Pending(i)}
        batch == {i \in ready : Cardinality({j \in ready : Before(j, i)}) < DraftBatch}
    IN  /\ sweep = NoRound
        /\ ready # {}
        /\ \E todo \in [1..Cardinality(batch) -> batch] :
              /\ \A m, n \in DOMAIN todo : m < n => Before(todo[m], todo[n])
              /\ sweep' = [NoRound EXCEPT !.todo = todo]
        /\ UNCHANGED <<incident, recent, rows, seen, saves, reviews, faults>>

(* draft_kb_from_incident up to the embedding call: under the lock it      *)
(* reads the incident and looks for a published version again.             *)
ReadIncident_Unchecked ==
    LET i == Head(sweep.todo)
    IN  /\ sweep.todo # <<>>
        /\ sweep' = [todo |-> Tail(sweep.todo), locks |-> sweep.locks \cup {i},
                     drafts |-> sweep.drafts \cup {[incident |-> i, text |-> Compose(i)]}]
        /\ UNCHANGED <<incident, recent, rows, seen, saves, reviews, faults>>

ReadIncident ==
    LET i == Head(sweep.todo)
    IN  /\ sweep.todo # <<>>
        /\ sweep' = [todo |-> Tail(sweep.todo), locks |-> sweep.locks \cup {i},
                     drafts |-> sweep.drafts \cup
                                IF Served(i) = {} THEN {[incident |-> i, text |-> Compose(i)]} ELSE {}]
        /\ UNCHANGED <<incident, recent, rows, seen, saves, reviews, faults>>

(* The texts are embedded, upserted and committed; the end of the          *)
(* transaction gives every lock back.                                      *)
CommitSweep ==
    /\ sweep # NoRound
    /\ sweep.todo = <<>>
    /\ rows' = [i \in Incidents |->
                  IF \E d \in sweep.drafts : d.incident = i
                  THEN Ingest(i, (CHOOSE d \in sweep.drafts : d.incident = i).text, "draft", FALSE)
                  ELSE rows[i]]
    /\ sweep' = NoRound
    /\ UNCHANGED <<incident, recent, seen, saves, reviews, faults>>

(* session_scope rolls back: nothing of the batch is kept.                 *)
AbortSweep ==
    /\ faults < MaxFaults
    /\ sweep # NoRound
    /\ sweep' = NoRound
    /\ faults' = faults + 1
    /\ UNCHANGED <<incident, recent, rows, seen, saves, reviews>>

-----------------------------------------------------------------------------
(* get_kb_draft: the text under review.                                    *)
ReadDraft(o, i) ==
    /\ \E r \in Drafts(i) : seen' = [seen EXCEPT ![o] = [incident |-> i, text |-> r.text]]
    /\ UNCHANGED <<incident, recent, rows, sweep, saves, reviews, faults>>

Review ==
    /\ reviews < MaxReviews
    /\ reviews' = reviews + 1
    /\ UNCHANGED <<incident, recent, sweep, saves, faults>>

(* update_kb_draft: the operator's text replaces an existing draft.        *)
UpdateDraft(o, i) ==
    /\ Review
    /\ LockFree(i)
    /\ Drafts(i) # {}
    /\ rows' = [rows EXCEPT ![i] = Ingest(i, Written(reviews + 1), "draft",
                                          i \notin ToSet(sweep.todo))]
    /\ seen' = [seen EXCEPT ![o] = [incident |-> i, text |-> Written(reviews + 1)]]

(* publish_kb_draft: every draft row of the document, whatever it now says.*)
PublishDraft(o, i) ==
    /\ Review
    /\ seen[o].incident = i /\ seen[o].text # Nothing
    /\ LockFree(i)
    /\ Drafts(i) # {}
    /\ rows' = [rows EXCEPT ![i] = Served(i) \cup
                  {[r EXCEPT !.status = "published", !.reviewed = TRUE, !.fresh = TRUE] : r \in Drafts(i)}]
    /\ UNCHANGED seen

(* discard_kb_draft.                                                       *)
DiscardDraft(o, i) ==
    /\ Review
    /\ LockFree(i)
    /\ Drafts(i) # {}
    /\ rows' = [rows EXCEPT ![i] = Served(i)]
    /\ UNCHANGED seen

(* ingest_kb_document_endpoint: a document published directly under the    *)
(* same source reference, without the document's lock.                     *)
IngestDocument(i) ==
    /\ Review
    /\ rows' = [rows EXCEPT ![i] = Ingest(i, Written(reviews + 1), "published", TRUE)]
    /\ UNCHANGED seen

-----------------------------------------------------------------------------
Sweeping == PickDrafts \/ ReadIncident \/ CommitSweep

KBNext ==
    \/ \E i \in Incidents : Summarise(i) \/ (\E c \in BOOLEAN : SaveRecord(i, c)) \/ IngestDocument(i)
    \/ \E o \in Operators, i \in Incidents :
          ReadDraft(o, i) \/ UpdateDraft(o, i) \/ PublishDraft(o, i) \/ DiscardDraft(o, i)
    \/ Sweeping
    \/ AbortSweep

(* scheduled_kb_sediment runs for as long as a scheduler is up.            *)
KBFairness == WF_kbVars(Sweeping)

KBSpec == KBInit /\ [][KBNext]_kbVars /\ KBFairness

-----------------------------------------------------------------------------
(* Publishing is the approval boundary: text an operator approved leaves   *)
(* the corpus only when an operator ingests another document in its place; *)
(* no sweep replaces it, however long ago it selected the incident and     *)
(* whatever the record said by then.                                       *)
PublishStep ==
    \A i \in Incidents : \A r \in Served(i) :
          r.reviewed /\ (\A t \in rows'[i] : t.text # r.text) => reviews' = reviews + 1

ApprovalBoundary == [][PublishStep]_kbVars

(* A draft an operator has amended is not selected again before the record *)
(* changes, so no sweep that starts later replaces it.  It says nothing of *)
(* an amendment a running sweep overtakes (~settled): AmendedKept below.   *)
AmendStep ==
    \A i \in Incidents : \A r \in Drafts(i) :
          r.settled /\ r.fresh /\ (\A t \in rows'[i] : t.text # r.text) => reviews' = reviews + 1

AmendmentSticks == [][AmendStep]_kbVars

(* Every ended incident comes to have a document, also after a discarded   *)
(* draft and a failed sweep.  Bound: fewer saves than a batch has places   *)
(* (MaxSaves < DraftBatch).  A draft re-saved without a change of its text *)
(* is never fresh again and takes a place of every later batch, and as     *)
(* many of them as _DRAFT_BATCH would starve the others.                   *)
Sedimented ==
    \A i \in Incidents : incident[i].summarised ~> rows[i] # {}

(* What the module comment promises: no text enters the corpus that the    *)
(* operator who published it had not read.                                 *)
(* The code does not keep this: README, section 6.                         *)
ReviewedBeforePublished ==
    [][\A o \in Operators, i \in Incidents :
          PublishDraft(o, i) => \A r \in Drafts(i) : r.text = seen[o].text]_kbVars

(* A draft an operator has amended stays what the operator wrote, also     *)
(* where a sweep had selected the incident before: under the document's    *)
(* lock draft_kb_from_incident looks again only for a published text.      *)
(* The code does not keep this: README, section 6.                         *)
AmendedKept ==
    [][\A i \in Incidents : \A r \in Drafts(i) :
          r.text.by = "operator" /\ r.fresh /\ (\A t \in rows'[i] : t.text # r.text)
             => reviews' = reviews + 1]_kbVars

(* A draft that counts as fresh says what the record says.                 *)
(* The code does not keep this: README, section 6.                         *)
FreshIsCurrent ==
    \A i \in Incidents : \A r \in Drafts(i) :
       r.fresh /\ r.text.by = "sweep" /\ incident[i].saved => r.text = Compose(i)
=============================================================================
