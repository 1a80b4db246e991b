----------------------------- MODULE Sweeps_proofs -----------------------------
(***************************************************************************)
(* What the background work spares and what it owes, for any number of     *)
(* incidents, windows, events, operators and overlapping runs, any policy  *)
(* and any number of faults.  The three components share no state, and     *)
(* their proofs none either.                                               *)
(***************************************************************************)
EXTENDS Sweeps, FiniteSetTheorems, TLAPS

-----------------------------------------------------------------------------
(* The drafts *)

\* The sweep writes where no approval and no amendment from before its selection stands: not where it
\* has read that nothing is published, and not where no draft was fresh.
Open(i) == \A r \in Drafts(i) : ~(r.settled /\ r.fresh)
Typed ==
    /\ incident \in [Incidents -> Incident]
    /\ rows \in [Incidents -> SUBSET KBRow]
    /\ saves \in 0..MaxSaves /\ reviews \in 0..MaxReviews
Queue == sweep.todo \in Seq(Incidents) /\ \A i \in ToSet(sweep.todo) : Open(i)
Drafted ==
    \A d \in sweep.drafts :
        /\ d.incident \in sweep.locks /\ d.incident \in Incidents /\ d.text \in Texts
        /\ Open(d.incident) /\ \A r \in Served(d.incident) : ~r.reviewed
KInv == Typed /\ Queue /\ Drafted

LEMMA NoRoundHolds ==
    ASSUME sweep' = NoRound
    PROVE  Queue' /\ Drafted'
BY DEF NoRound, Queue, Drafted, ToSet

LEMMA TextsAre ==
    ASSUME Sane
    PROVE  /\ \A n \in 0..MaxSaves : Composed(n) \in Texts
           /\ \A n \in 1..MaxReviews : Written(n) \in Texts
BY DEF Texts, Sane

\* What an ingest leaves of a document.
LEMMA IngestIs ==
    ASSUME Typed, NEW i \in Incidents, NEW text \in Texts, NEW status \in Statuses, NEW settled \in BOOLEAN
    PROVE  /\ Ingest(i, text, status, settled) \in SUBSET KBRow
           /\ \A r \in Ingest(i, text, status, settled) :
                 r.text = text /\ r.status = status /\ r.settled = settled /\ ~r.reviewed
<1> DEFINE same == {r \in rows[i] : r.text = text}
           fresh == IF same = {} THEN TRUE ELSE \E r \in same : r.fresh
           new == [text |-> text, status |-> status, reviewed |-> FALSE, settled |-> settled, fresh |-> fresh]
<1>1. fresh \in BOOLEAN
  OBVIOUS
<1>2. Ingest(i, text, status, settled) = {new}
  BY DEF Ingest
<1> HIDE DEF fresh
<1>3. new \in KBRow /\ new.text = text /\ new.status = status /\ new.settled = settled /\ new.reviewed = FALSE
  BY <1>1 DEF KBRow
<1> QED BY <1>2, <1>3

\* A change of the rows of one incident that no sweep has in hand, or that leaves nothing
\* for it to spoil.
LEMMA RowsSet ==
    ASSUME KInv, UNCHANGED sweep, NEW i \in Incidents, NEW S \in SUBSET KBRow,
           rows' = [rows EXCEPT ![i] = S],
           i \in ToSet(sweep.todo) => \A r \in S : r.status = "draft" => ~(r.settled /\ r.fresh),
           i \in sweep.locks => /\ \A r \in S : r.status = "draft" => ~(r.settled /\ r.fresh)
                                /\ \A r \in S : r.status = "published" => ~r.reviewed
    PROVE  rows' \in [Incidents -> SUBSET KBRow] /\ Queue' /\ Drafted'
<1>1. rows \in [Incidents -> SUBSET KBRow]
  BY DEF KInv, Typed
<1>2. rows' \in [Incidents -> SUBSET KBRow] /\ rows'[i] = S /\ \A j \in Incidents : j # i => rows'[j] = rows[j]
  BY <1>1
<1>3. ASSUME NEW j \in Incidents, j # i PROVE Open(j)' = Open(j) /\ Served(j)' = Served(j)
  BY <1>2, <1>3 DEF Open, Drafts, Served
<1>4. Queue'
  <2>1. \A j \in ToSet(sweep.todo) : j \in Incidents /\ Open(j)
    BY DEF KInv, Queue, ToSet
  <2>2. ASSUME NEW j \in ToSet(sweep.todo) PROVE Open(j)'
    <3>1. CASE j = i
      BY <1>2, <2>2, <3>1 DEF Open, Drafts
    <3>2. CASE j # i
      BY <1>3, <2>1, <2>2, <3>2
    <3> QED BY <3>1, <3>2
  <2> QED BY <2>2 DEF KInv, Queue
<1>5. Drafted'
  <2> SUFFICES ASSUME NEW d \in sweep.drafts
               PROVE  /\ d.incident \in sweep.locks /\ d.incident \in Incidents /\ d.text \in Texts
                      /\ Open(d.incident)' /\ \A r \in Served(d.incident)' : ~r.reviewed
    BY DEF Drafted
  <2>1. /\ d.incident \in sweep.locks /\ d.incident \in Incidents /\ d.text \in Texts
        /\ Open(d.incident) /\ \A r \in Served(d.incident) : ~r.reviewed
    BY DEF KInv, Drafted
  <2>2. CASE d.incident = i
    BY <1>2, <2>1, <2>2 DEF Open, Drafts, Served
  <2>3. CASE d.incident # i
    BY <1>3, <2>1, <2>3
  <2> QED BY <2>1, <2>2, <2>3
<1> QED BY <1>2, <1>4, <1>5

\* What leaves the rows and the sweep alone.
LEMMA SweepSame ==
    ASSUME KInv, UNCHANGED <<rows, sweep>>
    PROVE  Queue' /\ Drafted' /\ rows' \in [Incidents -> SUBSET KBRow]
BY DEF KInv, Typed, Queue, Drafted, Open, Drafts, Served

-----------------------------------------------------------------------------
(* The initial states, and the steps action by action *)

LEMMA KnowStart == ASSUME Sane PROVE KBInit => KInv
<1> SUFFICES ASSUME KBInit PROVE KInv
  OBVIOUS
<1>1. Typed
  BY DEF KBInit, Typed, Incident, Sane
<1>2. Queue /\ Drafted
  BY DEF KBInit, NoRound, Queue, Drafted, ToSet
<1> QED BY <1>1, <1>2 DEF KInv

LEMMA SaveKeeps ==
    ASSUME Sane, KInv, NEW i \in Incidents, NEW c \in BOOLEAN, SaveRecord(i, c)
    PROVE  KInv' /\ \A r \in rows[i] : \E t \in rows'[i] : t.text = r.text
<1> DEFINE S == {[r EXCEPT !.fresh = FALSE] : r \in rows[i]}
           facts == IF c THEN saves + 1 ELSE incident[i].facts
           x == [incident[i] EXCEPT !.saved = TRUE, !.facts = facts]
<1>0. incident \in [Incidents -> Incident] /\ rows[i] \in SUBSET KBRow /\ incident[i] \in Incident
      /\ rows \in [Incidents -> SUBSET KBRow]
  BY DEF KInv, Typed
<1>1. saves' = saves + 1 /\ saves' \in 0..MaxSaves /\ UNCHANGED <<sweep, seen, reviews, faults>>
  BY DEF SaveRecord, KInv, Typed, Sane
<1>2. facts \in 0..MaxSaves
  BY <1>0, <1>1 DEF Incident
<1>3. incident' = [incident EXCEPT ![i] = x]
  BY <1>0 DEF SaveRecord
<1> HIDE DEF facts
<1>4. x \in Incident
  BY <1>0, <1>2, Zenon DEF Incident
<1> HIDE DEF x
<1>5. incident' \in [Incidents -> Incident]
  BY <1>0, <1>3, <1>4
<1>6. ASSUME NEW r \in rows[i]
      PROVE  /\ [r EXCEPT !.fresh = FALSE] \in KBRow /\ [r EXCEPT !.fresh = FALSE].text = r.text
             /\ [r EXCEPT !.fresh = FALSE].fresh = FALSE /\ [r EXCEPT !.fresh = FALSE].status = r.status
             /\ [r EXCEPT !.fresh = FALSE].reviewed = r.reviewed
  <2>1. r \in KBRow
    BY <1>0
  <2> QED BY <2>1, Zenon DEF KBRow
<1>7. S \in SUBSET KBRow /\ \A s \in S : s.fresh = FALSE
  BY <1>6
<1>8. rows' = [rows EXCEPT ![i] = S]
  BY <1>0 DEF SaveRecord
<1>9. \A r \in rows[i] : \E t \in S : t.text = r.text
  BY <1>6
<1>10. ASSUME i \in sweep.locks, \E d \in sweep.drafts : d.incident = i
       PROVE  \A s \in S : s.status = "published" => ~s.reviewed
  <2>1. \A r \in rows[i] : r.status = "published" => ~r.reviewed
    BY <1>10 DEF KInv, Drafted, Served
  <2>2. \A s \in S : \E r \in rows[i] : s.status = r.status /\ s.reviewed = r.reviewed
    BY <1>6
  <2> QED BY <2>1, <2>2
<1> HIDE DEF S
<1>11. Queue' /\ Drafted' /\ rows' \in [Incidents -> SUBSET KBRow] /\ rows'[i] = S
  <2>1. rows' \in [Incidents -> SUBSET KBRow] /\ rows'[i] = S /\ \A j \in Incidents : j # i => rows'[j] = rows[j]
    BY <1>0, <1>7, <1>8
  <2>2. \A j \in Incidents : j # i => (Open(j)' = Open(j) /\ Served(j)' = Served(j))
    BY <2>1 DEF Open, Drafts, Served
  <2>3. Open(i)'
    BY <1>7, <2>1 DEF Open, Drafts
  <2>4. Queue'
    <3>1. \A j \in ToSet(sweep.todo) : j \in Incidents /\ Open(j)
      BY DEF KInv, Queue, ToSet
    <3> QED BY <1>1, <2>2, <2>3, <3>1 DEF KInv, Queue
  <2>5. Drafted'
    <3> SUFFICES ASSUME NEW d \in sweep.drafts
                 PROVE  /\ d.incident \in sweep.locks /\ d.incident \in Incidents /\ d.text \in Texts
                        /\ Open(d.incident)' /\ \A r \in Served(d.incident)' : ~r.reviewed
      BY <1>1 DEF Drafted
    <3>1. /\ d.incident \in sweep.locks /\ d.incident \in Incidents /\ d.text \in Texts
          /\ Open(d.incident) /\ \A r \in Served(d.incident) : ~r.reviewed
      BY DEF KInv, Drafted
    <3>2. CASE d.incident = i
      BY <1>10, <2>1, <2>3, <3>1, <3>2 DEF Served
    <3>3. CASE d.incident # i
      BY <2>2, <3>1, <3>3
    <3> QED BY <3>1, <3>2, <3>3
  <2> QED BY <2>1, <2>4, <2>5
<1> QED BY <1>1, <1>5, <1>9, <1>11 DEF KInv, Typed

LEMMA SummariseKeeps == ASSUME Sane, KInv, NEW i \in Incidents, Summarise(i) PROVE KInv'
<1> DEFINE x == [incident[i] EXCEPT !.summarised = TRUE]
<1>0. incident \in [Incidents -> Incident] /\ incident[i] \in Incident
  BY DEF KInv, Typed
<1>1. incident' = [incident EXCEPT ![i] = x] /\ UNCHANGED <<rows, sweep, seen, saves, reviews, faults>>
  BY <1>0 DEF Summarise
<1>2. x \in Incident
  BY <1>0, Zenon DEF Incident
<1> HIDE DEF x
<1>3. incident' \in [Incidents -> Incident]
  BY <1>0, <1>1, <1>2
<1> QED BY <1>1, <1>3, SweepSame DEF KInv, Typed

LEMMA PickDraftsKeeps == ASSUME Sane, KInv, PickDrafts PROVE KInv'
<1> DEFINE ready == {i \in Incidents : Pending(i)}
           batch == {i \in ready : Cardinality({j \in ready : Before(j, i)}) < DraftBatch}
<1>1. PICK todo \in [1..Cardinality(batch) -> batch] : sweep' = [NoRound EXCEPT !.todo = todo]
  BY DEF PickDrafts
<1>2. UNCHANGED <<incident, recent, rows, seen, saves, reviews, faults>>
  BY DEF PickDrafts
<1>3. \A i \in batch : i \in Incidents /\ Open(i)
  <2> SUFFICES ASSUME NEW i \in batch PROVE i \in Incidents /\ Open(i)
    OBVIOUS
  <2>1. i \in Incidents /\ Pending(i)
    OBVIOUS
  <2>2. rows[i] = {} \/ ~\E r \in Drafts(i) : r.fresh
    BY <2>1 DEF Pending
  <2> QED BY <2>1, <2>2 DEF Open, Drafts
<1>4. Cardinality(batch) \in Nat
  <2>1. batch \in SUBSET Incidents
    OBVIOUS
  <2>2. IsFiniteSet(batch)
    BY <2>1, FS_Subset DEF Sane
  <2> QED BY <2>2, FS_CardinalityType
<1> HIDE DEF batch
<1>5. todo \in Seq(Incidents) /\ \A i \in ToSet(todo) : i \in batch
  BY <1>3, <1>4 DEF ToSet
<1>6. sweep'.todo = todo /\ sweep'.drafts = {}
  BY <1>1 DEF NoRound
<1>7. \A i \in Incidents : Open(i)' = Open(i)
  BY <1>2 DEF Open, Drafts
<1>8. Queue'
  BY <1>3, <1>5, <1>6, <1>7 DEF Queue
<1>9. Drafted'
  BY <1>6 DEF Drafted
<1> QED BY <1>2, <1>8, <1>9 DEF KInv, Typed

LEMMA ReadKeeps == ASSUME Sane, KInv, ReadIncident PROVE KInv'
<1> DEFINE i == Head(sweep.todo)
           more == IF Served(i) = {} THEN {[incident |-> i, text |-> Compose(i)]} ELSE {}
<1>1. sweep.todo # <<>> /\ sweep.todo \in Seq(Incidents)
  BY DEF ReadIncident, KInv, Queue
<1>2. i \in Incidents /\ i \in ToSet(sweep.todo) /\ Tail(sweep.todo) \in Seq(Incidents)
      /\ ToSet(Tail(sweep.todo)) \subseteq ToSet(sweep.todo)
  BY <1>1 DEF ToSet
<1>3. UNCHANGED <<incident, recent, rows, seen, saves, reviews, faults>>
      /\ sweep' = [todo |-> Tail(sweep.todo), locks |-> sweep.locks \cup {i}, drafts |-> sweep.drafts \cup more]
  BY DEF ReadIncident
<1>4. Open(i)
  BY <1>2 DEF KInv, Queue
<1>5. Compose(i) \in Texts
  <2>1. incident[i].facts \in 0..MaxSaves
    BY <1>2 DEF KInv, Typed, Incident
  <2> QED BY <2>1, TextsAre DEF Compose
<1>6. \A d \in more : d.incident = i /\ d.text = Compose(i) /\ Served(i) = {}
  OBVIOUS
<1> HIDE DEF i, more
<1>7. sweep'.todo = Tail(sweep.todo) /\ sweep'.locks = sweep.locks \cup {i} /\ sweep'.drafts = sweep.drafts \cup more
  BY <1>3
<1>8. \A j : Open(j)' = Open(j) /\ Served(j)' = Served(j)
  BY <1>3 DEF Open, Drafts, Served
<1>9. Queue'
  BY <1>2, <1>7, <1>8 DEF KInv, Queue
<1>10. Drafted'
  <2> SUFFICES ASSUME NEW d \in sweep.drafts \cup more
               PROVE  /\ d.incident \in sweep.locks \cup {i} /\ d.incident \in Incidents /\ d.text \in Texts
                      /\ Open(d.incident) /\ \A r \in Served(d.incident) : ~r.reviewed
    BY <1>7, <1>8 DEF Drafted
  <2>1. CASE d \in sweep.drafts
    BY <2>1 DEF KInv, Drafted
  <2>2. CASE d \in more
    BY <1>2, <1>4, <1>5, <1>6, <2>2
  <2> QED BY <2>1, <2>2
<1> QED BY <1>3, <1>9, <1>10 DEF KInv, Typed

\* A committed sweep has replaced nothing approved, nor a draft amended before its selection.
LEMMA CommitSpares ==
    ASSUME Sane, KInv, CommitSweep, NEW i \in Incidents
    PROVE  /\ rows'[i] \in SUBSET KBRow
           /\ rows'[i] = rows[i] \/ (Open(i) /\ \A r \in Served(i) : ~r.reviewed)
<1>1. rows'[i] = IF \E d \in sweep.drafts : d.incident = i
                 THEN Ingest(i, (CHOOSE d \in sweep.drafts : d.incident = i).text, "draft", FALSE)
                 ELSE rows[i]
  BY DEF CommitSweep
<1>2. CASE \E d \in sweep.drafts : d.incident = i
  <2> DEFINE d == CHOOSE d \in sweep.drafts : d.incident = i
  <2>1. d \in sweep.drafts /\ d.incident = i
    BY <1>2
  <2> HIDE DEF d
  <2>2. d.text \in Texts /\ Open(i) /\ \A r \in Served(i) : ~r.reviewed
    BY <2>1 DEF KInv, Drafted
  <2>3. Ingest(i, d.text, "draft", FALSE) \in SUBSET KBRow
    BY <2>2, IngestIs DEF KInv, Statuses
  <2>4. rows'[i] = Ingest(i, d.text, "draft", FALSE)
    BY <1>1, <1>2 DEF d
  <2> QED BY <2>2, <2>3, <2>4
<1>3. CASE ~\E d \in sweep.drafts : d.incident = i
  BY <1>1, <1>3 DEF KInv, Typed
<1> QED BY <1>2, <1>3

LEMMA CommitSweepKeeps == ASSUME Sane, KInv, CommitSweep PROVE KInv'
<1>1. sweep' = NoRound /\ UNCHANGED <<incident, recent, seen, saves, reviews, faults>>
  BY DEF CommitSweep
<1>2. \A i \in Incidents : rows'[i] \in SUBSET KBRow
  BY CommitSpares
<1>3. rows' = [i \in Incidents |-> rows'[i]]
  BY DEF CommitSweep
<1>4. rows' \in [Incidents -> SUBSET KBRow]
  BY <1>2, <1>3
<1> QED BY <1>1, <1>4, NoRoundHolds DEF KInv, Typed

\* The reviewers' requests.
LEMMA ReviewKeeps ==
    ASSUME Sane, KInv, NEW o, NEW i \in Incidents,
           UpdateDraft(o, i) \/ PublishDraft(o, i) \/ DiscardDraft(o, i) \/ IngestDocument(i)
    PROVE  KInv' /\ reviews' = reviews + 1
<1>0. rows \in [Incidents -> SUBSET KBRow] /\ rows[i] \in SUBSET KBRow
  BY DEF KInv, Typed
<1>1. /\ reviews' = reviews + 1 /\ reviews' \in 0..MaxReviews /\ reviews + 1 \in 1..MaxReviews
      /\ UNCHANGED <<incident, recent, sweep, saves, faults>>
  <2>1. /\ reviews' = reviews + 1 /\ reviews < MaxReviews
        /\ UNCHANGED <<incident, recent, sweep, saves, faults>>
    BY Zenon DEF UpdateDraft, PublishDraft, DiscardDraft, IngestDocument, Review
  <2>2. reviews \in 0..MaxReviews /\ MaxReviews \in Nat
    BY DEF KInv, Typed, Sane
  <2> QED BY <2>1, <2>2
<1>2. Written(reviews + 1) \in Texts
  BY <1>1, TextsAre
<1>3. rows' \in [Incidents -> SUBSET KBRow] /\ Queue' /\ Drafted'
  <2>1. CASE UpdateDraft(o, i)
    <3> DEFINE b == i \notin ToSet(sweep.todo)
               S == Ingest(i, Written(reviews + 1), "draft", b)
    <3>1. b \in BOOLEAN /\ i \notin sweep.locks /\ rows' = [rows EXCEPT ![i] = S]
      BY <2>1 DEF UpdateDraft, LockFree
    <3>b. i \in ToSet(sweep.todo) => b = FALSE
      OBVIOUS
    <3> HIDE DEF b
    <3>2. S \in SUBSET KBRow /\ \A r \in S : r.settled = b
      BY <1>2, <3>1, IngestIs DEF KInv, Statuses
    <3> HIDE DEF S
    <3>3. i \in ToSet(sweep.todo) => \A r \in S : r.settled = FALSE
      BY <3>2, <3>b
    <3> QED BY <1>1, <3>1, <3>2, <3>3, RowsSet
  <2>2. CASE PublishDraft(o, i)
    <3> DEFINE P == {[r EXCEPT !.status = "published", !.reviewed = TRUE, !.fresh = TRUE] : r \in Drafts(i)}
               S == Served(i) \cup P
    <3>1. i \notin sweep.locks /\ rows' = [rows EXCEPT ![i] = S]
      BY <2>2 DEF PublishDraft, LockFree
    <3>2. ASSUME NEW r \in Drafts(i)
          PROVE  /\ [r EXCEPT !.status = "published", !.reviewed = TRUE, !.fresh = TRUE] \in KBRow
                 /\ [r EXCEPT !.status = "published", !.reviewed = TRUE, !.fresh = TRUE].status = "published"
      <4>1. r \in KBRow /\ "published" \in Statuses
        BY <1>0 DEF Drafts, Statuses
      <4> QED BY <4>1, Zenon DEF KBRow
    <3>3. P \in SUBSET KBRow /\ \A r \in P : r.status = "published"
      BY <3>2
    <3> HIDE DEF P
    <3>4. S \in SUBSET KBRow /\ \A r \in S : r.status = "published"
      BY <1>0, <3>3 DEF Served
    <3> HIDE DEF S
    <3> QED BY <1>1, <3>1, <3>4, RowsSet
  <2>3. CASE DiscardDraft(o, i)
    <3>1. i \notin sweep.locks /\ rows' = [rows EXCEPT ![i] = Served(i)]
      BY <2>3 DEF DiscardDraft, LockFree
    <3>2. Served(i) \in SUBSET KBRow /\ \A r \in Served(i) : r.status = "published"
      BY <1>0 DEF Served
    <3> QED BY <1>1, <3>1, <3>2, RowsSet
  <2>4. CASE IngestDocument(i)
    <3> DEFINE S == Ingest(i, Written(reviews + 1), "published", TRUE)
    <3>1. rows' = [rows EXCEPT ![i] = S]
      BY <2>4 DEF IngestDocument
    <3>2. S \in SUBSET KBRow /\ \A r \in S : r.status = "published" /\ ~r.reviewed
      <4>1. Typed /\ "published" \in Statuses /\ TRUE \in BOOLEAN
        BY DEF KInv, Statuses
      <4> QED BY <1>2, <4>1, IngestIs, Zenon
    <3> HIDE DEF S
    <3> QED BY <1>1, <3>1, <3>2, RowsSet
  <2> QED BY <2>1, <2>2, <2>3, <2>4
<1> QED BY <1>1, <1>3 DEF KInv, Typed

LEMMA RestKeeps ==
    ASSUME Sane, KInv, \/ AbortSweep
                       \/ \E o \in Operators, i \in Incidents : ReadDraft(o, i)
                       \/ UNCHANGED kbVars
    PROVE  KInv' /\ rows' = rows
<1>1. CASE AbortSweep
  <2>1. sweep' = NoRound /\ UNCHANGED <<incident, recent, rows, seen, saves, reviews>>
    BY <1>1 DEF AbortSweep
  <2> QED BY <2>1, NoRoundHolds DEF KInv, Typed
<1>2. CASE (\E o \in Operators, i \in Incidents : ReadDraft(o, i)) \/ UNCHANGED kbVars
  <2>1. UNCHANGED <<incident, rows, sweep, saves, reviews>>
    BY <1>2 DEF ReadDraft, kbVars
  <2> QED BY <2>1, SweepSame DEF KInv, Typed
<1> QED BY <1>1, <1>2

\* Every step keeps the invariant, and spares what it may not replace.
LEMMA KBStep == ASSUME Sane, KInv, [KBNext]_kbVars PROVE KInv' /\ PublishStep /\ AmendStep
<1>0. ASSUME \A i \in Incidents : \A r \in rows[i] : \E t \in rows'[i] : t.text = r.text
      PROVE  PublishStep /\ AmendStep
  BY <1>0 DEF PublishStep, AmendStep, Served, Drafts
<1>r. ASSUME rows' = rows PROVE PublishStep /\ AmendStep
  BY <1>0, <1>r
<1>1. ASSUME NEW i \in Incidents, Summarise(i) PROVE KInv' /\ PublishStep /\ AmendStep
  <2>1. rows' = rows
    BY <1>1 DEF Summarise
  <2> QED BY <1>1, <1>r, <2>1, SummariseKeeps
<1>2. ASSUME NEW i \in Incidents, NEW c \in BOOLEAN, SaveRecord(i, c) PROVE KInv' /\ PublishStep /\ AmendStep
  <2>1. KInv' /\ \A r \in rows[i] : \E t \in rows'[i] : t.text = r.text
    BY <1>2, SaveKeeps
  <2>2. \A j \in Incidents : j # i => rows'[j] = rows[j]
    BY <1>2 DEF SaveRecord, KInv, Typed
  <2> QED BY <1>0, <2>1, <2>2
<1>3. ASSUME NEW o \in Operators, NEW i \in Incidents,
             UpdateDraft(o, i) \/ PublishDraft(o, i) \/ DiscardDraft(o, i)
      PROVE  KInv' /\ PublishStep /\ AmendStep
  BY <1>3, ReviewKeeps DEF PublishStep, AmendStep
<1>4. CASE PickDrafts
  <2>1. rows' = rows
    BY <1>4 DEF PickDrafts
  <2> QED BY <1>4, <1>r, <2>1, PickDraftsKeeps
<1>5. CASE ReadIncident
  <2>1. rows' = rows
    BY <1>5 DEF ReadIncident
  <2> QED BY <1>5, <1>r, <2>1, ReadKeeps
<1>6. CASE CommitSweep
  <2>1. \A i \in Incidents : rows'[i] = rows[i] \/ (Open(i) /\ \A r \in Served(i) : ~r.reviewed)
    BY <1>6, CommitSpares
  <2>2. PublishStep
    BY <2>1 DEF PublishStep, Served
  <2>3. AmendStep
    BY <2>1 DEF AmendStep, Drafts, Open
  <2> QED BY <1>6, <2>2, <2>3, CommitSweepKeeps
<1>7. CASE AbortSweep \/ (\E o \in Operators, i \in Incidents : ReadDraft(o, i)) \/ UNCHANGED kbVars
  BY <1>7, <1>r, RestKeeps
<1>8. ASSUME NEW i \in Incidents, IngestDocument(i) PROVE KInv' /\ PublishStep /\ AmendStep
  <2>1. KInv' /\ reviews' = reviews + 1
    BY <1>8, ReviewKeeps
  <2> QED BY <2>1 DEF PublishStep, AmendStep
<1> QED BY <1>1, <1>2, <1>3, <1>4, <1>5, <1>6, <1>7, <1>8 DEF KBNext, Sweeping

\* Publishing is the approval boundary: no sweep replaces text an operator approved,
\* nor a draft an operator amended before the sweep selected the incident and whose
\* record has not changed since, however the sweep, the saves of the record and the
\* requests of the reviewers cross (_incidents_pending_sediment, draft_kb_from_incident,
\* publish_kb_draft). A sweep that had selected the incident overwrites the amendment:
\* AmendedKept, which the code does not keep.
THEOREM ApprovedTextStays == ASSUME Sane PROVE KBSpec => ApprovalBoundary /\ AmendmentSticks
<1>1. KBInit => KInv
  BY KnowStart
<1>2. KInv /\ [KBNext]_kbVars => KInv' /\ PublishStep /\ AmendStep
  BY KBStep
<1> QED BY <1>1, <1>2, PTL DEF KBSpec, ApprovalBoundary, AmendmentSticks

-----------------------------------------------------------------------------
(* The silences of the maintenance windows *)

\* An occurrence the operator lifted, and no sweep held, is marked as lifted and is
\* nothing a sweep under way means to write.
Spared ==
    \A o \in lifts \ lateLifts :
        /\ muted[o] = "lifted"
        /\ \A s \in Silences!Sweepers : o \notin windowSweep[s].live \cup windowSweep[s].insert \cup windowSweep[s].retire

WindowsInv == Silences!TypeOK /\ Spared

LEMMA FreshSweep ==
    ASSUME window \in [Windows -> Silences!Window]
    PROVE  /\ Silences!NoSweep \in Silences!Sweep /\ Silences!NoSweep.pc = "idle" /\ Silences!NoSweep.view = window
           /\ Silences!NoSweep.live = {} /\ Silences!NoSweep.insert = {} /\ Silences!NoSweep.retire = {} /\ Silences!NoSweep.deleted = {}
BY Zenon DEF Silences!NoSweep, Silences!Sweep

LEMMA ActiveOnes == ASSUME NEW v, NEW t PROVE Silences!ActiveKeys(v, t) \subseteq Silences!Occurrences
BY DEF Silences!ActiveKeys

\* A sweep that holds nothing new spares what was spared.
LEMMA SweepSet ==
    ASSUME WindowsInv, UNCHANGED <<muted, lifts, lateLifts>>, NEW s \in Silences!Sweepers, NEW u \in Silences!Sweep,
           windowSweep' = [windowSweep EXCEPT ![s] = u],
           \A o \in lifts \ lateLifts : o \notin u.live \cup u.insert \cup u.retire
    PROVE  Spared' /\ windowSweep' \in [Silences!Sweepers -> Silences!Sweep]
<1>1. windowSweep \in [Silences!Sweepers -> Silences!Sweep]
  BY DEF WindowsInv, Silences!TypeOK
<1>2. windowSweep'[s] = u /\ \A r \in Silences!Sweepers : r # s => windowSweep'[r] = windowSweep[r]
  BY <1>1
<1>3. windowSweep' \in [Silences!Sweepers -> Silences!Sweep]
  BY <1>1
<1>4. ASSUME NEW o \in lifts \ lateLifts, NEW r \in Silences!Sweepers
      PROVE  o \notin windowSweep'[r].live \cup windowSweep'[r].insert \cup windowSweep'[r].retire
  BY <1>2, <1>4 DEF WindowsInv, Spared
<1>5. \A o \in lifts \ lateLifts : muted[o] = "lifted"
  BY DEF WindowsInv, Spared
<1> QED BY <1>3, <1>4, <1>5 DEF Spared

-----------------------------------------------------------------------------
(* The initial states, and the steps action by action *)

LEMMA WindowsStart == ASSUME Silences!Sane PROVE Silences!Init => WindowsInv
<1> SUFFICES ASSUME Silences!Init PROVE WindowsInv
  OBVIOUS
<1>1. window \in [Windows -> Silences!Window]
  BY DEF Silences!Init
<1>2. windowSweep \in [Silences!Sweepers -> Silences!Sweep]
  BY <1>1, FreshSweep DEF Silences!Init
<1>3. now \in 0 .. MaxNow /\ edits \in 0 .. MaxEdits /\ touches \in 0 .. MaxTouches
  BY DEF Silences!Init, Silences!Sane
<1>4. muted \in [Silences!Occurrences -> {"none", "live", "lifted"}] /\ lifts = {} /\ lateLifts = {}
  BY DEF Silences!Init
<1>5. Silences!TypeOK
  BY <1>1, <1>2, <1>3, <1>4 DEF Silences!TypeOK
<1> QED BY <1>4, <1>5 DEF WindowsInv, Spared

LEMMA ScheduledSweepKeeps == ASSUME Silences!Sane, WindowsInv, Silences!ScheduledSweep PROVE WindowsInv'
<1> DEFINE u == [Silences!NoSweep EXCEPT !.pc = "live"]
<1>0. window \in [Windows -> Silences!Window] /\ "scheduler" \in Silences!Sweepers
  BY DEF WindowsInv, Silences!TypeOK, Silences!Sweepers
<1>1. u \in Silences!Sweep /\ u.live = {} /\ u.insert = {} /\ u.retire = {}
  BY <1>0, FreshSweep, Zenon DEF Silences!Sweep
<1>2. windowSweep' = [windowSweep EXCEPT !["scheduler"] = u] /\ UNCHANGED <<window, muted, now, lifts, lateLifts, edits, touches>>
  BY DEF Silences!ScheduledSweep
<1> HIDE DEF u
<1>3. Spared' /\ windowSweep' \in [Silences!Sweepers -> Silences!Sweep]
  BY <1>0, <1>1, <1>2, SweepSet
<1> QED BY <1>2, <1>3 DEF WindowsInv, Silences!TypeOK

LEMMA EditWindowKeeps == ASSUME Silences!Sane, WindowsInv, Silences!EditWindow PROVE WindowsInv'
<1>0. window \in [Windows -> Silences!Window] /\ "request" \in Silences!Sweepers
  BY DEF WindowsInv, Silences!TypeOK, Silences!Sweepers
<1>1. PICK w \in Windows, v \in Silences!Window :
         windowSweep' = [windowSweep EXCEPT !["request"] = [Silences!NoSweep EXCEPT !.pc = "live", !.view[w] = v]]
  BY DEF Silences!EditWindow
<1> DEFINE u == [Silences!NoSweep EXCEPT !.pc = "live", !.view[w] = v]
<1>2. [window EXCEPT ![w] = v] \in [Windows -> Silences!Window]
  BY <1>0
<1>3. u \in Silences!Sweep /\ u.live = {} /\ u.insert = {} /\ u.retire = {}
  BY <1>0, <1>2, Zenon DEF Silences!Sweep, Silences!NoSweep
<1>4. windowSweep' = [windowSweep EXCEPT !["request"] = u] /\ UNCHANGED <<window, muted, now, lifts, lateLifts, touches>>
  BY <1>1 DEF Silences!EditWindow
<1> HIDE DEF u
<1>5. Spared' /\ windowSweep' \in [Silences!Sweepers -> Silences!Sweep]
  BY <1>0, <1>3, <1>4, SweepSet
<1>6. edits' \in 0 .. MaxEdits
  BY DEF Silences!EditWindow, WindowsInv, Silences!TypeOK, Silences!Sane
<1> QED BY <1>4, <1>5, <1>6 DEF WindowsInv, Silences!TypeOK

LEMMA ReadLiveKeeps == ASSUME Silences!Sane, WindowsInv, NEW s \in Silences!Sweepers, Silences!ReadLive(s) PROVE WindowsInv'
<1> DEFINE found == {o \in Silences!Occurrences : Silences!IsLive(o)}
           u == [windowSweep[s] EXCEPT !.pc = "write", !.live = found]
<1>0. windowSweep \in [Silences!Sweepers -> Silences!Sweep] /\ windowSweep[s] \in Silences!Sweep
  BY DEF WindowsInv, Silences!TypeOK
<1>1. found \in SUBSET Silences!Occurrences /\ \A o \in found : muted[o] = "live"
  BY DEF Silences!IsLive
<1>2. windowSweep' = [windowSweep EXCEPT ![s] = u] /\ UNCHANGED <<window, muted, now, lifts, lateLifts, edits, touches>>
  BY <1>0 DEF Silences!ReadLive
<1> HIDE DEF found
<1>3. u \in Silences!Sweep /\ u.live = found /\ u.insert = windowSweep[s].insert /\ u.retire = windowSweep[s].retire
  BY <1>0, <1>1, Zenon DEF Silences!Sweep
<1> HIDE DEF u
<1>4. \A o \in lifts \ lateLifts : o \notin u.live \cup u.insert \cup u.retire
  BY <1>1, <1>3 DEF WindowsInv, Spared
<1>5. Spared' /\ windowSweep' \in [Silences!Sweepers -> Silences!Sweep]
  BY <1>2, <1>3, <1>4, SweepSet
<1> QED BY <1>2, <1>5 DEF WindowsInv, Silences!TypeOK

LEMMA WriteKeeps == ASSUME Silences!Sane, WindowsInv, NEW s \in Silences!Sweepers, Silences!Write(s) PROVE WindowsInv'
<1> DEFINE active == Silences!ActiveKeys(windowSweep[s].view, now)
           insert == {o \in active : ~Silences!Tracked(o)}
           retire == windowSweep[s].live \ active
           u == [windowSweep[s] EXCEPT !.pc = "commit", !.live = {}, !.deleted = {}, !.insert = insert, !.retire = retire]
<1>0. windowSweep \in [Silences!Sweepers -> Silences!Sweep] /\ windowSweep[s] \in Silences!Sweep /\ window \in [Windows -> Silences!Window]
  BY DEF WindowsInv, Silences!TypeOK
<1>1. UNCHANGED <<window, muted, now, lifts, lateLifts, edits, touches>>
  BY DEF Silences!Write
<1>2. windowSweep' = [windowSweep EXCEPT ![s] = Silences!NoSweep] \/ windowSweep' = [windowSweep EXCEPT ![s] = u]
  BY <1>0 DEF Silences!Write
<1>3. insert \in SUBSET Silences!Occurrences /\ retire \in SUBSET Silences!Occurrences
  BY <1>0, ActiveOnes DEF Silences!Sweep
<1>4. (\A o \in insert : muted[o] = "none") /\ retire \subseteq windowSweep[s].live
  BY DEF Silences!Tracked
<1> HIDE DEF active, insert, retire
<1>5. u \in Silences!Sweep /\ u.live = {} /\ u.insert = insert /\ u.retire = retire
  BY <1>0, <1>3, Zenon DEF Silences!Sweep
<1> HIDE DEF u
<1>6. \A o \in lifts \ lateLifts : o \notin u.live \cup u.insert \cup u.retire
  BY <1>4, <1>5 DEF WindowsInv, Spared
<1>7. Spared' /\ windowSweep' \in [Silences!Sweepers -> Silences!Sweep]
  <2>1. CASE windowSweep' = [windowSweep EXCEPT ![s] = Silences!NoSweep]
    BY <1>0, <1>1, <2>1, FreshSweep, SweepSet
  <2>2. CASE windowSweep' = [windowSweep EXCEPT ![s] = u]
    BY <1>1, <1>5, <1>6, <2>2, SweepSet
  <2> QED BY <1>2, <2>1, <2>2
<1> QED BY <1>1, <1>7 DEF WindowsInv, Silences!TypeOK

LEMMA CommitSilencesKeeps == ASSUME Silences!Sane, WindowsInv, NEW s \in Silences!Sweepers, Silences!Commit(s) PROVE WindowsInv'
<1>0. windowSweep \in [Silences!Sweepers -> Silences!Sweep] /\ windowSweep[s] \in Silences!Sweep /\ window \in [Windows -> Silences!Window]
      /\ muted \in [Silences!Occurrences -> {"none", "live", "lifted"}] /\ lifts \subseteq Silences!Occurrences
  BY DEF WindowsInv, Silences!TypeOK
<1>1. window' \in [Windows -> Silences!Window]
  BY <1>0 DEF Silences!Commit, Silences!Sweep
<1>2. muted' = [o \in Silences!Occurrences |-> IF o \in windowSweep[s].insert THEN "live"
                                    ELSE IF o \in windowSweep[s].retire THEN "none" ELSE muted[o]]
      /\ UNCHANGED <<now, lifts, lateLifts, edits, touches>>
  BY DEF Silences!Commit
<1>3. muted' \in [Silences!Occurrences -> {"none", "live", "lifted"}]
  BY <1>0, <1>2
<1>4. windowSweep' = [r \in Silences!Sweepers |->
                    IF r = s THEN [Silences!NoSweep EXCEPT !.view = window']
                    ELSE [windowSweep[r] EXCEPT !.live = @ \ windowSweep[s].retire,
                                          !.view = IF windowSweep[r].pc = "idle" THEN window' ELSE @]]
  BY DEF Silences!Commit
<1>5. ASSUME NEW r \in Silences!Sweepers
      PROVE  /\ windowSweep'[r] \in Silences!Sweep
             /\ windowSweep'[r].live \subseteq windowSweep[r].live /\ windowSweep'[r].insert \subseteq windowSweep[r].insert
             /\ windowSweep'[r].retire \subseteq windowSweep[r].retire
  <2> DEFINE left == windowSweep[r].live \ windowSweep[s].retire
             view == IF windowSweep[r].pc = "idle" THEN window' ELSE windowSweep[r].view
             mine == [Silences!NoSweep EXCEPT !.view = window']
             theirs == [windowSweep[r] EXCEPT !.live = left, !.view = view]
  <2>0. windowSweep[r] \in Silences!Sweep
    BY <1>0
  <2>1. left \in SUBSET Silences!Occurrences /\ left \subseteq windowSweep[r].live /\ view \in [Windows -> Silences!Window]
    BY <1>1, <2>0 DEF Silences!Sweep
  <2>2. windowSweep'[r] = IF r = s THEN mine ELSE theirs
    BY <1>4
  <2> HIDE DEF left, view
  <2>3. mine \in Silences!Sweep /\ mine.live = {} /\ mine.insert = {} /\ mine.retire = {}
    BY <1>0, <1>1, Zenon DEF Silences!NoSweep, Silences!Sweep
  <2>4. theirs \in Silences!Sweep /\ theirs.live = left /\ theirs.insert = windowSweep[r].insert /\ theirs.retire = windowSweep[r].retire
    BY <2>0, <2>1, Zenon DEF Silences!Sweep
  <2> HIDE DEF mine, theirs
  <2> QED BY <2>1, <2>2, <2>3, <2>4
<1>6. windowSweep' \in [Silences!Sweepers -> Silences!Sweep]
  BY <1>4, <1>5
<1>7. Silences!TypeOK'
  BY <1>1, <1>2, <1>3, <1>6 DEF WindowsInv, Silences!TypeOK
<1>8. Spared'
  <2> SUFFICES ASSUME NEW o \in lifts \ lateLifts
               PROVE  /\ muted'[o] = "lifted"
                      /\ \A r \in Silences!Sweepers : o \notin windowSweep'[r].live \cup windowSweep'[r].insert \cup windowSweep'[r].retire
    BY <1>2 DEF Spared
  <2>1. muted[o] = "lifted" /\ \A r \in Silences!Sweepers : o \notin windowSweep[r].live \cup windowSweep[r].insert \cup windowSweep[r].retire
    BY DEF WindowsInv, Spared
  <2>2. muted'[o] = "lifted"
    BY <1>0, <1>2, <2>1
  <2> QED BY <1>5, <2>1, <2>2
<1> QED BY <1>7, <1>8 DEF WindowsInv

LEMMA AbortKeeps == ASSUME Silences!Sane, WindowsInv, NEW s \in Silences!Sweepers, Silences!Abort(s) PROVE WindowsInv'
<1>0. window \in [Windows -> Silences!Window]
  BY DEF WindowsInv, Silences!TypeOK
<1>1. windowSweep' = [windowSweep EXCEPT ![s] = Silences!NoSweep] /\ UNCHANGED <<window, muted, now, lifts, lateLifts, edits>>
  BY DEF Silences!Abort
<1>2. Spared' /\ windowSweep' \in [Silences!Sweepers -> Silences!Sweep]
  BY <1>0, <1>1, FreshSweep, SweepSet
<1>3. touches' \in 0 .. MaxTouches
  BY DEF Silences!Abort, WindowsInv, Silences!TypeOK, Silences!Sane
<1> QED BY <1>1, <1>2, <1>3 DEF WindowsInv, Silences!TypeOK

LEMMA LiftKeeps == ASSUME Silences!Sane, WindowsInv, NEW o \in Silences!Occurrences, Silences!Lift(o) PROVE WindowsInv'
<1>0. muted \in [Silences!Occurrences -> {"none", "live", "lifted"}] /\ lifts \subseteq Silences!Occurrences /\ lateLifts \subseteq lifts
  BY DEF WindowsInv, Silences!TypeOK
<1>1. muted' = [muted EXCEPT ![o] = "lifted"] /\ lifts' = lifts \cup {o}
      /\ lateLifts' = (IF \E s \in Silences!Sweepers : o \in windowSweep[s].live THEN lateLifts \cup {o} ELSE lateLifts)
      /\ UNCHANGED <<window, now, windowSweep, edits>>
  BY DEF Silences!Lift
<1>2. touches' \in 0 .. MaxTouches
  BY DEF Silences!Lift, WindowsInv, Silences!TypeOK, Silences!Sane
<1>3. muted' \in [Silences!Occurrences -> {"none", "live", "lifted"}] /\ lifts' \subseteq Silences!Occurrences /\ lateLifts' \subseteq lifts'
  BY <1>0, <1>1
<1>4. Silences!TypeOK'
  BY <1>1, <1>2, <1>3 DEF WindowsInv, Silences!TypeOK
<1>5. "operator" \notin Silences!Sweepers
  BY DEF Silences!Sweepers
<1>6. \A s \in Silences!Sweepers : o \notin windowSweep[s].insert \cup windowSweep[s].retire
  BY <1>5 DEF Silences!Lift, Silences!Locked
<1>7. ASSUME NEW q \in lifts' \ lateLifts'
      PROVE  /\ muted'[q] = "lifted"
             /\ \A s \in Silences!Sweepers : q \notin windowSweep[s].live \cup windowSweep[s].insert \cup windowSweep[s].retire
  <2>1. CASE q = o
    <3>1. muted'[q] = "lifted"
      BY <1>0, <1>1, <2>1
    <3>2. \A s \in Silences!Sweepers : o \notin windowSweep[s].live
      BY <1>1, <1>7, <2>1
    <3> QED BY <1>6, <2>1, <3>1, <3>2
  <2>2. CASE q # o
    <3>1. q \in lifts \ lateLifts
      BY <1>1, <2>2
    <3> QED BY <1>0, <1>1, <2>2, <3>1 DEF WindowsInv, Spared
  <2> QED BY <2>1, <2>2
<1> QED BY <1>1, <1>4, <1>7 DEF WindowsInv, Spared

LEMMA DeleteKeeps == ASSUME Silences!Sane, WindowsInv, NEW o \in Silences!Occurrences, Silences!Delete(o) PROVE WindowsInv'
<1>0. muted \in [Silences!Occurrences -> {"none", "live", "lifted"}] /\ lifts \subseteq Silences!Occurrences /\ lateLifts \subseteq lifts
      /\ windowSweep \in [Silences!Sweepers -> Silences!Sweep]
  BY DEF WindowsInv, Silences!TypeOK
<1>1. muted' = [muted EXCEPT ![o] = "none"] /\ lifts' = lifts \ {o} /\ lateLifts' = lateLifts \ {o}
      /\ UNCHANGED <<window, now, edits>>
      /\ windowSweep' = [s \in Silences!Sweepers |->
                    IF o \in windowSweep[s].live THEN [windowSweep[s] EXCEPT !.deleted = @ \cup {o}] ELSE windowSweep[s]]
  BY DEF Silences!Delete
<1>2. touches' \in 0 .. MaxTouches
  BY DEF Silences!Delete, WindowsInv, Silences!TypeOK, Silences!Sane
<1>3. muted' \in [Silences!Occurrences -> {"none", "live", "lifted"}] /\ lifts' \subseteq Silences!Occurrences /\ lateLifts' \subseteq lifts'
  BY <1>0, <1>1
<1>4. ASSUME NEW s \in Silences!Sweepers
      PROVE  /\ windowSweep'[s] \in Silences!Sweep /\ windowSweep'[s].live = windowSweep[s].live /\ windowSweep'[s].insert = windowSweep[s].insert
             /\ windowSweep'[s].retire = windowSweep[s].retire
  <2> DEFINE dead == windowSweep[s].deleted \cup {o}
             u == [windowSweep[s] EXCEPT !.deleted = dead]
  <2>1. windowSweep[s] \in Silences!Sweep
    BY <1>0
  <2>2. dead \in SUBSET Silences!Occurrences
    BY <2>1 DEF Silences!Sweep
  <2>3. windowSweep'[s] = IF o \in windowSweep[s].live THEN u ELSE windowSweep[s]
    BY <1>1
  <2> HIDE DEF dead
  <2>4. u \in Silences!Sweep /\ u.live = windowSweep[s].live /\ u.insert = windowSweep[s].insert /\ u.retire = windowSweep[s].retire
    BY <2>1, <2>2, Zenon DEF Silences!Sweep
  <2> HIDE DEF u
  <2> QED BY <2>1, <2>3, <2>4
<1>5. windowSweep' \in [Silences!Sweepers -> Silences!Sweep]
  BY <1>1, <1>4
<1>6. Silences!TypeOK'
  BY <1>1, <1>2, <1>3, <1>5 DEF WindowsInv, Silences!TypeOK
<1>7. ASSUME NEW q \in lifts' \ lateLifts'
      PROVE  muted'[q] = "lifted" /\ \A s \in Silences!Sweepers : q \notin windowSweep'[s].live \cup windowSweep'[s].insert \cup windowSweep'[s].retire
  <2>1. q \in lifts \ lateLifts /\ q # o
    BY <1>1
  <2>2. muted'[q] = "lifted"
    BY <1>0, <1>1, <2>1 DEF WindowsInv, Spared
  <2> QED BY <1>4, <2>1, <2>2 DEF WindowsInv, Spared
<1> QED BY <1>6, <1>7 DEF WindowsInv, Spared

LEMMA WindowsInvNext == ASSUME Silences!Sane, WindowsInv, [Silences!Next]_(Silences!windowVars) PROVE WindowsInv'
<1>1. CASE Silences!ScheduledSweep
  BY <1>1, ScheduledSweepKeeps
<1>2. CASE Silences!EditWindow
  BY <1>2, EditWindowKeeps
<1>3. ASSUME NEW s \in Silences!Sweepers, Silences!ReadLive(s) \/ Silences!Write(s) \/ Silences!Commit(s) \/ Silences!Abort(s) PROVE WindowsInv'
  BY <1>3, ReadLiveKeeps, WriteKeeps, CommitSilencesKeeps, AbortKeeps
<1>4. ASSUME NEW o \in Silences!Occurrences, Silences!Lift(o) \/ Silences!Delete(o) PROVE WindowsInv'
  BY <1>4, LiftKeeps, DeleteKeeps
<1>5. CASE Silences!Tick
  <2>1. now' \in 0 .. MaxNow /\ UNCHANGED <<window, muted, windowSweep, lifts, lateLifts, edits, touches>>
    BY <1>5 DEF Silences!Tick, WindowsInv, Silences!TypeOK, Silences!Sane
  <2> QED BY <2>1 DEF WindowsInv, Silences!TypeOK, Spared
<1>6. CASE UNCHANGED Silences!windowVars
  BY <1>6 DEF Silences!windowVars, WindowsInv, Silences!TypeOK, Spared
<1> QED BY <1>1, <1>2, <1>3, <1>4, <1>5, <1>6 DEF Silences!Next

\* An occurrence an operator lifted stays lifted, whatever is edited and swept afterwards,
\* unless a sweep already held it as live when it was lifted (lift_silence,
\* sweep_maintenance_windows).
THEOREM LiftIsRespected == ASSUME Silences!Sane PROVE Silences!Spec => [](Silences!TypeOK /\ Silences!LiftSticks)
<1>1. Silences!Init => WindowsInv
  BY WindowsStart
<1>2. WindowsInv /\ [Silences!Next]_(Silences!windowVars) => WindowsInv'
  BY WindowsInvNext
<1>3. WindowsInv => Silences!TypeOK /\ Silences!LiftSticks
  BY DEF WindowsInv, Spared, Silences!LiftSticks
<1> QED BY <1>1, <1>2, <1>3, PTL DEF Silences!Spec

-----------------------------------------------------------------------------
(* The retention *)

\* An event is live, or archived once, or purged, or in none of the places.
Places ==
    \A e \in Stored :
        /\ archive[e] \in {0, 1}
        /\ event[e].live => archive[e] = 0 /\ e \notin purged
        /\ archive[e] = 1 => e \notin purged

\* An event a run has picked is still live and past its window, or another run
\* archived it the same day; if it has an unfinished child, it is raced.
Due(e) == today - event[e].born > Retention!Window(event[e].profile)
Holding(e) ==
    /\ event[e].live \/ (archive[e] > 0 /\ since[e] = today)
    /\ event[e].live => Due(e)
    /\ (outbox[e].status = "open" \/ e \in kept) => e \in raced

Holdings == \A r \in Runs : \A e \in run[r].picked : Holding(e)

RetentionInv == Retention!TypeOK /\ Places /\ Holdings /\ Retention!ChildrenKept

LEMMA RunsAre ==
    /\ Retention!NoRun \in Retention!Run /\ Retention!NoRun.picked = {} /\ Retention!NoRun.pc = "idle"
    /\ \A pc \in {"idle", "load", "commit", "secondary"} :
          [Retention!NoRun EXCEPT !.pc = pc] \in Retention!Run /\ [Retention!NoRun EXCEPT !.pc = pc].picked = {}
BY Zenon DEF Retention!NoRun, Retention!Run

LEMMA OutboxesAre ==
    /\ Retention!NoOutbox.status = "none"
    /\ Retention!Sane => Retention!NoOutbox \in Retention!Outbox
BY DEF Retention!NoOutbox, Retention!Outbox, Retention!Sane

\* What a policy says is due is past the window of the event.
LEMMA FilterIsDue ==
    ASSUME Retention!Sane, Retention!TypeOK, NEW e \in Stored, Retention!CleanupFilter(e)
    PROVE  Due(e)
<1> DEFINE p == event[e].profile
           age == today - event[e].born
<1>1. p \in Profiles /\ today \in Nat /\ event[e].born \in Nat
  BY DEF Retention!TypeOK, Retention!Event, Retention!Sane
<1>2. p.keyword \in BOOLEAN /\ DefaultDays \in Nat /\ age \in Int
  BY <1>1 DEF Retention!Sane
<1>3. (p.importance \in DOMAIN ImportanceDays) => ImportanceDays[p.importance] \in Nat
  BY DEF Retention!Sane
<1>4. (p.source \in DOMAIN SourceDays) => SourceDays[p.source] \in Nat
  BY DEF Retention!Sane
<1>5. \/ p.keyword /\ age > DefaultDays
      \/ p.importance \in DOMAIN ImportanceDays /\ age > ImportanceDays[p.importance]
      \/ p.importance \notin DOMAIN ImportanceDays /\ p.source \in DOMAIN SourceDays /\ age > SourceDays[p.source]
      \/ p.importance \notin DOMAIN ImportanceDays /\ p.source \notin DOMAIN SourceDays /\ age > DefaultDays
  BY DEF Retention!CleanupFilter, Retention!NoImportancePolicy, Retention!NoSourcePolicy, Retention!Older
<1> HIDE DEF p, age
<1>6. age > Retention!Window(p)
  BY <1>2, <1>3, <1>4, <1>5 DEF Retention!Window
<1> QED BY <1>6 DEF Due, p, age

\* A run that gives up its events, and a step that leaves the picked ones as they are.
LEMMA RunSet ==
    ASSUME Retention!TypeOK, NEW r \in Runs, NEW u \in Retention!Run, run' = [run EXCEPT ![r] = u],
           \A e \in u.picked : Holding(e)',
           \A s \in Runs : \A e \in run[s].picked : Holding(e)'
    PROVE  run' \in [Runs -> Retention!Run] /\ Holdings'
<1>1. run \in [Runs -> Retention!Run]
  BY DEF Retention!TypeOK
<1>2. run'[r] = u /\ \A s \in Runs : s # r => run'[s] = run[s]
  BY <1>1
<1>3. run' \in [Runs -> Retention!Run]
  BY <1>1
<1> QED BY <1>2, <1>3 DEF Holdings

\* A step that touches nothing Holding reads.
LEMMA HoldingSame ==
    ASSUME UNCHANGED <<today, event, outbox, kept, archive, since, raced>>, NEW e
    PROVE  Holding(e)' = Holding(e)
BY DEF Holding, Due

-----------------------------------------------------------------------------
(* The initial states, and the steps action by action *)

LEMMA RetentionStart == ASSUME Retention!Sane PROVE Retention!Init => RetentionInv
<1> SUFFICES ASSUME Retention!Init PROVE RetentionInv
  OBVIOUS
<1> DEFINE one == CHOOSE p \in Profiles : TRUE
           blank == [live |-> FALSE, born |-> 0, profile |-> one, ref |-> None]
<1>0. one \in Profiles
  BY DEF Retention!Sane
<1> HIDE DEF one
<1>n. 0 \in 0 .. MaxDay /\ 0 \in 0 .. MaxDeaths /\ 0 \in 0 .. MaxChildren
  BY DEF Retention!Sane
<1>1. blank \in Retention!Event
  BY <1>0, <1>n DEF Retention!Event
<1>2. event = [e \in Stored |-> blank]
  BY DEF Retention!Init, one
<1>3. blank.live = FALSE
  OBVIOUS
<1> HIDE DEF blank
<1>4. Retention!TypeOK
  <2>1. event \in [Stored -> Retention!Event]
    BY <1>1, <1>2
  <2>2. outbox \in [Stored -> Retention!Outbox]
    BY OutboxesAre DEF Retention!Init
  <2>3. archive \in [Stored -> Nat] /\ since \in [Stored -> 0 .. MaxDay]
    BY <1>n DEF Retention!Init
  <2>4. run \in [Runs -> Retention!Run]
    BY RunsAre DEF Retention!Init
  <2> QED BY <1>n, <2>1, <2>2, <2>3, <2>4 DEF Retention!Init, Retention!TypeOK
<1>5. Places
  BY <1>2, <1>3 DEF Retention!Init, Places
<1>6. Holdings
  BY RunsAre DEF Retention!Init, Holdings
<1> QED BY <1>4, <1>5, <1>6 DEF RetentionInv, Retention!Init, Retention!ChildrenKept

LEMMA PickKeeps == ASSUME Retention!Sane, RetentionInv, NEW r \in Runs, Retention!Pick(r) PROVE RetentionInv'
<1> DEFINE some == {e \in Retention!Targets : Retention!Cardinality({f \in Retention!Targets : f < e}) < BatchLimit}
           u == [pc |-> "load", picked |-> some]
           v == [Retention!NoRun EXCEPT !.pc = "secondary"]
<1>1. some \in SUBSET Stored /\ \A e \in some : e \in Retention!Targets
  BY DEF Retention!Targets, Retention!Live
<1>2. \A e \in some : Holding(e)
  <2> SUFFICES ASSUME NEW e \in some PROVE Holding(e)
    OBVIOUS
  <2>1. e \in Stored /\ event[e].live /\ Retention!CleanupFilter(e) /\ Retention!NoLiveDependencies(e)
    BY <1>1 DEF Retention!Targets, Retention!Live
  <2>2. Due(e)
    BY <2>1, FilterIsDue DEF RetentionInv
  <2>3. outbox[e].status = "none" /\ e \notin kept
    BY <2>1 DEF Retention!NoLiveDependencies
  <2> QED BY <2>1, <2>2, <2>3 DEF Holding
<1>3. UNCHANGED <<today, event, outbox, kept, archive, since, purged, raced, lost, deaths, children>>
      /\ run' = [run EXCEPT ![r] = IF Retention!Targets = {} THEN v ELSE u]
  BY DEF Retention!Pick
<1> HIDE DEF some
<1>4. u \in Retention!Run /\ u.picked = some /\ v \in Retention!Run /\ v.picked = {}
  BY <1>1, RunsAre DEF Retention!Run
<1> HIDE DEF u, v
<1>5. \A e : Holding(e)' = Holding(e)
  BY <1>3, HoldingSame
<1>6. run' \in [Runs -> Retention!Run] /\ Holdings'
  <2>1. CASE Retention!Targets = {}
    BY <1>3, <1>4, <1>5, <2>1, RunSet DEF RetentionInv, Holdings
  <2>2. CASE Retention!Targets # {}
    BY <1>2, <1>3, <1>4, <1>5, <2>2, RunSet DEF RetentionInv, Holdings
  <2> QED BY <2>1, <2>2
<1> QED BY <1>3, <1>6 DEF RetentionInv, Retention!TypeOK, Places, Retention!ChildrenKept

LEMMA LoadKeeps == ASSUME Retention!Sane, RetentionInv, NEW r \in Runs, Retention!Load(r) PROVE RetentionInv'
<1> DEFINE rest == run[r].picked \cap Retention!Live
           u == [pc |-> "commit", picked |-> rest]
<1>1. run[r] \in Retention!Run
  BY DEF RetentionInv, Retention!TypeOK
<1>2. rest \in SUBSET Stored /\ rest \subseteq run[r].picked
  BY <1>1 DEF Retention!Run
<1>3. UNCHANGED <<today, event, outbox, kept, archive, since, purged, raced, lost, deaths, children>>
      /\ run' = [run EXCEPT ![r] = u]
  BY <1>1 DEF Retention!Load, RetentionInv, Retention!TypeOK
<1> HIDE DEF rest
<1>4. u \in Retention!Run /\ u.picked = rest
  BY <1>2 DEF Retention!Run
<1> HIDE DEF u
<1>5. \A e : Holding(e)' = Holding(e)
  BY <1>3, HoldingSame
<1>6. run' \in [Runs -> Retention!Run] /\ Holdings'
  BY <1>2, <1>3, <1>4, <1>5, RunSet DEF RetentionInv, Holdings
<1> QED BY <1>3, <1>6 DEF RetentionInv, Retention!TypeOK, Places, Retention!ChildrenKept

\* What is gone when a batch is committed was live, past its window, and without an
\* unfinished child unless it was raced.
LEMMA GoneWas ==
    ASSUME RetentionInv, NEW r \in Runs, Retention!Commit(r), ~\E e \in run[r].picked : archive[e] > 0,
           NEW e \in run[r].picked
    PROVE  /\ e \in Stored /\ event[e].live /\ Due(e) /\ archive[e] = 0 /\ e \notin purged
           /\ (outbox[e].status = "open" \/ e \in kept) => e \in raced
<1>1. e \in Stored /\ Holding(e)
  BY DEF RetentionInv, Holdings, Retention!TypeOK, Retention!Run
<1>2. event[e].live
  BY <1>1 DEF Holding
<1> QED BY <1>1, <1>2 DEF Holding, RetentionInv, Places

LEMMA CommitBatchKeeps == ASSUME Retention!Sane, RetentionInv, NEW r \in Runs, Retention!Commit(r) PROVE RetentionInv'
<1> DEFINE gone == run[r].picked
<1>0. run[r] \in Retention!Run /\ gone \in SUBSET Stored
  BY DEF RetentionInv, Retention!TypeOK, Retention!Run
<1>u. UNCHANGED <<today, purged, raced, deaths, children>>
  BY DEF Retention!Commit
<1>1. CASE \E e \in gone : archive[e] > 0
  <2>1. run' = [run EXCEPT ![r] = Retention!NoRun] /\ UNCHANGED <<event, outbox, kept, archive, since, lost>>
    BY <1>1 DEF Retention!Commit
  <2>2. \A e : Holding(e)' = Holding(e)
    BY <1>u, <2>1, HoldingSame
  <2>3. run' \in [Runs -> Retention!Run] /\ Holdings'
    BY <2>1, <2>2, RunsAre, RunSet DEF RetentionInv, Holdings
  <2> QED BY <1>u, <2>1, <2>3 DEF RetentionInv, Retention!TypeOK, Places, Retention!ChildrenKept
<1>2. CASE ~\E e \in gone : archive[e] > 0
  <2>e. event' = [e \in Stored |->
                     [event[e] EXCEPT !.live = @ /\ e \notin gone,
                                      !.ref = IF @ \in gone /\ e \notin gone THEN None ELSE @]]
    BY <1>2 DEF Retention!Commit
  <2>a. /\ archive' = [e \in Stored |-> IF e \in gone THEN archive[e] + 1 ELSE archive[e]]
        /\ since' = [e \in Stored |-> IF e \in gone THEN today ELSE since[e]]
        /\ outbox' = [e \in Stored |-> IF e \in gone THEN Retention!NoOutbox ELSE outbox[e]]
        /\ kept' = kept \ gone
        /\ lost' = lost \cup {e \in gone : outbox[e].status = "open" \/ e \in kept}
    BY <1>2 DEF Retention!Commit
  <2>r. run' = [run EXCEPT ![r] = [Retention!NoRun EXCEPT !.pc = IF Retention!Cardinality(gone) < BatchLimit
                                                       THEN "secondary" ELSE "idle"]]
    BY <1>2 DEF Retention!Commit
  <2>g. \A e \in gone : /\ event[e].live /\ archive[e] = 0 /\ e \notin purged
                        /\ (outbox[e].status = "open" \/ e \in kept) => e \in raced
    BY <1>2, GoneWas
  <2>1. ASSUME NEW e \in Stored
        PROVE  /\ event'[e] \in Retention!Event /\ (event'[e].live <=> event[e].live /\ e \notin gone)
               /\ event'[e].born = event[e].born /\ event'[e].profile = event[e].profile
    <3> DEFINE live == event[e].live /\ e \notin gone
               ref == IF event[e].ref \in gone /\ e \notin gone THEN None ELSE event[e].ref
               x == [event[e] EXCEPT !.live = live, !.ref = ref]
    <3>1. event[e] \in Retention!Event
      BY DEF RetentionInv, Retention!TypeOK
    <3>2. live \in BOOLEAN
      OBVIOUS
    <3>3. ref \in Stored \cup {None}
      BY <3>1 DEF Retention!Event
    <3>4. event'[e] = x
      BY <2>e
    <3>l. live <=> event[e].live /\ e \notin gone
      OBVIOUS
    <3> HIDE DEF live, ref
    <3>5. x \in Retention!Event /\ x.live = live /\ x.born = event[e].born /\ x.profile = event[e].profile
      BY <3>1, <3>2, <3>3, Zenon DEF Retention!Event
    <3> QED BY <3>4, <3>5, <3>l
  <2>2. Retention!TypeOK' /\ Holdings'
    <3> DEFINE u == [Retention!NoRun EXCEPT !.pc = IF Retention!Cardinality(gone) < BatchLimit THEN "secondary" ELSE "idle"]
    <3>1. u \in Retention!Run /\ u.picked = {}
      BY RunsAre
    <3>2. ASSUME NEW e \in Stored, Holding(e) PROVE Holding(e)'
      <4>1. CASE e \in gone
        <5>1. ~event'[e].live /\ archive'[e] > 0 /\ since'[e] = today' /\ outbox'[e].status = "none" /\ e \notin kept'
          BY <1>u, <2>1, <2>a, <2>g, <4>1, OutboxesAre
        <5> QED BY <5>1 DEF Holding
      <4>2. CASE e \notin gone
        <5>1. archive'[e] = archive[e] /\ since'[e] = since[e] /\ outbox'[e] = outbox[e] /\ (e \in kept' <=> e \in kept)
          BY <2>a, <4>2
        <5>2. Due(e)' = Due(e)
          BY <1>u, <2>1 DEF Due
        <5> QED BY <1>u, <2>1, <3>2, <4>2, <5>1, <5>2 DEF Holding
      <4> QED BY <4>1, <4>2
    <3>3. \A s \in Runs : \A e \in run[s].picked : e \in Stored /\ Holding(e)
      BY DEF RetentionInv, Holdings, Retention!TypeOK, Retention!Run
    <3>4. run' = [run EXCEPT ![r] = u]
      BY <2>r
    <3> HIDE DEF u
    <3>5. run' \in [Runs -> Retention!Run] /\ Holdings'
      BY <3>1, <3>2, <3>3, <3>4, RunSet DEF RetentionInv
    <3>6. event' \in [Stored -> Retention!Event]
      BY <2>1, <2>e
    <3>7. archive' \in [Stored -> Nat] /\ since' \in [Stored -> 0 .. MaxDay]
      BY <2>a DEF RetentionInv, Retention!TypeOK
    <3>8. outbox' \in [Stored -> Retention!Outbox]
      BY <2>a, OutboxesAre DEF RetentionInv, Retention!TypeOK
    <3>9. kept' \subseteq Stored /\ lost' \subseteq Stored
      BY <1>0, <2>a DEF RetentionInv, Retention!TypeOK
    <3> QED BY <1>u, <3>5, <3>6, <3>7, <3>8, <3>9 DEF RetentionInv, Retention!TypeOK
  <2>3. Places'
    <3> SUFFICES ASSUME NEW e \in Stored
                 PROVE  /\ archive'[e] \in {0, 1}
                        /\ event'[e].live => archive'[e] = 0 /\ e \notin purged
                        /\ archive'[e] = 1 => e \notin purged
      BY <1>u DEF Places
    <3>1. CASE e \in gone
      BY <2>1, <2>a, <2>g, <3>1
    <3>2. CASE e \notin gone
      BY <2>1, <2>a, <3>2 DEF RetentionInv, Places
    <3> QED BY <3>1, <3>2
  <2>4. Retention!ChildrenKept'
    BY <1>u, <2>a, <2>g DEF RetentionInv, Retention!ChildrenKept
  <2> QED BY <2>2, <2>3, <2>4 DEF RetentionInv
<1> QED BY <1>1, <1>2

LEMMA SecondaryKeeps == ASSUME Retention!Sane, RetentionInv, NEW r \in Runs, Retention!CleanupSecondary(r) PROVE RetentionInv'
<1> DEFINE expired == {e \in Stored : archive[e] > 0 /\ today - since[e] > ArchiveDays}
<1>1. /\ archive' = [e \in Stored |-> IF e \in expired THEN 0 ELSE archive[e]]
      /\ purged' = purged \cup expired
      /\ outbox' = [e \in Stored |-> IF outbox[e].status = "done" /\ today - outbox[e].day > OutboxDays
                                     THEN Retention!NoOutbox ELSE outbox[e]]
      /\ run' = [run EXCEPT ![r] = Retention!NoRun]
      /\ UNCHANGED <<today, event, kept, since, raced, lost, deaths, children>>
  BY DEF Retention!CleanupSecondary
<1>2. \A e \in Stored : e \in expired => archive[e] > 0 /\ since[e] # today
  BY DEF RetentionInv, Retention!TypeOK, Retention!Sane
<1>3. expired \subseteq Stored
  OBVIOUS
<1> HIDE DEF expired
<1>4. ASSUME NEW e \in Stored, Holding(e) PROVE Holding(e)'
  <2>1. Due(e)' = Due(e)
    BY <1>1 DEF Due
  <2>2. outbox'[e].status = "open" => outbox[e].status = "open"
    BY <1>1, OutboxesAre
  <2>3. event[e].live \/ (archive'[e] > 0 /\ since[e] = today)
    BY <1>1, <1>2, <1>4 DEF Holding
  <2> QED BY <1>1, <1>4, <2>1, <2>2, <2>3 DEF Holding
<1>5. \A s \in Runs : \A e \in run[s].picked : e \in Stored /\ Holding(e)
  BY DEF RetentionInv, Holdings, Retention!TypeOK, Retention!Run
<1>6. run' \in [Runs -> Retention!Run] /\ Holdings'
  BY <1>1, <1>4, <1>5, RunsAre, RunSet DEF RetentionInv
<1>7. archive' \in [Stored -> Nat] /\ purged' \subseteq Stored
  BY <1>1, <1>3 DEF RetentionInv, Retention!TypeOK
<1>8. outbox' \in [Stored -> Retention!Outbox]
  BY <1>1, OutboxesAre DEF RetentionInv, Retention!TypeOK
<1>9. Retention!TypeOK'
  BY <1>1, <1>6, <1>7, <1>8 DEF RetentionInv, Retention!TypeOK
<1>10. Places'
  BY <1>1, <1>2 DEF RetentionInv, Places, Retention!TypeOK
<1> QED BY <1>1, <1>6, <1>9, <1>10 DEF RetentionInv, Retention!ChildrenKept

LEMMA CrashKeeps == ASSUME Retention!Sane, RetentionInv, NEW r \in Runs, Retention!Crash(r) PROVE RetentionInv'
<1>1. run' = [run EXCEPT ![r] = Retention!NoRun]
      /\ UNCHANGED <<today, event, outbox, kept, archive, since, purged, raced, lost, children>>
  BY DEF Retention!Crash
<1>2. deaths' \in 0 .. MaxDeaths
  BY DEF Retention!Crash, RetentionInv, Retention!TypeOK, Retention!Sane
<1>3. \A e : Holding(e)' = Holding(e)
  BY <1>1, HoldingSame
<1>4. run' \in [Runs -> Retention!Run] /\ Holdings'
  BY <1>1, <1>3, RunsAre, RunSet DEF RetentionInv, Holdings
<1> QED BY <1>1, <1>2, <1>4 DEF RetentionInv, Retention!TypeOK, Places, Retention!ChildrenKept

\* A picked event is known.
LEMMA PickedKnown ==
    ASSUME RetentionInv, NEW r \in Runs, NEW e \in run[r].picked
    PROVE  e \in Stored /\ e \in Retention!Seen /\ e \in Retention!Picked /\ Holding(e)
<1>1. e \in Stored /\ Holding(e) /\ e \in Retention!Picked
  BY DEF RetentionInv, Holdings, Retention!TypeOK, Retention!Run, Retention!Picked
<1> QED BY <1>1 DEF Holding, Retention!Seen

LEMMA ArriveKeeps == ASSUME Retention!Sane, RetentionInv, NEW e \in Stored, Retention!Arrive(e) PROVE RetentionInv'
<1>1. PICK p \in Profiles, ref \in Retention!Live \cup {None} :
          /\ event' = [event EXCEPT ![e] = [live |-> TRUE, born |-> today, profile |-> p, ref |-> ref]]
          /\ raced' = raced \cup ({ref} \cap Retention!Picked)
  BY DEF Retention!Arrive
<1> DEFINE x == [live |-> TRUE, born |-> today, profile |-> p, ref |-> ref]
<1>2. UNCHANGED <<today, outbox, kept, archive, since, purged, run, lost, deaths, children>> /\ e \notin Retention!Seen
  BY DEF Retention!Arrive
<1>3. x \in Retention!Event
  <2>1. ref \in Stored \cup {None}
    BY DEF Retention!Live
  <2> QED BY <2>1 DEF Retention!Event, RetentionInv, Retention!TypeOK
<1>4. event' = [event EXCEPT ![e] = x]
  BY <1>1
<1> HIDE DEF x
<1>5. event' \in [Stored -> Retention!Event] /\ \A f \in Stored : f # e => event'[f] = event[f]
  BY <1>3, <1>4 DEF RetentionInv, Retention!TypeOK
<1>6. raced' \subseteq Stored /\ raced \subseteq raced'
  <2>1. Retention!Picked \subseteq Stored
    BY DEF Retention!Picked, RetentionInv, Retention!TypeOK, Retention!Run
  <2> QED BY <1>1, <2>1 DEF RetentionInv, Retention!TypeOK
<1>7. archive[e] = 0 /\ e \notin purged
  BY <1>2 DEF Retention!Seen, RetentionInv, Places
<1>8. Places'
  BY <1>2, <1>5, <1>7 DEF RetentionInv, Places
<1>9. Holdings'
  <2> SUFFICES ASSUME NEW r \in Runs, NEW f \in run[r].picked PROVE Holding(f)'
    BY <1>2 DEF Holdings
  <2>1. f \in Stored /\ f # e /\ Holding(f)
    BY <1>2, PickedKnown
  <2>2. event'[f] = event[f]
    BY <1>5, <2>1
  <2>3. Due(f)' = Due(f)
    BY <1>2, <2>2 DEF Due
  <2> QED BY <1>2, <1>6, <2>1, <2>2, <2>3 DEF Holding
<1>10. Retention!TypeOK'
  BY <1>2, <1>5, <1>6 DEF RetentionInv, Retention!TypeOK
<1> QED BY <1>2, <1>6, <1>8, <1>9, <1>10 DEF RetentionInv, Retention!ChildrenKept

LEMMA OpenOutboxKeeps == ASSUME Retention!Sane, RetentionInv, NEW e \in Stored, Retention!OpenOutbox(e) PROVE RetentionInv'
<1> DEFINE x == [status |-> "open", day |-> today]
<1>1. /\ outbox' = [outbox EXCEPT ![e] = x]
      /\ raced' = raced \cup ({e} \cap Retention!Picked)
      /\ UNCHANGED <<today, event, kept, archive, since, purged, run, lost, deaths>>
  BY DEF Retention!OpenOutbox
<1>2. x \in Retention!Outbox
  BY DEF Retention!Outbox, RetentionInv, Retention!TypeOK
<1> HIDE DEF x
<1>3. outbox' \in [Stored -> Retention!Outbox] /\ \A f \in Stored : f # e => outbox'[f] = outbox[f]
  BY <1>1, <1>2 DEF RetentionInv, Retention!TypeOK
<1>4. raced' \subseteq Stored /\ raced \subseteq raced'
  BY <1>1 DEF RetentionInv, Retention!TypeOK
<1>5. children' \in 0 .. MaxChildren
  BY DEF Retention!OpenOutbox, RetentionInv, Retention!TypeOK, Retention!Sane
<1>6. Holdings'
  <2> SUFFICES ASSUME NEW r \in Runs, NEW f \in run[r].picked PROVE Holding(f)'
    BY <1>1 DEF Holdings
  <2>1. f \in Stored /\ f \in Retention!Picked /\ Holding(f)
    BY PickedKnown
  <2>2. Due(f)' = Due(f)
    BY <1>1 DEF Due
  <2>3. f = e => f \in raced'
    BY <1>1, <2>1
  <2> QED BY <1>1, <1>3, <1>4, <2>1, <2>2, <2>3 DEF Holding
<1> QED BY <1>1, <1>3, <1>4, <1>5, <1>6 DEF RetentionInv, Retention!TypeOK, Places, Retention!ChildrenKept

LEMMA FinishOutboxKeeps == ASSUME Retention!Sane, RetentionInv, NEW e \in Stored, Retention!FinishOutbox(e) PROVE RetentionInv'
<1> DEFINE x == [status |-> "done", day |-> today]
<1>1. /\ outbox' = [outbox EXCEPT ![e] = x]
      /\ UNCHANGED <<today, event, kept, archive, since, purged, run, raced, lost, deaths, children>>
  BY DEF Retention!FinishOutbox
<1>2. x \in Retention!Outbox /\ x.status = "done"
  BY DEF Retention!Outbox, RetentionInv, Retention!TypeOK
<1> HIDE DEF x
<1>3. outbox' \in [Stored -> Retention!Outbox] /\ \A f \in Stored : outbox'[f].status = "open" => outbox[f].status = "open"
  BY <1>1, <1>2 DEF RetentionInv, Retention!TypeOK
<1>4. Holdings'
  <2> SUFFICES ASSUME NEW r \in Runs, NEW f \in run[r].picked PROVE Holding(f)'
    BY <1>1 DEF Holdings
  <2>1. f \in Stored /\ Holding(f)
    BY PickedKnown
  <2>2. Due(f)' = Due(f)
    BY <1>1 DEF Due
  <2> QED BY <1>1, <1>3, <2>1, <2>2 DEF Holding
<1> QED BY <1>1, <1>3, <1>4 DEF RetentionInv, Retention!TypeOK, Places, Retention!ChildrenKept

LEMMA KeepKeeps == ASSUME Retention!Sane, RetentionInv, NEW e \in Stored, Retention!Keep(e) PROVE RetentionInv'
<1>1. /\ kept' = kept \cup {e}
      /\ raced' = raced \cup ({e} \cap Retention!Picked)
      /\ UNCHANGED <<today, event, outbox, archive, since, purged, run, lost, deaths>>
  BY DEF Retention!Keep
<1>2. raced' \subseteq Stored /\ raced \subseteq raced' /\ kept' \subseteq Stored
  BY <1>1 DEF RetentionInv, Retention!TypeOK
<1>3. children' \in 0 .. MaxChildren
  BY DEF Retention!Keep, RetentionInv, Retention!TypeOK, Retention!Sane
<1>4. Holdings'
  <2> SUFFICES ASSUME NEW r \in Runs, NEW f \in run[r].picked PROVE Holding(f)'
    BY <1>1 DEF Holdings
  <2>1. f \in Stored /\ f \in Retention!Picked /\ Holding(f)
    BY PickedKnown
  <2>2. Due(f)' = Due(f)
    BY <1>1 DEF Due
  <2>3. f = e => f \in raced'
    BY <1>1, <2>1
  <2> QED BY <1>1, <1>2, <2>1, <2>2, <2>3 DEF Holding
<1> QED BY <1>1, <1>2, <1>3, <1>4 DEF RetentionInv, Retention!TypeOK, Places, Retention!ChildrenKept

LEMMA NewDayKeeps == ASSUME Retention!Sane, RetentionInv, Retention!NewDay PROVE RetentionInv'
<1>1. UNCHANGED <<event, outbox, kept, archive, since, purged, run, raced, lost, deaths, children>> /\ Retention!Picked = {}
  BY DEF Retention!NewDay
<1>2. today' \in 0 .. MaxDay
  BY DEF Retention!NewDay, RetentionInv, Retention!TypeOK, Retention!Sane
<1>3. Holdings'
  BY <1>1 DEF Holdings, Retention!Picked
<1> QED BY <1>1, <1>2, <1>3 DEF RetentionInv, Retention!TypeOK, Places, Retention!ChildrenKept

LEMMA RetentionInvNext == ASSUME Retention!Sane, RetentionInv, [Retention!Next]_(Retention!retentionVars) PROVE RetentionInv'
<1>1. ASSUME NEW r \in Runs, Retention!Step(r) \/ Retention!Crash(r) PROVE RetentionInv'
  BY <1>1, PickKeeps, LoadKeeps, CommitBatchKeeps, SecondaryKeeps, CrashKeeps DEF Retention!Step
<1>2. ASSUME NEW e \in Stored, Retention!Arrive(e) \/ Retention!OpenOutbox(e) \/ Retention!FinishOutbox(e) \/ Retention!Keep(e) PROVE RetentionInv'
  BY <1>2, ArriveKeeps, OpenOutboxKeeps, FinishOutboxKeeps, KeepKeeps
<1>3. CASE Retention!NewDay
  BY <1>3, NewDayKeeps
<1>4. CASE UNCHANGED Retention!retentionVars
  BY <1>4 DEF Retention!retentionVars, RetentionInv, Retention!TypeOK, Places, Holdings, Holding, Due, Retention!ChildrenKept
<1> QED BY <1>1, <1>2, <1>3, <1>4 DEF Retention!Next

\* An event is live, or archived once, or past the archive's own retention, and only one
\* that was delivered or investigated while a run had picked it takes an unfinished child
\* with it, also when runs overlap and die (cleanup_old_data_by_policy).
THEOREM PlacedOnce == ASSUME Retention!Sane PROVE Retention!Spec => [](Retention!TypeOK /\ Retention!OnePlace /\ Retention!ChildrenKept)
<1>1. Retention!Init => RetentionInv
  BY RetentionStart
<1>2. RetentionInv /\ [Retention!Next]_(Retention!retentionVars) => RetentionInv'
  BY RetentionInvNext
<1>3. RetentionInv => Retention!TypeOK /\ Retention!OnePlace /\ Retention!ChildrenKept
  BY DEF RetentionInv, Retention!TypeOK, Places, Retention!OnePlace, Retention!Seen
<1> QED BY <1>1, <1>2, <1>3, PTL DEF Retention!Spec

\* No event is archived before the window of its own policy is over (_cleanup_filter).
THEOREM ArchivedWhenOver == ASSUME Retention!Sane PROVE Retention!Spec => Retention!ArchivedWhenDue
<1>1. ASSUME RetentionInv, [Retention!Next]_(Retention!retentionVars) PROVE Retention!ArchiveStep
  <2> SUFFICES ASSUME NEW e \in Stored, event[e].live, ~event'[e].live PROVE Due(e)
    BY DEF Retention!ArchiveStep, Due
  <2>1. PICK r \in Runs : Retention!Commit(r)
    <3>1. ASSUME NEW r \in Runs, Retention!Pick(r) \/ Retention!Load(r) \/ Retention!CleanupSecondary(r) \/ Retention!Crash(r) PROVE FALSE
      BY <3>1 DEF Retention!Pick, Retention!Load, Retention!CleanupSecondary, Retention!Crash
    <3>2. ASSUME NEW f \in Stored, Retention!OpenOutbox(f) \/ Retention!FinishOutbox(f) \/ Retention!Keep(f) PROVE FALSE
      BY <3>2 DEF Retention!OpenOutbox, Retention!FinishOutbox, Retention!Keep
    <3>3. ASSUME NEW f \in Stored, Retention!Arrive(f) PROVE FALSE
      BY <1>1, <3>3 DEF Retention!Arrive, RetentionInv, Retention!TypeOK
    <3>4. CASE Retention!NewDay
      BY <3>4 DEF Retention!NewDay
    <3>5. CASE UNCHANGED Retention!retentionVars
      BY <3>5 DEF Retention!retentionVars
    <3> QED BY <1>1, <3>1, <3>2, <3>3, <3>4, <3>5 DEF Retention!Next, Retention!Step
  <2>2. ~\E f \in run[r].picked : archive[f] > 0
    BY <2>1 DEF Retention!Commit
  <2>3. e \in run[r].picked
    <3> DEFINE gone == run[r].picked
    <3>1. event' = [f \in Stored |->
                     [event[f] EXCEPT !.live = @ /\ f \notin gone,
                                      !.ref = IF @ \in gone /\ f \notin gone THEN None ELSE @]]
      BY <2>1, <2>2 DEF Retention!Commit
    <3>2. event[e] \in Retention!Event
      BY <1>1 DEF RetentionInv, Retention!TypeOK
    <3> HIDE DEF gone
    <3>3. event'[e].live <=> event[e].live /\ e \notin gone
      BY <3>1, <3>2 DEF Retention!Event
    <3> QED BY <3>3 DEF gone
  <2> QED BY <1>1, <2>1, <2>2, <2>3, GoneWas
<1>2. Retention!Init => RetentionInv
  BY RetentionStart
<1>3. RetentionInv /\ [Retention!Next]_(Retention!retentionVars) => RetentionInv'
  BY RetentionInvNext
<1> QED BY <1>1, <1>2, <1>3, PTL DEF Retention!Spec, Retention!ArchivedWhenDue

-----------------------------------------------------------------------------
(* Together *)

\* What a sweep does to a row another party has meanwhile changed: an occurrence an
\* operator lifted is not muted again, an event is in one place, and only an event that
\* gained a child while it was picked takes the child with it.
THEOREM SweepsDoOnce ==
    ASSUME SweepsSane
    PROVE  SweepsSpec => []SweptOnce
<1>1. Silences!Sane /\ Retention!Sane
  BY DEF SweepsSane
<1> QED BY <1>1, LiftIsRespected, PlacedOnce, PTL DEF SweptOnce, SweepsSpec

\* An event is archived when its policy says so and not before; a sweep replaces
\* neither text that was approved, however long ago it selected the incident, nor a
\* draft that a reviewer amended before it selected the incident.
THEOREM SweepsKeepTheRules ==
    ASSUME SweepsSane
    PROVE  SweepsSpec => SweepsRespect
<1>1. Sane /\ Retention!Sane
  BY DEF SweepsSane
<1> QED BY <1>1, ApprovedTextStays, ArchivedWhenOver, PTL DEF SweepsRespect, SweepsSpec
=============================================================================
