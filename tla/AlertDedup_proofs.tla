------------------------- MODULE AlertDedup_proofs -------------------------
(***************************************************************************)
(* The save of an alert, for any number of alerts and workers and any      *)
(* windows: what the recheck and the request_id guarantee whatever fails,  *)
(* and what they guarantee while the gate's lock is not lost.  And the     *)
(* noise stage before it: who may be held back, and on whose word an       *)
(* alert's level changes.  And the forward decision after it: the ceilings *)
(* operators set, the cadence of notices and the order of judging and      *)
(* forwarding, for any tables and workers.                                 *)
(***************************************************************************)
EXTENDS AlertDedup, NoiseReduction, AlertRouting, FiniteSetTheorems, SequenceTheorems,
        WellFoundedInduction, TLAPS

Ids == 0 .. Cardinality(Requests)
Times == 0 .. MaxTime
Names == Requests \cup {None}

-----------------------------------------------------------------------------
(* The operators *)

LEMMA CardRequests == Cardinality(Requests) \in Nat
BY DedupAssumption, FS_CardinalityType

\* There is an id left for a request that has no row.
LEMMA NextId ==
    ASSUME NEW r \in Requests, row[r].status = "none"
    PROVE  Cardinality(Rows) + 1 \in Ids
<1>1. IsFiniteSet(Requests) /\ Rows \subseteq Requests /\ Rows # Requests
  BY DedupAssumption DEF Rows
<1>2. /\ IsFiniteSet(Rows) /\ Cardinality(Rows) <= Cardinality(Requests)
      /\ Cardinality(Rows) # Cardinality(Requests)
  BY <1>1, FS_Subset
<1>3. Cardinality(Rows) \in Nat
  BY <1>2, FS_CardinalityType
<1> QED BY <1>2, <1>3, CardRequests DEF Ids

LEMMA ZeroIn == 0 \in Ids /\ 0 \in Times
BY CardRequests, DedupAssumption DEF Ids, Times

LEMMA NoRowType == NoRow \in Row
BY ZeroIn, Zenon DEF NoRow, Row, Ids, Times, Analysis

LEMMA IdleType == Idle \in Worker
BY DEF Idle, Worker, PC, Analysis

LEMMA RowFields ==
    ASSUME NEW v \in Row
    PROVE  /\ v.status \in {"none", "retry", "completed"} /\ v.id \in Ids /\ v.ts \in Times
           /\ v.saved \in Times /\ v.dup \in BOOLEAN /\ v.of \in Names /\ v.count \in Nat
           /\ v.ai \in Analysis
BY DEF Row, Ids, Times, Names

LEMMA WorkerFields ==
    ASSUME NEW v \in Worker
    PROVE  /\ v.pc \in PC /\ v.req \in Names /\ v.act \in {"new", "reuse", "rechain"}
           /\ v.orig \in Names /\ v.reset \in BOOLEAN /\ v.ai \in Analysis /\ v.lost \in BOOLEAN
BY DEF Worker, Names

LEMMA MakeRow ==
    ASSUME NEW st \in {"none", "retry", "completed"}, NEW id \in Ids, NEW ts \in Times,
           NEW sv \in Times, NEW d \in BOOLEAN, NEW o \in Names, NEW n \in Nat, NEW a \in Analysis
    PROVE  [status |-> st, id |-> id, ts |-> ts, saved |-> sv, dup |-> d, of |-> o, count |-> n,
            ai |-> a] \in Row
BY Zenon DEF Row, Ids, Times, Names

LEMMA CountRow ==
    ASSUME NEW v \in Row
    PROVE  /\ [v EXCEPT !.count = @ + 1] \in Row
           /\ [v EXCEPT !.count = @ + 1].count = v.count + 1
           /\ \A f \in {"status", "id", "ts", "saved", "dup", "of", "ai"} :
                [v EXCEPT !.count = @ + 1][f] = v[f]
<1>1. v.count + 1 \in Nat
  BY RowFields
<1> DEFINE n == v.count + 1
<1> HIDE DEF n
<1>2. [v EXCEPT !.count = n] \in Row
  BY <1>1, Zenon DEF Row, n
<1>3. [v EXCEPT !.count = n].count = n
  BY DEF Row
<1>4. \A f \in {"status", "id", "ts", "saved", "dup", "of", "ai"} : [v EXCEPT !.count = n][f] = v[f]
  BY DEF Row
<1> QED BY <1>2, <1>3, <1>4 DEF n

LEMMA GotoType ==
    ASSUME worker \in [Workers -> Worker], NEW w \in Workers, NEW pc \in PC, Goto(w, pc)
    PROVE  /\ worker' \in [Workers -> Worker]
           /\ worker'[w].pc = pc /\ worker'[w].req = worker[w].req
           /\ worker'[w].orig = worker[w].orig /\ worker'[w].lost = worker[w].lost
           /\ \A x \in Workers \ {w} : worker'[x] = worker[x]
<1>1. worker[w] \in Worker
  OBVIOUS
<1> DEFINE v == [worker[w] EXCEPT !.pc = pc]
<1>2. v \in Worker
  BY <1>1, Zenon DEF Worker
<1>3. /\ v.pc = pc /\ v.req = worker[w].req /\ v.orig = worker[w].orig
      /\ v.lost = worker[w].lost
  BY <1>1 DEF Worker
<1>4. worker' = [worker EXCEPT ![w] = v]
  BY DEF Goto
<1> HIDE DEF v
<1> QED BY <1>2, <1>3, <1>4

LEMMA ResolvedType ==
    ASSUME worker \in [Workers -> Worker], NEW w \in Workers, NEW pc \in PC,
           NEW act \in {"new", "reuse", "rechain"}, NEW orig \in Names, NEW reset \in BOOLEAN,
           NEW ai \in Analysis, Resolved(w, pc, act, orig, reset, ai)
    PROVE  /\ worker' \in [Workers -> Worker]
           /\ worker'[w].pc = pc /\ worker'[w].req = worker[w].req
           /\ worker'[w].orig = orig /\ worker'[w].lost = worker[w].lost
           /\ \A x \in Workers \ {w} : worker'[x] = worker[x]
<1>1. worker[w] \in Worker
  OBVIOUS
<1> DEFINE v == [worker[w] EXCEPT !.pc = pc, !.act = act, !.orig = orig, !.reset = reset, !.ai = ai]
<1>2. v \in Worker
  BY <1>1, Zenon DEF Worker, Names
<1>3. v.pc = pc /\ v.req = worker[w].req /\ v.orig = orig /\ v.lost = worker[w].lost
  BY <1>1 DEF Worker
<1>4. worker' = [worker EXCEPT ![w] = v]
  BY DEF Resolved
<1> HIDE DEF v
<1> QED BY <1>2, <1>3, <1>4

LEMMA IdledType ==
    ASSUME worker \in [Workers -> Worker], NEW w \in Workers,
           worker' = [worker EXCEPT ![w] = Idle]
    PROVE  /\ worker' \in [Workers -> Worker]
           /\ worker'[w].pc = "idle" /\ worker'[w].orig = None /\ ~ worker'[w].lost
           /\ \A x \in Workers \ {w} : worker'[x] = worker[x]
<1>1. Idle.pc = "idle" /\ Idle.orig = None /\ ~ Idle.lost
  BY DEF Idle
<1> QED BY <1>1, IdleType

LEMMA DeliverType ==
    ASSUME worker \in [Workers -> Worker], NEW w \in Workers, NEW r \in Requests, Deliver(w, r)
    PROVE  /\ worker' \in [Workers -> Worker]
           /\ worker'[w].pc = "gate" /\ worker'[w].req = r
           /\ worker'[w].orig = None /\ ~ worker'[w].lost
           /\ \A x \in Workers \ {w} : worker'[x] = worker[x]
<1> DEFINE v == [Idle EXCEPT !.pc = "gate", !.req = r]
<1>1. "gate" \in PC
  BY DEF PC
<1>2. v \in Worker
  BY <1>1, IdleType, Zenon DEF Worker
<1>3. v.pc = "gate" /\ v.req = r /\ v.orig = None /\ ~ v.lost
  BY DEF Idle
<1>4. worker' = [worker EXCEPT ![w] = v]
  BY DEF Deliver
<1> HIDE DEF v
<1> QED BY <1>2, <1>3, <1>4

LEMMA LostType ==
    ASSUME worker \in [Workers -> Worker], NEW w \in Workers, RenewalFails(w)
    PROVE  /\ worker' \in [Workers -> Worker]
           /\ worker'[w].pc = worker[w].pc /\ worker'[w].req = worker[w].req
           /\ worker'[w].orig = worker[w].orig
           /\ \A x \in Workers \ {w} : worker'[x] = worker[x]
<1>1. worker[w] \in Worker
  OBVIOUS
<1> DEFINE v == [worker[w] EXCEPT !.lost = TRUE]
<1>2. v \in Worker
  BY <1>1, Zenon DEF Worker
<1>3. v.pc = worker[w].pc /\ v.req = worker[w].req /\ v.orig = worker[w].orig
  BY <1>1 DEF Worker
<1>4. worker' = [worker EXCEPT ![w] = v]
  BY DEF RenewalFails
<1> HIDE DEF v
<1> QED BY <1>2, <1>3, <1>4

LEMMA AnalyzeType ==
    ASSUME worker \in [Workers -> Worker], NEW w \in Workers, Analyze(w)
    PROVE  /\ worker' \in [Workers -> Worker]
           /\ worker'[w].pc = "persist" /\ worker'[w].req = worker[w].req
           /\ worker'[w].orig = worker[w].orig /\ worker'[w].lost = worker[w].lost
           /\ \A x \in Workers \ {w} : worker'[x] = worker[x]
<1>1. worker[w] \in Worker
  OBVIOUS
<1>2. PICK ai \in Answers : worker' = [worker EXCEPT ![w].pc = "persist", ![w].ai = ai]
  BY DEF Analyze
<1>3. ai \in Analysis /\ "persist" \in PC
  BY DedupAssumption DEF Analysis, PC
<1> DEFINE v == [worker[w] EXCEPT !.pc = "persist", !.ai = ai]
<1>4. v \in Worker
  BY <1>1, <1>3, Zenon DEF Worker
<1>5. /\ v.pc = "persist" /\ v.req = worker[w].req /\ v.orig = worker[w].orig
      /\ v.lost = worker[w].lost
  BY <1>1 DEF Worker
<1>6. worker' = [worker EXCEPT ![w] = v]
  BY <1>2
<1> HIDE DEF v
<1> QED BY <1>4, <1>5, <1>6

LEMMA FaultType ==
    ASSUME faults \in 0 .. MaxFaults, NEW k, Fault(k)
    PROVE  faults' \in 0 .. MaxFaults /\ k \in Faults
BY DedupAssumption DEF Fault

-----------------------------------------------------------------------------
(* The save *)

LEMMA FilledType ==
    ASSUME TypeOK, NEW w \in Workers, worker[w].req \in Requests, NEW o \in Names
    PROVE  /\ Filled(w, o) \in Row
           /\ Filled(w, o).status = "completed" /\ Filled(w, o).saved = now
           /\ Filled(w, o).dup = (o # None) /\ Filled(w, o).of = o
           /\ o = None => Filled(w, o).count = 1
           /\ row[worker[w].req].status = "none" => Filled(w, o).ts = now
<1> DEFINE r == worker[w].req
           i == IF row[r].status = "none" THEN Cardinality(Rows) + 1 ELSE row[r].id
           t == IF row[r].status = "none" THEN now ELSE row[r].ts
           n == IF o # None THEN row[o].count + 1 ELSE 1
           d == o # None
           a == worker[w].ai
<1>1. row[r] \in Row /\ worker[w] \in Worker /\ now \in Times
  BY DEF TypeOK, Times
<1>2. i \in Ids
  BY <1>1, NextId, RowFields
<1>3. t \in Times /\ a \in Analysis
  BY <1>1, RowFields, WorkerFields
<1>4. n \in Nat
  <2>1. CASE o # None
    <3>1. row[o] \in Row
      BY <2>1 DEF TypeOK, Names
    <3> QED BY <2>1, <3>1, RowFields
  <2>2. CASE o = None
    BY <2>2
  <2> QED BY <2>1, <2>2
<1>5. d \in BOOLEAN
  OBVIOUS
<1>6. Filled(w, o) = [status |-> "completed", id |-> i, ts |-> t, saved |-> now, dup |-> d,
                      of |-> o, count |-> n, ai |-> a]
  BY DEF Filled
<1>7. (o = None => n = 1) /\ (row[r].status = "none" => t = now)
  OBVIOUS
<1> HIDE DEF i, t, n, a
<1>8. Filled(w, o) \in Row
  <2> HIDE DEF d
  <2> QED BY <1>1, <1>2, <1>3, <1>4, <1>5, <1>6, MakeRow
<1>9. /\ Filled(w, o).status = "completed" /\ Filled(w, o).saved = now
      /\ Filled(w, o).dup = d /\ Filled(w, o).of = o
      /\ Filled(w, o).count = n /\ Filled(w, o).ts = t
  <2> HIDE DEF d
  <2> QED BY <1>6
<1> QED BY <1>7, <1>8, <1>9

LEMMA DuplicateType ==
    ASSUME TypeOK, NEW w \in Workers, NEW o \in DuplicateOf(w)
    PROVE  o \in Names
<1>1. CASE Rivals(w) = {}
  <2>1. worker[w] \in Worker
    BY DEF TypeOK
  <2> QED BY <1>1, <2>1, WorkerFields DEF DuplicateOf, Decided, Names
<1>2. CASE Rivals(w) # {}
  <2>1. PICK r \in Latest(Rivals(w)) : o = Thread(r)
    BY <1>2 DEF DuplicateOf
  <2>2. r \in Requests
    BY DEF Latest, Rivals, Recent, Originals, Keyed
  <2>3. row[r] \in Row
    BY <2>2 DEF TypeOK
  <2> QED BY <2>1, <2>2, <2>3, RowFields DEF Thread, Names
<1> QED BY <1>1, <1>2

LEMMA SaveType ==
    ASSUME TypeOK, NEW w \in Workers, SaveWebhookData(w)
    PROVE  row' \in [Requests -> Row]
<1>1. row \in [Requests -> Row]
  BY DEF TypeOK
<1>2. CASE row' = row
  BY <1>1, <1>2
<1>3. ASSUME NEW o \in DuplicateOf(w),
             row' = [r \in Requests |->
                        IF r = worker[w].req THEN Filled(w, o)
                        ELSE IF r = o THEN [row[r] EXCEPT !.count = @ + 1]
                        ELSE row[r]]
      PROVE  row' \in [Requests -> Row]
  <2>1. o \in Names
    BY DuplicateType
  <2>2. ASSUME NEW r \in Requests PROVE row'[r] \in Row
    <3>1. CASE r = worker[w].req
      BY <1>3, <2>1, <3>1, FilledType
    <3>2. CASE r # worker[w].req /\ r = o
      BY <1>1, <1>3, <3>2, CountRow
    <3>3. CASE r # worker[w].req /\ r # o
      BY <1>1, <1>3, <3>3
    <3> QED BY <3>1, <3>2, <3>3
  <2> QED BY <1>3, <2>2
<1> QED BY <1>2, <1>3 DEF SaveWebhookData

\* A retry's row is new, has no key, and disturbs no other.
LEMMA RecordType ==
    ASSUME TypeOK, NEW w \in Workers, RecordRetry(w)
    PROVE  /\ row' \in [Requests -> Row]
           /\ \A r \in Requests :
                row'[r] = row[r] \/ (row[r].status = "none" /\ row'[r].status = "retry"
                                      /\ r = worker[w].req)
<1>1. row \in [Requests -> Row] /\ now \in 0 .. MaxTime
  BY DEF TypeOK
<1>2. PICK t \in 0 .. now :
        row' = [row EXCEPT ![worker[w].req] =
                   IF @.status = "none"
                   THEN [NoRow EXCEPT !.status = "retry", !.id = Cardinality(Rows) + 1, !.ts = t]
                   ELSE @]
  BY DEF RecordRetry
<1>3. t \in Times
  BY <1>1, DedupAssumption DEF Times
<1> DEFINE v == [NoRow EXCEPT !.status = "retry", !.id = Cardinality(Rows) + 1, !.ts = t]
<1>4. ASSUME NEW r \in Requests, row[r].status = "none" PROVE v \in Row
  <2> DEFINE i == Cardinality(Rows) + 1
  <2>1. i \in Ids
    BY <1>4, NextId
  <2> HIDE DEF i
  <2>2. [NoRow EXCEPT !.status = "retry", !.id = i, !.ts = t] \in Row
    BY <1>3, <2>1, NoRowType, Zenon DEF Row, Ids, Times
  <2> QED BY <2>2 DEF i
<1>5. v.status = "retry"
  BY DEF NoRow
<1>6. row' = [row EXCEPT ![worker[w].req] =
                 IF row[worker[w].req].status = "none" THEN v ELSE row[worker[w].req]]
  BY <1>2
<1> HIDE DEF v
<1>7. ASSUME NEW r \in Requests
      PROVE  /\ row'[r] \in Row
             /\ \/ row'[r] = row[r]
                \/ row[r].status = "none" /\ row'[r].status = "retry" /\ r = worker[w].req
  BY <1>1, <1>4, <1>5, <1>6
<1> QED BY <1>1, <1>6, <1>7

-----------------------------------------------------------------------------
(* Types *)

LEMMA TypeInit == Init => TypeOK
<1> SUFFICES ASSUME Init PROVE TypeOK
  OBVIOUS
<1>1. row \in [Requests -> Row] /\ worker \in [Workers -> Worker]
  BY NoRowType, IdleType DEF Init
<1>2. now \in 0 .. MaxTime /\ faults \in 0 .. MaxFaults /\ deliveries \in [Requests -> 0 .. MaxDeliveries]
  BY DedupAssumption DEF Init
<1>3. state \in DedupState \cup {None} /\ lock \in Workers \cup {None, Orphan} /\ silenced \in BOOLEAN
  BY DEF Init
<1> QED BY <1>1, <1>2, <1>3 DEF TypeOK

LEMMA RememberedType ==
    ASSUME TypeOK, NEW orig \in Names, NEW ai \in Analysis \cup {"pending"}, NEW reset \in BOOLEAN
    PROVE  Remembered(orig, ai, reset) \in DedupState /\ Remembered(orig, ai, reset).orig = orig
<1> DEFINE f == IF state # None /\ ~ reset THEN state.first ELSE now
<1>1. now \in Times /\ f \in Times
  BY DEF TypeOK, DedupState, Times
<1>2. Remembered(orig, ai, reset) = [orig |-> orig, first |-> f, last |-> now, ai |-> ai]
  BY DEF Remembered
<1> HIDE DEF f
<1>3. [orig |-> orig, first |-> f, last |-> now, ai |-> ai] \in DedupState
  BY <1>1, Zenon DEF DedupState, Times, Names
<1> QED BY <1>2, <1>3

LEMMA RememberType ==
    ASSUME TypeOK, NEW orig \in Names, NEW ai \in Analysis \cup {"pending"}, NEW reset \in BOOLEAN,
           RememberDedupState(orig, ai, reset)
    PROVE  /\ state' \in DedupState \cup {None} /\ faults' \in 0 .. MaxFaults
           /\ state' = state \/ (state' \in DedupState /\ state'.orig = orig)
BY RememberedType, FaultType DEF RememberDedupState, TypeOK

\* What the Redis read decides.
LEMMA ReadType ==
    ASSUME TypeOK, NEW w \in Workers, ReadState(w)
    PROVE  /\ worker' \in [Workers -> Worker] /\ faults' \in 0 .. MaxFaults
           /\ worker'[w].pc \in {"persist", "fallback"} /\ worker'[w].req = worker[w].req
           /\ worker'[w].orig = None \/ (state # None /\ worker'[w].orig = state.orig)
           /\ worker'[w].lost = worker[w].lost
           /\ \A x \in Workers \ {w} : worker'[x] = worker[x]
<1>t. /\ worker \in [Workers -> Worker] /\ faults \in 0 .. MaxFaults
      /\ state \in DedupState \cup {None}
  BY DEF TypeOK
<1>1. PICK s \in {state, None} :
        /\ \/ s = state /\ UNCHANGED faults
           \/ s # state /\ Fault("read")
        /\ IF s # None /\ Reusable(s.ai) /\ (Rechains(s) \/ now - s.last <= LiveWindow)
           THEN IF Rechains(s)
                THEN Resolved(w, "persist", "rechain", s.orig, TRUE, s.ai)
                ELSE Resolved(w, "persist", "reuse", s.orig, FALSE, s.ai)
           ELSE Resolved(w, "fallback", "new", None,
                         s # None /\ now - s.last > LiveWindow, "unknown")
  BY DEF ReadState
<1>2. faults' \in 0 .. MaxFaults
  BY <1>1, <1>t, FaultType
<1>3. {"persist", "fallback"} \subseteq PC /\ "unknown" \in Analysis /\ None \in Names
  BY DEF PC, Analysis, Names
<1>4. CASE s # None /\ Reusable(s.ai) /\ (Rechains(s) \/ now - s.last <= LiveWindow)
  <2>1. s = state /\ s.orig \in Names /\ s.ai \in Analysis
    BY <1>1, <1>4, <1>t DEF DedupState, Reusable, Analysis, Names
  <2>2. \/ Resolved(w, "persist", "rechain", s.orig, TRUE, s.ai)
        \/ Resolved(w, "persist", "reuse", s.orig, FALSE, s.ai)
    BY <1>1, <1>4
  <2>3. PICK act \in {"reuse", "rechain"}, reset \in BOOLEAN :
            Resolved(w, "persist", act, s.orig, reset, s.ai)
    BY <2>2
  <2>4. /\ worker' \in [Workers -> Worker]
        /\ worker'[w].pc = "persist" /\ worker'[w].req = worker[w].req
        /\ worker'[w].orig = s.orig /\ worker'[w].lost = worker[w].lost
        /\ \A x \in Workers \ {w} : worker'[x] = worker[x]
    BY <1>3, <1>t, <2>1, <2>3, ResolvedType
  <2> QED BY <1>2, <1>4, <2>1, <2>4
<1>5. CASE ~ (s # None /\ Reusable(s.ai) /\ (Rechains(s) \/ now - s.last <= LiveWindow))
  <2> DEFINE reset == s # None /\ now - s.last > LiveWindow
  <2>1. reset \in BOOLEAN /\ Resolved(w, "fallback", "new", None, reset, "unknown")
    BY <1>1, <1>5
  <2> HIDE DEF reset
  <2> QED BY <1>2, <1>3, <1>t, <2>1, ResolvedType
<1> QED BY <1>4, <1>5

\* What the database read decides.
LEMMA FallbackType ==
    ASSUME TypeOK, NEW w \in Workers, FallbackRead(w)
    PROVE  /\ worker' \in [Workers -> Worker]
           /\ worker'[w].pc \in {"persist", "silence"} /\ worker'[w].req = worker[w].req
           /\ worker'[w].orig = worker[w].orig \/ worker'[w].orig \in Keyed
           /\ worker'[w].lost = worker[w].lost
           /\ \A x \in Workers \ {w} : worker'[x] = worker[x]
<1>t. worker \in [Workers -> Worker] /\ row \in [Requests -> Row]
  BY DEF TypeOK
<1>1. {"persist", "silence"} \subseteq PC
  BY DEF PC
<1>2. CASE Goto(w, "silence")
  BY <1>1, <1>2, <1>t, GotoType
<1>3. ASSUME NEW o \in Keyed, Resolved(w, "persist", "reuse", o, FALSE, row[o].ai)
      PROVE  /\ worker' \in [Workers -> Worker]
             /\ worker'[w].pc = "persist" /\ worker'[w].req = worker[w].req
             /\ worker'[w].orig = o /\ worker'[w].lost = worker[w].lost
             /\ \A x \in Workers \ {w} : worker'[x] = worker[x]
  <2>1. o \in Names /\ row[o] \in Row
    BY <1>t DEF Keyed, Names
  <2>2. row[o].ai \in Analysis
    BY <2>1, RowFields
  <2> QED BY <1>1, <1>3, <1>t, <2>1, <2>2, ResolvedType
<1>4. \/ Goto(w, "silence")
      \/ \E o \in Keyed : Resolved(w, "persist", "reuse", o, FALSE, row[o].ai)
  BY DEF FallbackRead, Latest, Recent, Originals
<1> QED BY <1>2, <1>3, <1>4

LEMMA TypeNext == TypeOK /\ [Next]_vars => TypeOK'
<1> SUFFICES ASSUME TypeOK, [Next]_vars PROVE TypeOK'
  OBVIOUS
<1>t. /\ now \in 0 .. MaxTime /\ row \in [Requests -> Row] /\ state \in DedupState \cup {None}
      /\ lock \in Workers \cup {None, Orphan} /\ worker \in [Workers -> Worker]
      /\ silenced \in BOOLEAN /\ deliveries \in [Requests -> 0 .. MaxDeliveries]
      /\ faults \in 0 .. MaxFaults
  BY DEF TypeOK
<1>g. ( /\ now' \in 0 .. MaxTime /\ row' \in [Requests -> Row] /\ state' \in DedupState \cup {None}
        /\ lock' \in Workers \cup {None, Orphan} /\ worker' \in [Workers -> Worker]
        /\ silenced' \in BOOLEAN /\ deliveries' \in [Requests -> 0 .. MaxDeliveries]
        /\ faults' \in 0 .. MaxFaults ) => TypeOK'
  BY DEF TypeOK
<1>1. ASSUME Tick PROVE TypeOK'
  <2>1. now' \in 0 .. MaxTime
    BY <1>1, <1>t, DedupAssumption DEF Tick
  <2>2. state' \in DedupState \cup {None}
    BY <1>1, <1>t DEF Tick
  <2> QED BY <1>1, <1>t, <1>g, <2>1, <2>2 DEF Tick
<1>2. ASSUME EndSilence PROVE TypeOK'
  BY <1>2, <1>t, <1>g DEF EndSilence
<1>3. ASSUME LockExpires PROVE TypeOK'
  <2>1. faults' \in 0 .. MaxFaults
    BY <1>3, <1>t, FaultType DEF LockExpires
  <2> QED BY <1>3, <1>t, <1>g, <2>1 DEF LockExpires
<1>4. ASSUME NEW w \in Workers, NEW r \in Requests, Deliver(w, r) PROVE TypeOK'
  <2>1. worker' \in [Workers -> Worker]
    BY <1>4, <1>t, DeliverType
  <2>2. deliveries' \in [Requests -> 0 .. MaxDeliveries]
    BY <1>4, <1>t, DedupAssumption DEF Deliver
  <2> QED BY <1>4, <1>t, <1>g, <2>1, <2>2 DEF Deliver
<1>5. ASSUME NEW w \in Workers, EnterGate(w) \/ CheckLock(w) PROVE TypeOK'
  <2>1. worker' \in [Workers -> Worker]
    BY <1>5, <1>t, GotoType DEF EnterGate, CheckLock, PC
  <2> QED BY <1>5, <1>t, <1>g, <2>1 DEF EnterGate, CheckLock
<1>6. ASSUME NEW w \in Workers, GateUnavailable(w) \/ Fail(w) \/ CheckSilence(w) PROVE TypeOK'
  <2>1. worker' \in [Workers -> Worker]
    BY <1>6, <1>t, GotoType DEF GateUnavailable, Fail, CheckSilence, PC
  <2>2. faults' \in 0 .. MaxFaults
    BY <1>6, <1>t, FaultType DEF GateUnavailable, Fail, CheckSilence
  <2> QED BY <1>6, <1>t, <1>g, <2>1, <2>2 DEF GateUnavailable, Fail, CheckSilence
<1>7. ASSUME NEW w \in Workers, RenewalFails(w) PROVE TypeOK'
  <2>1. worker' \in [Workers -> Worker]
    BY <1>7, <1>t, LostType
  <2>2. faults' \in 0 .. MaxFaults
    BY <1>7, <1>t, FaultType DEF RenewalFails
  <2> QED BY <1>7, <1>t, <1>g, <2>1, <2>2 DEF RenewalFails
<1>8. ASSUME NEW w \in Workers, ReadState(w) PROVE TypeOK'
  BY <1>8, <1>t, <1>g, ReadType DEF ReadState
<1>9. ASSUME NEW w \in Workers, FallbackRead(w) PROVE TypeOK'
  BY <1>9, <1>t, <1>g, FallbackType DEF FallbackRead
<1>10. ASSUME NEW w \in Workers, Placeholder(w) \/ Remember(w) PROVE TypeOK'
  <2>1. worker' \in [Workers -> Worker]
    BY <1>10, <1>t, GotoType DEF Placeholder, Remember, PC
  <2>2. worker[w].reset \in BOOLEAN /\ worker[w].ai \in Analysis /\ worker[w].req \in Names
    BY <1>t, WorkerFields
  <2>3. state' \in DedupState \cup {None} /\ faults' \in 0 .. MaxFaults
    BY <1>10, <2>2, RememberType DEF Placeholder, Remember, Names
  <2> QED BY <1>10, <1>t, <1>g, <2>1, <2>3 DEF Placeholder, Remember
<1>11. ASSUME NEW w \in Workers, Analyze(w) PROVE TypeOK'
  BY <1>11, <1>t, <1>g, AnalyzeType DEF Analyze
<1>12. ASSUME NEW w \in Workers, Save(w) PROVE TypeOK'
  <2>1. worker' \in [Workers -> Worker]
    BY <1>12, <1>t, GotoType DEF Save, PC
  <2>2. row' \in [Requests -> Row]
    BY <1>12, SaveType DEF Save
  <2> QED BY <1>12, <1>t, <1>g, <2>1, <2>2 DEF Save
<1>13. ASSUME NEW w \in Workers, Suppress(w) \/ Leave(w) \/ Crash(w) PROVE TypeOK'
  <2>1. worker' \in [Workers -> Worker]
    BY <1>13, <1>t, IdledType DEF Suppress, Leave, Crash
  <2>2. faults' \in 0 .. MaxFaults
    BY <1>13, <1>t, FaultType DEF Suppress, Leave, Release, Crash
  <2>3. lock' \in Workers \cup {None, Orphan}
    BY <1>13, <1>t DEF Suppress, Leave, Release, Crash
  <2> QED BY <1>13, <1>t, <1>g, <2>1, <2>2, <2>3 DEF Suppress, Leave, Crash
<1>14. ASSUME NEW w \in Workers, Unwind(w) PROVE TypeOK'
  <2>1. worker' \in [Workers -> Worker]
    BY <1>14, <1>t, GotoType DEF Unwind, PC
  <2>2. lock' \in Workers \cup {None, Orphan} /\ faults' \in 0 .. MaxFaults
    BY <1>14, <1>t, FaultType DEF Unwind, Release
  <2> QED BY <1>14, <1>t, <1>g, <2>1, <2>2 DEF Unwind
<1>15. ASSUME NEW w \in Workers, RecordRetry(w) PROVE TypeOK'
  <2>1. worker' \in [Workers -> Worker]
    BY <1>15, <1>t, IdledType DEF RecordRetry
  <2>2. row' \in [Requests -> Row]
    BY <1>15, RecordType
  <2> QED BY <1>15, <1>t, <1>g, <2>1, <2>2 DEF RecordRetry
<1>16. ASSUME UNCHANGED vars PROVE TypeOK'
  BY <1>16, <1>t, <1>g DEF vars
<1> QED BY <1>1, <1>2, <1>3, <1>4, <1>5, <1>6, <1>7, <1>8, <1>9, <1>10, <1>11, <1>12, <1>13, <1>14,
        <1>15, <1>16 DEF Next

\* Every variable keeps its type, through retries and redeliveries; no row's id
\* exceeds the number of requests, because a retry fills the row it has.
THEOREM DedupTypeCorrect == Spec => []TypeOK
BY TypeInit, TypeNext, PTL DEF Spec

-----------------------------------------------------------------------------
(* Who names whom *)

KeyedOrNone == Keyed \cup {None}

\* Every name a worker, Redis or a duplicate holds is that of a completed row.
WorkersLinked ==
    \A w \in Workers :
        /\ worker[w].pc # "idle" => worker[w].req \in Requests
        /\ worker[w].pc = "remember" => worker[w].req \in Keyed
        /\ worker[w].orig \in KeyedOrNone

StateLinked == state # None => state.orig \in KeyedOrNone

RowsLinked ==
    \A r \in Keyed : row[r].dup = (row[r].of # None) /\ row[r].of \in KeyedOrNone

\* What is about the rows alone.
RowsInv == RowsLinked /\ RecentOriginalWins /\ CountMatches

IInv == TypeOK /\ WorkersLinked /\ StateLinked /\ RowsInv

LEMMA DuplicateKeyed ==
    ASSUME IInv, NEW w \in Workers, NEW o \in DuplicateOf(w)
    PROVE  o \in KeyedOrNone
<1>1. CASE Rivals(w) = {}
  BY <1>1 DEF DuplicateOf, Decided, IInv, WorkersLinked, KeyedOrNone
<1>2. CASE Rivals(w) # {}
  <2>1. PICK r \in Latest(Rivals(w)) : o = Thread(r)
    BY <1>2 DEF DuplicateOf
  <2>2. r \in Keyed
    BY DEF Latest, Rivals, Recent, Originals
  <2> QED BY <2>1, <2>2 DEF Thread, IInv, RowsInv, RowsLinked, KeyedOrNone
<1> QED BY <1>1, <1>2

\* A save makes an original only when none is left in the window.
LEMMA NoneOnlyAlone ==
    ASSUME IInv, NEW w \in Workers, None \in DuplicateOf(w), NEW q \in Originals
    PROVE  now > row[q].ts + Window
<1>1. Rivals(w) = {}
  <2> SUFFICES ASSUME Rivals(w) # {} PROVE FALSE
    OBVIOUS
  <2>1. PICK r \in Latest(Rivals(w)) : None = Thread(r)
    BY DEF DuplicateOf
  <2>2. r \in Keyed /\ r \in Requests
    BY DEF Latest, Rivals, Recent, Originals, Keyed
  <2> QED BY <2>1, <2>2, DedupAssumption DEF Thread, IInv, RowsInv, RowsLinked
<1>2. q \in Keyed /\ q \in Requests
  BY DEF Originals, Keyed
<1>3. ~ (now - row[q].ts <= Window)
  BY <1>1, <1>2 DEF Rivals, Recent
<1>4. row[q] \in Row /\ now \in Nat
  BY <1>2, DedupAssumption DEF IInv, TypeOK
<1>5. row[q].ts \in Nat /\ Window \in Nat
  BY <1>4, RowFields, DedupAssumption DEF Times
<1> QED BY <1>3, <1>4, <1>5

\* A step that completes no row and leaves the completed ones alone.
LEMMA RowsKept ==
    ASSUME IInv,
           \A r \in Requests :
              row'[r] = row[r] \/ (row[r].status # "completed" /\ row'[r].status # "completed")
    PROVE  RowsInv' /\ Keyed' = Keyed
<1>1. Keyed' = Keyed /\ \A r \in Keyed : row'[r] = row[r]
  BY DEF Keyed
<1>2. Originals' = Originals
  BY <1>1 DEF Originals
<1>3. Originals \subseteq Keyed
  BY DEF Originals
<1>4. RecentOriginalWins'
  BY <1>1, <1>2, <1>3 DEF IInv, RowsInv, RecentOriginalWins
<1>5. CountMatches'
  <2>1. ASSUME NEW r PROVE {q \in Keyed' : row'[q].of = r} = {q \in Keyed : row[q].of = r}
    BY <1>1
  <2> QED BY <1>1, <1>2, <1>3, <2>1 DEF IInv, RowsInv, CountMatches
<1> QED BY <1>1, <1>4, <1>5 DEF IInv, RowsInv, RowsLinked, KeyedOrNone

LEMMA SaveKeepsRows ==
    ASSUME IInv, NEW w \in Workers, worker[w].req \in Requests,
           SaveWebhookData(w)
    PROVE  RowsInv' /\ Keyed' = Keyed \cup {worker[w].req}
<1> DEFINE m == worker[w].req
<1>t. row \in [Requests -> Row] /\ row' \in [Requests -> Row] /\ now \in Nat /\ m \in Requests
  BY SaveType, DedupAssumption DEF IInv, TypeOK
<1>1. CASE row' = row /\ row[m].status = "completed"
  BY <1>1, RowsKept DEF Keyed
<1>2. ASSUME row[m].status # "completed",
             NEW o \in DuplicateOf(w), o \in Names,
             row'[m] = Filled(w, o),
             \A r \in Requests \ {m} :
                row'[r] = IF r = o THEN [row[r] EXCEPT !.count = @ + 1] ELSE row[r]
      PROVE  RowsInv' /\ Keyed' = Keyed \cup {m}
  <2> HIDE DEF m
  <2>f. /\ row'[m].status = "completed" /\ row'[m].saved = now
        /\ row'[m].dup = (o # None) /\ row'[m].of = o
        /\ o = None => row'[m].count = 1
    BY <1>2, FilledType DEF m, IInv
  <2>o. o \in KeyedOrNone /\ o # m /\ m \notin Keyed
    BY <1>2, <1>t, DuplicateKeyed, DedupAssumption DEF KeyedOrNone, Keyed
  <2>1. ASSUME NEW r \in Requests \ {m}
        PROVE  /\ row'[r].status = row[r].status /\ row'[r].ts = row[r].ts
               /\ row'[r].saved = row[r].saved /\ row'[r].dup = row[r].dup
               /\ row'[r].of = row[r].of
               /\ row'[r].count = IF r = o THEN row[r].count + 1 ELSE row[r].count
    <3>1. row[r] \in Row
      BY <1>t
    <3> DEFINE v == [row[r] EXCEPT !.count = @ + 1]
    <3>2. /\ v.status = row[r].status /\ v.ts = row[r].ts /\ v.saved = row[r].saved
          /\ v.dup = row[r].dup /\ v.of = row[r].of /\ v.count = row[r].count + 1
      BY <3>1, CountRow
    <3>3. row'[r] = IF r = o THEN v ELSE row[r]
      BY <1>2
    <3> HIDE DEF v
    <3> QED BY <3>2, <3>3
  <2>2. Keyed' = Keyed \cup {m}
    BY <1>t, <2>f, <2>1 DEF Keyed
  <2>3. Originals' = IF o = None THEN Originals \cup {m} ELSE Originals
    BY <1>t, <2>f, <2>o, <2>1, <2>2 DEF Originals, Keyed
  <2>4. Originals \subseteq Keyed /\ Keyed \subseteq Requests
    BY DEF Originals, Keyed
  <2>5. RowsLinked'
    BY <2>f, <2>o, <2>1, <2>2, <2>4 DEF IInv, RowsInv, RowsLinked, KeyedOrNone
  <2>6. RecentOriginalWins'
    <3> SUFFICES ASSUME NEW r \in Originals', NEW q \in Originals', r # q
                 PROVE  row'[r].saved > row'[q].ts + Window \/ row'[q].saved > row'[r].ts + Window
      BY DEF RecentOriginalWins
    <3>1. CASE r \in Originals /\ q \in Originals
      BY <3>1, <2>o, <2>1, <2>4 DEF IInv, RowsInv, RecentOriginalWins
    <3>2. ASSUME o = None, NEW x \in Originals PROVE row'[m].saved > row'[x].ts + Window
      <4>1. row'[x].ts = row[x].ts
        BY <2>o, <2>1, <2>4
      <4> QED BY <3>2, <4>1, <2>f, <1>2, NoneOnlyAlone
    <3> QED BY <3>1, <3>2, <2>3
  <2>7. CountMatches'
    <3> SUFFICES ASSUME NEW r \in Originals'
                 PROVE  row'[r].count = 1 + Cardinality({q \in Keyed' : row'[q].of = r})
      BY DEF CountMatches
    <3> DEFINE Old == {q \in Keyed : row[q].of = r}
               New == {q \in Keyed' : row'[q].of = r}
    <3>1. r \in Requests /\ r # None
      BY <2>3, <2>4, <1>t, DedupAssumption
    <3>2. CASE r = m
      <4>1. o = None
        BY <3>2, <2>o, <2>3, <2>4
      <4>2. New = {}
        BY <3>1, <3>2, <4>1, <2>f, <2>o, <2>1, <2>2, <2>4, DedupAssumption DEF IInv, RowsInv, RowsLinked, KeyedOrNone
      <4> HIDE DEF New
      <4>3. Cardinality(New) = 0 /\ row'[r].count = 1
        BY <3>2, <4>1, <4>2, <2>f, FS_EmptySet
      <4>4. row'[r].count = 1 + Cardinality(New)
        BY <4>3
      <4> QED BY <4>4 DEF New
    <3>3. CASE r # m
      <4>1. r \in Originals /\ row[r].count = 1 + Cardinality(Old)
        BY <3>3, <2>3 DEF IInv, RowsInv, CountMatches
      <4>2. New = IF r = o THEN Old \cup {m} ELSE Old
        BY <3>3, <2>f, <2>o, <2>1, <2>2, <2>4
      <4>3. IsFiniteSet(Old) /\ m \notin Old
        BY <2>o, <2>4, DedupAssumption, FS_Subset
      <4>4. Cardinality(Old) \in Nat /\ Cardinality(Old \cup {m}) = Cardinality(Old) + 1
        BY <4>3, FS_CardinalityType, FS_AddElement
      <4>5. row'[r].count = IF r = o THEN row[r].count + 1 ELSE row[r].count
        BY <3>1, <3>3, <2>1
      <4> HIDE DEF Old, New
      <4>6. Cardinality(New) = IF r = o THEN Cardinality(Old) + 1 ELSE Cardinality(Old)
        BY <4>2, <4>4
      <4>7. row'[r].count = 1 + Cardinality(New)
        BY <4>1, <4>4, <4>5, <4>6
      <4> QED BY <4>7 DEF New
    <3> QED BY <3>2, <3>3
  <2> QED BY <2>2, <2>5, <2>6, <2>7 DEF RowsInv
<1>3. \/ row' = row /\ row[m].status = "completed"
      \/ row[m].status # "completed" /\ SaveWebhookData(w)
  BY DEF SaveWebhookData
<1>4. CASE row[m].status # "completed"
  <2>1. \E o \in DuplicateOf(w) :
          /\ o \in Names
          /\ row'[m] = Filled(w, o)
          /\ \A r \in Requests \ {m} :
                row'[r] = IF r = o THEN [row[r] EXCEPT !.count = @ + 1] ELSE row[r]
    BY <1>4, <1>t, DuplicateType DEF IInv, SaveWebhookData
  <2> QED BY <2>1, <1>2, <1>4
<1> QED BY <1>1, <1>3, <1>4

\* A step of one worker.
LEMMA WorkerStep ==
    ASSUME IInv, NEW w \in Workers, Keyed \subseteq Keyed',
           \A x \in Workers \ {w} : worker'[x] = worker[x],
           worker'[w].pc = "idle" \/ worker'[w].req \in Requests,
           worker'[w].pc = "remember" => worker'[w].req \in Keyed',
           worker'[w].orig \in KeyedOrNone'
    PROVE  WorkersLinked'
BY DEF IInv, WorkersLinked, KeyedOrNone

LEMMA LinkedNext == IInv /\ [Next]_vars => WorkersLinked' /\ StateLinked' /\ RowsInv'
<1> SUFFICES ASSUME IInv, [Next]_vars PROVE WorkersLinked' /\ StateLinked' /\ RowsInv'
  OBVIOUS
<1>t. TypeOK /\ worker \in [Workers -> Worker] /\ WorkersLinked /\ StateLinked
  BY DEF IInv, TypeOK
\* Steps that do not touch the rows.
<1>k. ASSUME row' = row
      PROVE  RowsInv' /\ Keyed' = Keyed /\ KeyedOrNone' = KeyedOrNone
  BY <1>k, RowsKept DEF KeyedOrNone
<1>s. ASSUME row' = row, state' = state PROVE StateLinked'
  BY <1>s, <1>k, <1>t DEF StateLinked
<1>w. ASSUME row' = row, worker' = worker PROVE WorkersLinked'
  BY <1>w, <1>k, <1>t DEF WorkersLinked
\* A worker that moves on, not to "remember".
<1>p. ASSUME NEW w \in Workers, NEW pc \in PC \ {"remember"}, Goto(w, pc), worker[w].pc # "idle",
             row' = row
      PROVE  WorkersLinked'
  BY <1>p, <1>k, <1>t, GotoType, WorkerStep DEF WorkersLinked
<1>1. ASSUME Tick \/ EndSilence \/ LockExpires
      PROVE  WorkersLinked' /\ StateLinked' /\ RowsInv'
  <2>1. row' = row /\ worker' = worker /\ (state' = state \/ state' = None)
    BY <1>1 DEF Tick, EndSilence, LockExpires
  <2> QED BY <2>1, <1>k, <1>w, <1>t DEF StateLinked
<1>2. ASSUME NEW w \in Workers, NEW r \in Requests, Deliver(w, r)
      PROVE  WorkersLinked' /\ StateLinked' /\ RowsInv'
  <2>1. row' = row /\ state' = state
    BY <1>2 DEF Deliver
  <2>2. WorkersLinked'
    BY <1>2, <2>1, <1>k, <1>t, DeliverType, WorkerStep DEF KeyedOrNone
  <2> QED BY <2>1, <2>2, <1>k, <1>s
<1>3. ASSUME NEW w \in Workers,
             EnterGate(w) \/ GateUnavailable(w) \/ CheckSilence(w) \/ CheckLock(w) \/ Fail(w)
               \/ Unwind(w)
      PROVE  WorkersLinked' /\ StateLinked' /\ RowsInv'
  <2>1. row' = row /\ state' = state /\ worker[w].pc # "idle"
    BY <1>3 DEF EnterGate, GateUnavailable, CheckSilence, CheckLock, Fail, Unwind, InGate
  <2>2. \E pc \in PC \ {"remember"} : Goto(w, pc)
    BY <1>3 DEF EnterGate, GateUnavailable, CheckSilence, CheckLock, Fail, Unwind, PC
  <2> QED BY <2>1, <2>2, <1>k, <1>s, <1>p
<1>4. ASSUME NEW w \in Workers, RenewalFails(w)
      PROVE  WorkersLinked' /\ StateLinked' /\ RowsInv'
  <2>1. row' = row /\ state' = state
    BY <1>4 DEF RenewalFails
  <2>2. WorkersLinked'
    BY <1>4, <2>1, <1>k, <1>t, LostType, WorkerStep DEF WorkersLinked
  <2> QED BY <2>1, <2>2, <1>k, <1>s
<1>5. ASSUME NEW w \in Workers, ReadState(w)
      PROVE  WorkersLinked' /\ StateLinked' /\ RowsInv'
  <2>1. row' = row /\ state' = state /\ worker[w].pc # "idle"
    BY <1>5 DEF ReadState
  <2>2. worker'[w].orig \in KeyedOrNone
    BY <1>5, <1>t, ReadType DEF StateLinked, KeyedOrNone
  <2>3. WorkersLinked'
    BY <1>5, <2>1, <2>2, <1>k, <1>t, ReadType, WorkerStep DEF WorkersLinked
  <2> QED BY <2>1, <2>3, <1>k, <1>s
<1>6. ASSUME NEW w \in Workers, FallbackRead(w)
      PROVE  WorkersLinked' /\ StateLinked' /\ RowsInv'
  <2>1. row' = row /\ state' = state /\ worker[w].pc # "idle"
    BY <1>6 DEF FallbackRead
  <2>2. worker'[w].orig \in KeyedOrNone
    BY <1>6, <1>t, FallbackType DEF WorkersLinked, KeyedOrNone
  <2>3. WorkersLinked'
    BY <1>6, <2>1, <2>2, <1>k, <1>t, FallbackType, WorkerStep DEF WorkersLinked
  <2> QED BY <2>1, <2>3, <1>k, <1>s
<1>7. ASSUME NEW w \in Workers, Placeholder(w) \/ Remember(w)
      PROVE  WorkersLinked' /\ StateLinked' /\ RowsInv'
  <2>1. row' = row /\ worker[w].pc # "idle"
    BY <1>7 DEF Placeholder, Remember
  <2>2. \E pc \in PC \ {"remember"} : Goto(w, pc)
    BY <1>7 DEF Placeholder, Remember, PC
  <2>3. worker[w].reset \in BOOLEAN /\ worker[w].ai \in Analysis
    BY <1>t, WorkerFields
  <2>4. PICK orig \in KeyedOrNone, ai \in Analysis \cup {"pending"} :
            RememberDedupState(orig, ai, worker[w].reset)
    BY <1>7, <1>t, <2>3 DEF Placeholder, Remember, WorkersLinked, KeyedOrNone
  <2>5. orig \in Names
    BY DEF KeyedOrNone, Keyed, Names
  <2>6. state' = state \/ state'.orig = orig
    BY <1>t, <2>3, <2>4, <2>5, RememberType
  <2>7. StateLinked'
    BY <2>1, <2>6, <1>k, <1>t DEF StateLinked
  <2> QED BY <2>1, <2>2, <2>7, <1>k, <1>p
<1>8. ASSUME NEW w \in Workers, Analyze(w)
      PROVE  WorkersLinked' /\ StateLinked' /\ RowsInv'
  <2>1. row' = row /\ state' = state /\ worker[w].pc # "idle"
    BY <1>8 DEF Analyze
  <2>2. WorkersLinked'
    BY <1>8, <2>1, <1>k, <1>t, AnalyzeType, WorkerStep DEF WorkersLinked
  <2> QED BY <2>1, <2>2, <1>k, <1>s
<1>9. ASSUME NEW w \in Workers, Save(w)
      PROVE  WorkersLinked' /\ StateLinked' /\ RowsInv'
  <2>1. worker[w].req \in Requests /\ state' = state /\ Goto(w, "remember") /\ "remember" \in PC
    BY <1>9, <1>t DEF Save, WorkersLinked, PC
  <2>2. RowsInv' /\ Keyed' = Keyed \cup {worker[w].req}
    BY <1>9, <2>1, SaveKeepsRows DEF Save
  <2>3. StateLinked'
    BY <2>1, <2>2, <1>t DEF StateLinked, KeyedOrNone
  <2>4. worker'[w].orig \in KeyedOrNone'
    BY <2>1, <2>2, <1>t, GotoType DEF WorkersLinked, KeyedOrNone
  <2>5. WorkersLinked'
    BY <2>1, <2>2, <2>4, <1>t, GotoType, WorkerStep
  <2> QED BY <2>2, <2>3, <2>5
<1>10. ASSUME NEW w \in Workers, Suppress(w) \/ Leave(w) \/ Crash(w)
      PROVE  WorkersLinked' /\ StateLinked' /\ RowsInv'
  <2>1. row' = row /\ state' = state /\ worker' = [worker EXCEPT ![w] = Idle]
    BY <1>10 DEF Suppress, Leave, Crash
  <2>2. WorkersLinked'
    BY <2>1, <1>k, <1>t, IdledType, WorkerStep DEF KeyedOrNone
  <2> QED BY <2>1, <2>2, <1>k, <1>s
<1>11. ASSUME NEW w \in Workers, RecordRetry(w)
      PROVE  WorkersLinked' /\ StateLinked' /\ RowsInv'
  <2>1. state' = state /\ worker' = [worker EXCEPT ![w] = Idle]
    BY <1>11 DEF RecordRetry
  <2>2. RowsInv' /\ Keyed' = Keyed
    BY <1>11, <1>t, RecordType, RowsKept
  <2>3. WorkersLinked'
    BY <2>1, <2>2, <1>t, IdledType, WorkerStep DEF KeyedOrNone
  <2>4. StateLinked'
    BY <2>1, <2>2, <1>t DEF StateLinked, KeyedOrNone
  <2> QED BY <2>2, <2>3, <2>4
<1>12. ASSUME UNCHANGED vars
      PROVE  WorkersLinked' /\ StateLinked' /\ RowsInv'
  BY <1>12, <1>k, <1>s, <1>w DEF vars
<1> QED BY <1>1, <1>2, <1>3, <1>4, <1>5, <1>6, <1>7, <1>8, <1>9, <1>10, <1>11, <1>12 DEF Next

LEMMA IInvInit == Init => IInv
<1> SUFFICES ASSUME Init PROVE IInv
  OBVIOUS
<1>1. TypeOK
  BY TypeInit
<1>2. Keyed = {} /\ Originals = {}
  BY DEF Init, NoRow, Keyed, Originals
<1>3. WorkersLinked /\ StateLinked
  BY DEF Init, Idle, WorkersLinked, StateLinked, KeyedOrNone
<1> QED BY <1>1, <1>2, <1>3 DEF IInv, RowsInv, RowsLinked, RecentOriginalWins, CountMatches

LEMMA IInvNext == IInv /\ [Next]_vars => IInv'
BY TypeNext, LinkedNext DEF IInv

\* Whatever fails and whoever holds the gate's lock, the recheck under the
\* advisory lock lets a second original in only when the first one's timestamp
\* has left the window: for any number of workers, requests and deliveries, any
\* windows (the runtime override too) and any faults.
THEOREM RecheckProtects == Spec => []RecentOriginalWins
<1>1. IInv => RecentOriginalWins
  BY DEF IInv, RowsInv
<1> QED BY <1>1, IInvInit, IInvNext, PTL DEF Spec

\* An original's duplicate_count is exact under the same hypotheses: none.  A
\* request is counted once however often it is delivered, retried or crashes
\* between the commit and the Redis write.
THEOREM CountIsExact == Spec => []CountMatches
<1>1. IInv => CountMatches
  BY DEF IInv, RowsInv
<1> QED BY <1>1, IInvInit, IInvNext, PTL DEF Spec

-----------------------------------------------------------------------------
(* One original per window *)

\* Faults that neither take the lock from its holder nor send a request back for
\* a retry.
QuietFaults == Faults \subseteq {"crash", "read", "write"}

\* The gate is held by the worker inside it, and nobody is on the way to a retry.
Gated ==
    \A w \in Workers :
        /\ worker[w].pc \in InGate => lock = w
        /\ ~ worker[w].lost
        /\ worker[w].pc \notin {"failing", "failed"}

\* A completed row is dated with its commit.
Dated ==
    \A r \in Requests :
        /\ row[r].status # "retry"
        /\ row[r].status = "completed" => row[r].ts = row[r].saved

QInv == IInv /\ Gated /\ Dated

LEMMA QuietFault ==
    ASSUME QuietFaults
    PROVE  ~ Fault("lapse") /\ ~ Fault("renew") /\ ~ Fault("gate") /\ ~ Fault("process")
BY DEF QuietFaults, Fault

LEMMA GatedNext ==
    ASSUME QuietFaults, QInv, [Next]_vars
    PROVE  Gated'
<1>t. TypeOK /\ worker \in [Workers -> Worker] /\ Gated
  BY DEF QInv, IInv, TypeOK
<1>a. None \notin Workers /\ Orphan \notin Workers /\ Orphan # None
  BY DedupAssumption
\* A worker moves on inside the gate.
<1>p. ASSUME NEW w \in Workers, worker[w].pc \in InGate, lock' = lock,
             \A x \in Workers \ {w} : worker'[x] = worker[x],
             worker'[w].lost = worker[w].lost, worker'[w].pc \notin {"failing", "failed"}
      PROVE  Gated'
  BY <1>p, <1>t DEF Gated
\* A worker that is back outside leaves no lock of its own behind.
<1>i. ASSUME NEW w \in Workers, worker' = [worker EXCEPT ![w] = Idle],
             lock' = lock \/ lock = w
      PROVE  Gated'
  <2>1. /\ worker'[w].pc = "idle" /\ ~ worker'[w].lost
        /\ \A x \in Workers \ {w} : worker'[x] = worker[x]
    BY <1>i, <1>t, IdledType
  <2> QED BY <2>1, <1>i, <1>t DEF Gated, InGate
<1>1. ASSUME Tick \/ EndSilence \/ UNCHANGED vars PROVE Gated'
  BY <1>1, <1>t DEF Tick, EndSilence, vars, Gated
<1>2. ASSUME LockExpires PROVE Gated'
  <2>1. lock = Orphan /\ worker' = worker
    BY <1>2, QuietFault DEF LockExpires
  <2> QED BY <2>1, <1>t, <1>a DEF Gated
<1>3. ASSUME NEW w \in Workers, NEW r \in Requests, Deliver(w, r) PROVE Gated'
  <2>1. /\ worker'[w].pc = "gate" /\ ~ worker'[w].lost /\ lock' = lock
        /\ \A x \in Workers \ {w} : worker'[x] = worker[x]
    BY <1>3, <1>t, DeliverType DEF Deliver
  <2> QED BY <2>1, <1>t DEF Gated, InGate
<1>4. ASSUME NEW w \in Workers, EnterGate(w) PROVE Gated'
  <2>1. /\ worker'[w].pc = "resolve" /\ worker'[w].lost = worker[w].lost
        /\ \A x \in Workers \ {w} : worker'[x] = worker[x]
    BY <1>4, <1>t, GotoType DEF EnterGate, PC
  <2>2. lock = None /\ lock' = w
    BY <1>4 DEF EnterGate
  <2>3. \A x \in Workers : worker[x].pc \notin InGate
    BY <2>2, <1>t, <1>a DEF Gated
  <2> QED BY <2>1, <2>2, <2>3, <1>t DEF Gated
<1>5. ASSUME NEW w \in Workers, GateUnavailable(w) \/ RenewalFails(w) \/ Fail(w) \/ Unwind(w)
               \/ RecordRetry(w)
      PROVE  FALSE
  BY <1>5, <1>t, QuietFault DEF GateUnavailable, RenewalFails, Fail, Unwind, RecordRetry, Gated
<1>6. ASSUME NEW w \in Workers, ReadState(w) PROVE Gated'
  <2>1. worker[w].pc \in InGate /\ lock' = lock
    BY <1>6 DEF ReadState, InGate, PC
  <2> QED BY <1>6, <2>1, <1>t, <1>p, ReadType
<1>7. ASSUME NEW w \in Workers, FallbackRead(w) PROVE Gated'
  <2>1. worker[w].pc \in InGate /\ lock' = lock
    BY <1>7 DEF FallbackRead, InGate, PC
  <2> QED BY <1>7, <2>1, <1>t, <1>p, FallbackType
<1>8. ASSUME NEW w \in Workers, Analyze(w) PROVE Gated'
  <2>1. worker[w].pc \in InGate /\ lock' = lock
    BY <1>8 DEF Analyze, InGate, PC
  <2> QED BY <1>8, <2>1, <1>t, <1>p, AnalyzeType
<1>9. ASSUME NEW w \in Workers,
             CheckSilence(w) \/ Placeholder(w) \/ CheckLock(w) \/ Save(w) \/ Remember(w)
      PROVE  Gated'
  <2>1. worker[w].pc \in InGate /\ lock' = lock
    BY <1>9 DEF CheckSilence, Placeholder, CheckLock, Save, Remember, InGate, PC
  <2>2. ~ worker[w].lost
    BY <1>t DEF Gated
  <2>3. PICK pc \in PC \ {"failing", "failed"} : Goto(w, pc)
    BY <1>9, <2>2 DEF CheckSilence, Placeholder, CheckLock, Save, Remember, PC
  <2>4. /\ worker'[w].pc = pc /\ worker'[w].lost = worker[w].lost
        /\ \A x \in Workers \ {w} : worker'[x] = worker[x]
    BY <2>3, <1>t, GotoType
  <2> QED BY <2>1, <2>3, <2>4, <1>p
<1>10. ASSUME NEW w \in Workers, Suppress(w) \/ Leave(w) \/ Crash(w) PROVE Gated'
  BY <1>10, <1>i DEF Suppress, Leave, Release, Crash
<1> QED BY <1>1, <1>2, <1>3, <1>4, <1>5, <1>6, <1>7, <1>8, <1>9, <1>10 DEF Next

LEMMA DatedNext ==
    ASSUME QuietFaults, QInv, [Next]_vars
    PROVE  Dated'
<1>t. TypeOK /\ row \in [Requests -> Row] /\ Gated /\ Dated /\ WorkersLinked
  BY DEF QInv, IInv, TypeOK
<1>1. ASSUME NEW w \in Workers, Save(w) PROVE Dated'
  <2> DEFINE m == worker[w].req
  <2>1. m \in Requests
    BY <1>1, <1>t DEF Save, WorkersLinked
  <2>2. CASE row' = row
    BY <2>2, <1>t DEF Dated
  <2>3. ASSUME row[m].status # "completed", NEW o \in DuplicateOf(w),
               row' = [r \in Requests |->
                        IF r = m THEN Filled(w, o)
                        ELSE IF r = o THEN [row[r] EXCEPT !.count = @ + 1]
                        ELSE row[r]]
        PROVE  Dated'
    <3>1. row[m].status = "none"
      <4>1. row[m].status \in {"none", "retry", "completed"}
        BY <1>t, <2>1, RowFields
      <4> QED BY <4>1, <2>1, <2>3, <1>t DEF Dated
    <3>2. row'[m].status = "completed" /\ row'[m].ts = now /\ row'[m].saved = now
      <4>1. Filled(w, o).status = "completed" /\ Filled(w, o).ts = now /\ Filled(w, o).saved = now
        BY <3>1, <2>1, <2>3, <1>t, DuplicateType, FilledType
      <4> QED BY <4>1, <2>1, <2>3
    <3>3. ASSUME NEW r \in Requests \ {m}
          PROVE  /\ row'[r].status = row[r].status /\ row'[r].ts = row[r].ts
                 /\ row'[r].saved = row[r].saved
      BY <2>3, <1>t, CountRow
    <3> QED BY <3>2, <3>3, <1>t DEF Dated
  <2> QED BY <1>1, <2>2, <2>3 DEF Save, SaveWebhookData
<1>2. ASSUME NEW w \in Workers, RecordRetry(w) PROVE FALSE
  BY <1>2, <1>t DEF RecordRetry, Gated
<1>3. ASSUME row' = row PROVE Dated'
  BY <1>3, <1>t DEF Dated
<1> QED BY <1>1, <1>2, <1>3
        DEF Next, Tick, EndSilence, LockExpires, Deliver, EnterGate, Suppress, GateUnavailable,
            RenewalFails, ReadState, FallbackRead, CheckSilence, Placeholder, Analyze, CheckLock,
            Remember, Leave, Fail, Unwind, Crash, vars

\* Under crashes and lost Redis reads and writes, but no lost lock and no retry,
\* two originals of a key are committed more than a window apart: what the
\* comment on the recheck claims (two workers that both resolved NEW cannot both
\* persist an original).  A retry breaks it: README, section 6.
THEOREM OriginalsApart ==
    ASSUME QuietFaults
    PROVE  Spec => []OneOriginal
<1>1. Init => QInv
  <2>1. Init => Gated /\ Dated
    BY DEF Init, Idle, NoRow, Gated, Dated, InGate
  <2> QED BY <2>1, IInvInit DEF QInv
<1>2. QInv /\ [Next]_vars => QInv'
  BY IInvNext, GatedNext, DatedNext DEF QInv
<1>3. QInv => OneOriginal
  BY DEF QInv, IInv, RowsInv, RecentOriginalWins, OneOriginal, Dated, Originals, Keyed
<1> QED BY <1>1, <1>2, <1>3, PTL DEF Spec

-----------------------------------------------------------------------------
(* The noise stage: the rows of its tables and what a worker is doing *)

Relations == {"standalone", "derived", "root_cause"}
Decision == [relation : Relations, root : Nat, quiet : BOOLEAN]
StoredAlert == [kind : Kinds, level : Levels, age : 0 .. (NoiseWindow + 1), relation : Relations,
                root : Nat, quiet : BOOLEAN]
Override == [rule : {k.rule : k \in Kinds}, source : {k.source : k \in Kinds}, level : Levels,
             age : 0 .. (Lookback + 1)]
Analysing == [pc : {"analyse"}, kind : Kinds]
Judged == [pc : {"noise"}, kind : Kinds, level : Levels]
Settled == [pc : {"record", "store"}, kind : Kinds, level : Levels, decision : Decision]
Job == {NoWork} \cup Analysing \cup Judged \cup Settled

\* The alert with this identity may derive from the stored alert r.
RootFor(kind, r) ==
    /\ r \in 1 .. Len(alerts)
    /\ alerts[r].kind.scope = kind.scope /\ Hash(alerts[r].kind) # Hash(kind)

\* What a worker decided names a root as long as it keeps its alert back.
Rooted(j) ==
    j \in Settled =>
        /\ j.decision.quiet => j.decision.relation = "derived" /\ RootFor(j.kind, j.decision.root)
        /\ j.pc = "record" => j.decision.quiet

AlertsOK == alerts \in Seq(StoredAlert)
OverridesOK == overrides \in [DOMAIN overrides -> Override] /\ IsFiniteSet(DOMAIN overrides)
JobsOK == jobs \in [NoiseWorkers -> Job] /\ \A w \in NoiseWorkers : Rooted(jobs[w])
RecordsOK == \A r \in records : r.root \in 1 .. Len(alerts)

StageInv == AlertsOK /\ OverridesOK /\ JobsOK /\ RecordsOK /\ RootTold

LEMMA AlertsAre ==
    ASSUME AlertsOK
    PROVE  /\ Len(alerts) \in Nat /\ DOMAIN alerts = 1 .. Len(alerts)
           /\ \A e \in 1 .. Len(alerts) : alerts[e] \in StoredAlert
BY LenProperties, ElementOfSeq DEF AlertsOK

LEMMA StoredFields ==
    ASSUME NEW a \in StoredAlert
    PROVE  /\ a.kind \in Kinds /\ a.level \in Levels /\ a.age \in 0 .. (NoiseWindow + 1)
           /\ a.relation \in Relations /\ a.root \in Nat /\ a.quiet \in BOOLEAN
BY Zenon DEF StoredAlert

\* A job by its step.
LEMMA JobFields ==
    ASSUME NEW j \in Job
    PROVE  /\ j.pc = "analyse" => j \in Analysing /\ j.kind \in Kinds
           /\ j.pc = "noise" => j \in Judged /\ j.kind \in Kinds /\ j.level \in Levels
           /\ j.pc \in {"record", "store"} =>
                j \in Settled /\ j.kind \in Kinds /\ j.level \in Levels /\ j.decision \in Decision
           /\ j # NoWork => j.kind \in Kinds
           /\ j \in Settled => j.pc \in {"record", "store"}
<1>1. NoWork.pc = "idle"
  BY DEF NoWork
<1>2. j \in Analysing => j.pc = "analyse" /\ j.kind \in Kinds
  BY DEF Analysing
<1>3. j \in Judged => j.pc = "noise" /\ j.kind \in Kinds /\ j.level \in Levels
  BY DEF Judged
<1>4. j \in Settled => j.pc \in {"record", "store"} /\ j.kind \in Kinds /\ j.level \in Levels /\ j.decision \in Decision
  BY Zenon DEF Settled
<1>5. j = NoWork \/ j \in Analysing \/ j \in Judged \/ j \in Settled
  BY DEF Job
<1> QED BY <1>1, <1>2, <1>3, <1>4, <1>5

\* What the stage may decide: it keeps an alert back only for one it found.
LEMMA DecisionsDo ==
    ASSUME StageSane, NEW kind, NEW level, NEW found, found \subseteq Nat, NEW d \in Decisions(kind, level, found)
    PROVE  /\ d \in Decision
           /\ d.quiet => d.relation = "derived" /\ d.root \in found
<1> DEFINE score(e) == ScoreCandidate(kind, level, e)
           scored == {e \in found : score(e) > 0}
           best == {e \in scored : \A f \in scored : score(f) <= score(e)}
           root == [relation |-> "root_cause", root |-> 0, quiet |-> FALSE]
           derived(e) == [relation |-> "derived", root |-> e, quiet |-> SuppressDerived]
<1>1. d = Standalone \/ d = root \/ \E e \in best : d = derived(e)
  BY Zenon DEF Decisions
<1>2. "standalone" \in Relations /\ "root_cause" \in Relations /\ "derived" \in Relations /\ 0 \in Nat
  BY DEF Relations
<1>3. CASE d = Standalone
  BY <1>2, <1>3, Zenon DEF Standalone, Decision
<1>4. CASE d = root
  BY <1>2, <1>4, Zenon DEF Decision
<1>5. CASE \E e \in best : d = derived(e)
  <2>1. PICK e \in found : d = derived(e)
    BY <1>5, Zenon
  <2>2. e \in Nat /\ SuppressDerived \in BOOLEAN
    BY <2>1 DEF StageSane
  <2> QED BY <1>2, <2>1, <2>2, Zenon DEF Decision
<1> QED BY <1>1, <1>3, <1>4, <1>5

\* The alerts the stage compares with may be the root of what it judges.
LEMMA FoundAreRoots ==
    ASSUME AlertsOK, NEW kind, NEW r \in Compared(Neighbours(kind))
    PROVE  RootFor(kind, r)
BY AlertsAre DEF Compared, Neighbours, RootFor

\* A worker that settles its alert knows its root.
LEMMA ComputeRooted ==
    ASSUME StageSane, AlertsOK, JobsOK, NEW w \in NoiseWorkers, NEW found, Compute(w, found),
           \A r \in found : RootFor(jobs[w].kind, r)
    PROVE  /\ jobs' \in [NoiseWorkers -> Job] /\ Rooted(jobs'[w])
           /\ \A v \in NoiseWorkers \ {w} : jobs'[v] = jobs[v]
<1>1. jobs[w].pc = "noise" /\ jobs[w].kind \in Kinds /\ jobs[w].level \in Levels
  BY JobFields DEF JobsOK, Compute
<1>2. PICK d \in Decisions(jobs[w].kind, jobs[w].level, found) :
        jobs' = [jobs EXCEPT ![w] = [pc |-> IF d.quiet THEN "record" ELSE "store",
                                     kind |-> jobs[w].kind, level |-> jobs[w].level, decision |-> d]]
  BY DEF Compute
<1>3. d \in Decision /\ (d.quiet => d.relation = "derived" /\ d.root \in found)
  <2>1. found \subseteq Nat
    BY AlertsAre DEF RootFor
  <2> QED BY <2>1, DecisionsDo
<1> DEFINE pc == IF d.quiet THEN "record" ELSE "store"
           j == [pc |-> pc, kind |-> jobs[w].kind, level |-> jobs[w].level, decision |-> d]
<1>4. pc \in {"record", "store"} /\ (pc = "record" => d.quiet)
  OBVIOUS
<1> HIDE DEF pc
<1>5. j \in Settled /\ j.decision = d /\ j.kind = jobs[w].kind /\ j.pc = pc
  BY <1>1, <1>3, <1>4, Zenon DEF Settled
<1>6. jobs' = [jobs EXCEPT ![w] = j]
  BY <1>2 DEF pc
<1> HIDE DEF j
<1>7. Rooted(j)
  BY <1>3, <1>4, <1>5 DEF Rooted
<1> QED BY <1>5, <1>6, <1>7 DEF JobsOK, Job

LEMMA AnalyseTyped ==
    ASSUME StageSane, OverridesOK, NEW kind \in Kinds, NEW level \in Judgements(kind)
    PROVE  level \in Levels
<1>1. \A h \in DOMAIN overrides : overrides[h].level \in Levels
  BY DEF OverridesOK, Override
<1>2. kind.level \in Levels
  BY DEF StageSane
<1>3. Prior(kind) \subseteq Levels
  BY <1>1 DEF Prior, Corrections
<1> QED BY <1>1, <1>2, <1>3 DEF Judgements

\* What a step does to the jobs when one worker's is replaced.
LEMMA JobReplaced ==
    ASSUME JobsOK, NEW w \in NoiseWorkers, NEW j \in Job, Rooted(j), jobs' = [jobs EXCEPT ![w] = j],
           alerts' = alerts
    PROVE  JobsOK'
<1>1. \A k, r : RootFor(k, r)' <=> RootFor(k, r)
  BY DEF RootFor
<1>2. \A v \in NoiseWorkers : jobs'[v] = j \/ jobs'[v] = jobs[v]
  BY DEF JobsOK
<1>3. jobs' \in [NoiseWorkers -> Job]
  BY DEF JobsOK
<1>4. \A v \in NoiseWorkers : Rooted(jobs'[v])
  BY <1>2 DEF JobsOK
<1>5. \A v \in NoiseWorkers : Rooted(jobs[v])'
  BY <1>1, <1>4 DEF Rooted
<1> QED BY <1>3, <1>5 DEF JobsOK

\* A step of a worker that leaves the tables alone, but for the records.
LEMMA WorkerKeeps ==
    ASSUME StageSane, StageInv, NEW w \in NoiseWorkers,
           \/ \E kind \in Kinds : Arrive(w, kind)
           \/ Analyse(w) \/ ComputeNoise(w) \/ LoadFails(w) \/ WriteRecord(w) \/ RecordFails(w) \/ Redeliver(w)
    PROVE  JobsOK'
<1> USE DEF StageInv
<1>1. ASSUME NEW kind \in Kinds, Arrive(w, kind) PROVE JobsOK'
  <2> DEFINE j == [pc |-> "analyse", kind |-> kind]
  <2>1. j \in Analysing /\ j.pc = "analyse"
    BY DEF Analysing
  <2>2. j \in Job /\ Rooted(j)
    BY <2>1, JobFields DEF Job, Rooted
  <2> QED BY <1>1, <2>2, JobReplaced DEF Arrive
<1>2. CASE Analyse(w)
  <2>1. jobs[w].pc = "analyse" /\ jobs[w].kind \in Kinds
    BY <1>2, JobFields DEF Analyse, JobsOK
  <2>2. PICK level \in Judgements(jobs[w].kind) :
          jobs' = [jobs EXCEPT ![w] = [pc |-> "noise", kind |-> jobs[w].kind, level |-> level]]
    BY <1>2 DEF Analyse
  <2> DEFINE j == [pc |-> "noise", kind |-> jobs[w].kind, level |-> level]
  <2>3. j \in Judged /\ j.pc = "noise"
    BY <2>1, AnalyseTyped DEF Judged
  <2>4. j \in Job /\ Rooted(j)
    BY <2>3, JobFields DEF Job, Rooted
  <2> QED BY <1>2, <2>2, <2>4, JobReplaced DEF Analyse
<1>3. ASSUME NEW found, Compute(w, found), \A r \in found : RootFor(jobs[w].kind, r), alerts' = alerts
      PROVE  JobsOK'
  <2>1. jobs' \in [NoiseWorkers -> Job] /\ Rooted(jobs'[w]) /\ \A v \in NoiseWorkers \ {w} : jobs'[v] = jobs[v]
    BY <1>3, ComputeRooted
  <2>2. \A v \in NoiseWorkers : Rooted(jobs'[v])
    BY <2>1 DEF JobsOK
  <2>3. \A k, r : RootFor(k, r)' <=> RootFor(k, r)
    BY <1>3 DEF RootFor
  <2>4. \A v \in NoiseWorkers : Rooted(jobs[v])'
    BY <2>2, <2>3 DEF Rooted
  <2> QED BY <2>1, <2>4 DEF JobsOK
<1>4. CASE ComputeNoise(w)
  BY <1>3, <1>4, FoundAreRoots DEF ComputeNoise
<1>5. CASE LoadFails(w)
  BY <1>3, <1>5 DEF LoadFails
<1>6. CASE WriteRecord(w) \/ RecordFails(w)
  <2> DEFINE j == [jobs[w] EXCEPT !.pc = "store"]
  <2>1. jobs[w] \in Settled
    BY <1>6, JobFields DEF JobsOK, WriteRecord, RecordFails
  <2>2. j \in Settled /\ j.pc = "store" /\ j.kind = jobs[w].kind /\ j.decision = jobs[w].decision
    BY <2>1, Zenon DEF Settled
  <2>3. jobs' = [jobs EXCEPT ![w] = j] /\ alerts' = alerts
    BY <1>6 DEF WriteRecord, RecordFails
  <2> HIDE DEF j
  <2>4. Rooted(j)
    BY <2>1, <2>2 DEF JobsOK, Rooted
  <2> QED BY <2>2, <2>3, <2>4, JobReplaced DEF Job
<1>7. CASE Redeliver(w)
  <2> DEFINE j == [pc |-> "analyse", kind |-> jobs[w].kind]
  <2>1. jobs[w].kind \in Kinds
    BY <1>7, JobFields DEF Redeliver, JobsOK
  <2>2. j \in Analysing /\ j.pc = "analyse"
    BY <2>1 DEF Analysing
  <2>3. j \in Job /\ Rooted(j)
    BY <2>2, JobFields DEF Job, Rooted
  <2> QED BY <1>7, <2>3, JobReplaced DEF Redeliver
<1> QED BY <1>1, <1>2, <1>4, <1>5, <1>6, <1>7

\* What is stored derives from what was stored before it, and nothing stored is changed
\* by what is stored after it.
LEMMA StoreKeeps ==
    ASSUME StageSane, StageInv, NEW w \in NoiseWorkers, Store(w)
    PROVE  StageInv'
<1> USE DEF StageInv
<1> DEFINE j == jobs[w]
           d == j.decision
           a == [kind |-> j.kind, level |-> j.level, age |-> 0, relation |-> d.relation, root |-> d.root,
                 quiet |-> d.quiet]
           n == Len(alerts)
<1>1. j \in Settled /\ j.kind \in Kinds /\ j.level \in Levels /\ d \in Decision
  BY JobFields DEF JobsOK, Store
<1>2. d.relation \in Relations /\ d.root \in Nat /\ d.quiet \in BOOLEAN
  BY <1>1, Zenon DEF Decision
<1>3. alerts' = Append(alerts, a)
  BY DEF Store
<1>4. /\ a \in StoredAlert /\ a.kind = j.kind /\ a.quiet = d.quiet /\ a.relation = d.relation
      /\ a.root = d.root
  <2>1. 0 \in 0 .. (NoiseWindow + 1)
    BY DEF StageSane
  <2> QED BY <1>1, <1>2, <2>1, Zenon DEF StoredAlert
<1> HIDE DEF a
<1>5. /\ n \in Nat /\ Len(alerts') = n + 1 /\ alerts' \in Seq(StoredAlert) /\ alerts'[n + 1] = a
      /\ \A e \in 1 .. n : alerts'[e] = alerts[e]
  BY <1>3, <1>4, AlertsAre, AppendProperties DEF AlertsOK
<1>6. DOMAIN alerts' = 1 .. (n + 1) /\ DOMAIN alerts = 1 .. n
  BY <1>5, AlertsAre, LenProperties
<1>7. \A k, r : RootFor(k, r) => RootFor(k, r)' /\ alerts'[r] = alerts[r]
  BY <1>5 DEF RootFor
<1>8. \A v \in NoiseWorkers : Rooted(jobs[v])'
  <2>1. NoWork \notin Settled
    BY DEF NoWork, Settled
  <2>2. \A v \in NoiseWorkers : jobs'[v] = NoWork \/ jobs'[v] = jobs[v]
    BY DEF Store, JobsOK
  <2> QED BY <1>7, <2>1, <2>2 DEF JobsOK, Rooted
<1>9. jobs' \in [NoiseWorkers -> Job]
  BY DEF Store, JobsOK, Job
<1>10. RootTold'
  <2>1. d.quiet => d.relation = "derived" /\ RootFor(j.kind, d.root)
    BY <1>1 DEF JobsOK, Rooted
  <2>2. a.quiet => /\ a.relation = "derived" /\ a.root \in 1 .. n
                   /\ alerts'[a.root].kind.scope = a.kind.scope
                   /\ Hash(alerts'[a.root].kind) # Hash(a.kind)
    BY <1>4, <1>5, <2>1 DEF RootFor
  <2>3. \A e \in 1 .. n : alerts[e].quiet =>
            /\ alerts[e].relation = "derived" /\ alerts[e].root \in 1 .. (e - 1)
            /\ alerts[alerts[e].root].kind.scope = alerts[e].kind.scope
            /\ Hash(alerts[alerts[e].root].kind) # Hash(alerts[e].kind)
    BY <1>6 DEF RootTold
  <2>4. \A e \in 1 .. n : 1 .. (e - 1) \subseteq 1 .. n
    BY <1>5
  <2>5. \A e \in 1 .. n : alerts'[e].quiet =>
            /\ alerts'[e].relation = "derived" /\ alerts'[e].root \in 1 .. (e - 1)
            /\ alerts'[alerts'[e].root].kind.scope = alerts'[e].kind.scope
            /\ Hash(alerts'[alerts'[e].root].kind) # Hash(alerts'[e].kind)
    BY <1>5, <2>3, <2>4
  <2>6. 1 .. n = 1 .. ((n + 1) - 1) /\ 1 .. (n + 1) = (1 .. n) \cup {n + 1}
    BY <1>5
  <2> QED BY <1>5, <1>6, <2>2, <2>5, <2>6 DEF RootTold, Hash
<1>11. RecordsOK'
  BY <1>5 DEF Store, RecordsOK
<1>12. OverridesOK'
  BY DEF Store, OverridesOK
<1> QED BY <1>5, <1>8, <1>9, <1>10, <1>11, <1>12 DEF AlertsOK, JobsOK

\* A verdict of an operator replaces the one of its identity.
LEMMA CorrectKeeps ==
    ASSUME StageSane, StageInv, NEW e \in DOMAIN alerts, NEW level \in Levels, Correct(e, level)
    PROVE  StageInv'
<1> USE DEF StageInv
<1> DEFINE k == alerts[e].kind
           given == [rule |-> k.rule, source |-> k.source, level |-> level, age |-> 0]
           D == DOMAIN overrides \cup {Hash(k)}
<1>1. k \in Kinds
  BY AlertsAre, StoredFields
<1>2. given \in Override
  <2>1. 0 \in 0 .. (Lookback + 1)
    BY DEF StageSane
  <2>2. k.rule \in {x.rule : x \in Kinds} /\ k.source \in {x.source : x \in Kinds}
    BY <1>1
  <2> QED BY <2>1, <2>2, Zenon DEF Override
<1>3. overrides' = [h \in D |-> IF h = Hash(k) THEN given ELSE overrides[h]]
  BY DEF Correct
<1> HIDE DEF given
<1>4. overrides' \in [D -> Override] /\ DOMAIN overrides' = D
  BY <1>2, <1>3 DEF OverridesOK
<1>5. IsFiniteSet(D)
  BY FS_AddElement DEF OverridesOK
<1>6. UNCHANGED <<alerts, records, jobs>>
  BY DEF Correct
<1>7. AlertsOK' /\ RecordsOK' /\ RootTold'
  BY <1>6 DEF AlertsOK, RecordsOK, RootTold, Hash
<1>8. JobsOK'
  BY <1>6 DEF JobsOK, Rooted, RootFor, Hash
<1> QED BY <1>4, <1>5, <1>7, <1>8 DEF OverridesOK

\* Time changes ages only.
LEMMA MinuteKeeps ==
    ASSUME StageSane, StageInv, Minute
    PROVE  StageInv'
<1> USE DEF StageInv
<1> DEFINE n == Len(alerts)
           older(e) == [alerts[e] EXCEPT !.age = Older(@, NoiseWindow)]
           oldRow(h) == [overrides[h] EXCEPT !.age = Older(@, Lookback)]
<1>1. n \in Nat /\ DOMAIN alerts = 1 .. n
  BY AlertsAre
<1>2. /\ \A a \in 0 .. (NoiseWindow + 1) : Older(a, NoiseWindow) \in 0 .. (NoiseWindow + 1)
      /\ \A a \in 0 .. (Lookback + 1) : Older(a, Lookback) \in 0 .. (Lookback + 1)
  BY DEF StageSane, Older
<1>3. \A e \in 1 .. n : /\ older(e) \in StoredAlert
                        /\ older(e).kind = alerts[e].kind /\ older(e).relation = alerts[e].relation
                        /\ older(e).root = alerts[e].root /\ older(e).quiet = alerts[e].quiet
  <2> SUFFICES ASSUME NEW e \in 1 .. n
               PROVE  /\ older(e) \in StoredAlert
                      /\ older(e).kind = alerts[e].kind /\ older(e).relation = alerts[e].relation
                      /\ older(e).root = alerts[e].root /\ older(e).quiet = alerts[e].quiet
    OBVIOUS
  <2>1. alerts[e] \in StoredAlert
    BY AlertsAre
  <2>2. Older(alerts[e].age, NoiseWindow) \in 0 .. (NoiseWindow + 1)
    BY <1>2, <2>1, StoredFields
  <2> QED BY <2>1, <2>2, Zenon DEF StoredAlert
<1>4. \A h \in DOMAIN overrides : oldRow(h) \in Override
  <2> SUFFICES ASSUME NEW h \in DOMAIN overrides PROVE oldRow(h) \in Override
    OBVIOUS
  <2>1. overrides[h] \in Override
    BY DEF OverridesOK
  <2>2. overrides[h].age \in 0 .. (Lookback + 1)
    BY <2>1, Zenon DEF Override
  <2>3. Older(overrides[h].age, Lookback) \in 0 .. (Lookback + 1)
    BY <1>2, <2>2
  <2> QED BY <2>1, <2>3, Zenon DEF Override
<1>5. alerts' = [e \in 1 .. n |-> older(e)] /\ overrides' = [h \in DOMAIN overrides |-> oldRow(h)]
  BY <1>1 DEF Minute
<1>6. UNCHANGED <<records, jobs>>
  BY DEF Minute
<1> HIDE DEF older, oldRow
<1>7. alerts' \in [1 .. n -> StoredAlert] /\ \A e \in 1 .. n : alerts'[e] = older(e)
  BY <1>3, <1>5
<1>8. AlertsOK'
  BY <1>1, <1>7, SeqDef DEF AlertsOK
<1>9. Len(alerts') = n /\ DOMAIN alerts' = 1 .. n
  <2>1. DOMAIN alerts' = 1 .. n
    BY <1>7
  <2>2. Len(alerts') \in Nat /\ DOMAIN alerts' = 1 .. Len(alerts')
    BY <1>8, LenProperties DEF AlertsOK
  <2> QED BY <1>1, <2>1, <2>2
<1>10. OverridesOK'
  BY <1>4, <1>5 DEF OverridesOK
<1>11. \A k, r : RootFor(k, r) => RootFor(k, r)'
  BY <1>3, <1>7, <1>9 DEF RootFor
<1>12. JobsOK'
  BY <1>6, <1>11 DEF JobsOK, Rooted
<1>13. RecordsOK'
  BY <1>6, <1>9 DEF RecordsOK
<1>14. RootTold'
  <2>1. \A e \in 1 .. n : 1 .. (e - 1) \subseteq 1 .. n
    BY <1>1
  <2> QED BY <1>1, <1>3, <1>7, <1>9, <2>1 DEF RootTold, Hash
<1> QED BY <1>8, <1>10, <1>12, <1>13, <1>14

LEMMA StageInitially == ASSUME StageSane, StageInit PROVE StageInv
<1>1. alerts = <<>> /\ Len(alerts) = 0 /\ DOMAIN alerts = {}
  BY DEF StageInit
<1>2. AlertsOK /\ RecordsOK /\ RootTold
  BY <1>1, EmptySeq DEF StageInit, AlertsOK, RecordsOK, RootTold
<1>3. OverridesOK
  BY FS_EmptySet DEF StageInit, OverridesOK
<1>4. JobsOK
  <2>1. NoWork \notin Settled
    BY DEF NoWork, Settled
  <2> QED BY <2>1 DEF StageInit, JobsOK, Job, Rooted
<1> QED BY <1>2, <1>3, <1>4 DEF StageInv

LEMMA StageKept == ASSUME StageSane, StageInv, [StageNext]_stageVars PROVE StageInv'
<1>1. ASSUME NEW w \in NoiseWorkers,
             \/ \E kind \in Kinds : Arrive(w, kind)
             \/ Analyse(w) \/ ComputeNoise(w) \/ LoadFails(w) \/ WriteRecord(w) \/ RecordFails(w)
             \/ Redeliver(w)
      PROVE  StageInv'
  <2>1. UNCHANGED <<alerts, overrides>>
    BY <1>1 DEF Arrive, Analyse, ComputeNoise, LoadFails, WriteRecord, RecordFails, Redeliver
  <2>2. AlertsOK' /\ OverridesOK' /\ RootTold'
    BY <2>1 DEF StageInv, AlertsOK, OverridesOK, RootTold, Hash
  <2>3. JobsOK'
    BY <1>1, WorkerKeeps
  <2>4. CASE WriteRecord(w)
    <3>1. jobs[w] \in Settled /\ jobs[w].pc = "record"
      BY <2>4, JobFields DEF StageInv, JobsOK, WriteRecord
    <3>2. jobs[w].decision.root \in 1 .. Len(alerts)
      BY <3>1 DEF StageInv, JobsOK, Rooted, RootFor
    <3> QED BY <2>1, <2>2, <2>3, <2>4, <3>2 DEF StageInv, RecordsOK, WriteRecord
  <2>5. CASE ~WriteRecord(w)
    <3>1. records' = records
      BY <1>1, <2>5 DEF Arrive, Analyse, ComputeNoise, LoadFails, RecordFails, Redeliver
    <3>2. RecordsOK'
      BY <2>1, <3>1 DEF StageInv, RecordsOK
    <3> QED BY <2>2, <2>3, <3>2 DEF StageInv
  <2> QED BY <2>4, <2>5
<1>2. CASE UNCHANGED stageVars
  BY <1>2 DEF stageVars, StageInv, AlertsOK, OverridesOK, JobsOK, Rooted, RootFor, RecordsOK, RootTold, Hash
<1> QED BY <1>1, <1>2, StoreKeeps, CorrectKeeps, MinuteKeeps DEF StageNext

\* Whatever workers overlap, crash, redeliver or fail to load and record, an alert that
\* is kept from being forwarded derives from an earlier one of its connection, and every
\* record of a suppression points to a stored alert.
THEOREM RootIsTold == ASSUME StageSane PROVE StageSpec => []RootCauseTold
<1>1. StageInit => StageInv
  BY StageInitially
<1>2. StageInv /\ [StageNext]_stageVars => StageInv'
  BY StageKept
<1>3. StageInv => RootCauseTold
  <2> SUFFICES ASSUME StageInv PROVE RootCauseTold
    OBVIOUS
  <2>1. \A e \in DOMAIN alerts : alerts[e] \in StoredAlert
    BY AlertsAre DEF StageInv
  <2>2. \A e \in DOMAIN alerts : /\ alerts[e].kind \in Kinds /\ alerts[e].level \in Levels
                                 /\ alerts[e].age \in 0 .. (NoiseWindow + 1) /\ alerts[e].relation \in Relations
    BY <2>1, StoredFields
  <2>3. \A h \in DOMAIN overrides : overrides[h].level \in Levels /\ overrides[h].age \in 0 .. (Lookback + 1)
    BY DEF StageInv, OverridesOK, Override
  <2>4. \A r \in records : r.root \in DOMAIN alerts
    BY AlertsAre DEF StageInv, RecordsOK
  <2> QED BY <2>2, <2>3, <2>4 DEF RootCauseTold, StageTypeOK, StageInv, Relations
<1> QED BY <1>1, <1>2, <1>3, PTL DEF StageSpec

\* The level of an alert leaves the model's own verdict only for verdicts operators gave:
\* on this alert, or lately and in agreement on enough other instances of its rule.
THEOREM LevelsHaveGrounds == ASSUME StageSane PROVE StageSpec => LevelHasGrounds
<1>1. StageInit => StageInv
  BY StageInitially
<1>2. StageInv /\ [StageNext]_stageVars => StageInv'
  BY StageKept
<1>3. StageInv /\ [StageNext]_stageVars => [LevelStep]_stageVars
  <2> SUFFICES ASSUME StageInv, StageNext, NEW w \in NoiseWorkers, jobs[w].pc = "analyse",
                      jobs'[w].pc = "noise", jobs'[w].level # jobs[w].kind.level,
                      Hash(jobs[w].kind) \notin DOMAIN overrides
               PROVE  LET kind == jobs[w].kind
                          others == {h \in DOMAIN overrides :
                                      /\ h \notin {Hash(kind), OwnHash(kind)} /\ overrides[h].rule = kind.rule
                                      /\ overrides[h].source = kind.source /\ overrides[h].age <= Lookback}
                      IN  /\ Cardinality(others) >= MinCorrections
                          /\ \A h \in others : overrides[h].level = jobs'[w].level
    BY DEF LevelStep
  <2> DEFINE kind == jobs[w].kind
             others == {h \in DOMAIN overrides :
                         /\ h \notin {Hash(kind), OwnHash(kind)} /\ overrides[h].rule = kind.rule
                         /\ overrides[h].source = kind.source /\ overrides[h].age <= Lookback}
             verdicts == {overrides[h].level : h \in Corrections(kind)}
  <2>1. jobs \in [NoiseWorkers -> Job]
    BY DEF StageInv, JobsOK
  <2>2. Analyse(w)
    <3>1. \A v \in NoiseWorkers \ {w} : (\E k \in Kinds : Arrive(v, k)) \/ Analyse(v) \/ ComputeNoise(v) \/ LoadFails(v)
              \/ WriteRecord(v) \/ RecordFails(v) \/ Store(v) \/ Redeliver(v) => jobs'[w] = jobs[w]
      BY <2>1 DEF Arrive, Analyse, ComputeNoise, LoadFails, Compute, WriteRecord, RecordFails, Store, Redeliver
    <3>2. \A k : ~Arrive(w, k)
      BY DEF Arrive, NoWork
    <3>3. ~(ComputeNoise(w) \/ LoadFails(w) \/ WriteRecord(w) \/ RecordFails(w) \/ Store(w) \/ Redeliver(w))
      BY DEF ComputeNoise, LoadFails, Compute, WriteRecord, RecordFails, Store, Redeliver
    <3>4. jobs' # jobs
      OBVIOUS
    <3>5. ~Minute /\ \A e, l : ~Correct(e, l)
      BY <3>4 DEF Minute, Correct
    <3>6. jobs'[w] # jobs[w]
      OBVIOUS
    <3> QED BY <3>1, <3>2, <3>3, <3>5, <3>6 DEF StageNext
  <2>3. PICK level \in Judgements(kind) :
          jobs' = [jobs EXCEPT ![w] = [pc |-> "noise", kind |-> jobs[w].kind, level |-> level]]
    BY <2>2 DEF Analyse
  <2>4. jobs'[w].level = level /\ level # kind.level
    BY <2>1, <2>3
  <2>5. level \in Prior(kind)
    BY <2>3, <2>4 DEF Judgements
  <2>6. Cardinality(verdicts) = 1 /\ Cardinality(Corrections(kind)) >= MinCorrections /\ level \in verdicts
    BY <2>5 DEF Prior
  <2>7. Corrections(kind) = others
    BY DEF Corrections
  <2>8. IsFiniteSet(verdicts)
    <3>1. Levels = (({} \cup {"high"}) \cup {"medium"}) \cup {"low"}
      BY DEF Levels
    <3>2. IsFiniteSet(Levels)
      BY <3>1, FS_EmptySet, FS_AddElement
    <3>3. verdicts \subseteq Levels
      BY DEF Corrections, StageInv, OverridesOK, Override
    <3> QED BY <3>2, <3>3, FS_Subset
  <2>9. \A h \in Corrections(kind) : overrides[h].level = level
    BY <2>6, <2>8, FS_Singleton
  <2> QED BY <2>4, <2>6, <2>7, <2>9
<1> QED BY <1>1, <1>2, <1>3, PTL DEF StageSpec, LevelHasGrounds

-----------------------------------------------------------------------------
(***************************************************************************)
(* Routing.  The decision reads a column, the last announcement of the     *)
(* thread; that the column is the newest of the rows really sent is what   *)
(* carries the cadence from one decision to the next (Stamped), and it     *)
(* needs every thread to have one original (ThreadsSound).  A run between  *)
(* its analysis and its transaction carries the ceiling of the tables it   *)
(* saw (CapsKept) and the ground on which nobody judged its alert          *)
(* (UnjudgedSilenced).                                                     *)
(***************************************************************************)

\* The runs under way and the events persisted stay within the bound.
RoomLeft == Len(events) + InFlight <= MaxEvents

\* The original of a thread is an event that is its own original.
Original(evs, e) == e \in DOMAIN evs /\ evs[e].root = e

ThreadsSound ==
    /\ \A e \in DOMAIN events : Original(events, events[e].root)
    /\ \A k \in Keys : memo[k].root # Unset => Original(events, memo[k].root)
    /\ \A w \in RoutingWorkers : runs[w].root # Unset => Original(events, runs[w].root)

RowKeys == {"event", "root", "rule", "target", "digest", "reminder", "due", "sent"}
RowsSound ==
    \A r \in rows :
        /\ DOMAIN r = RowKeys
        /\ r.event \in DOMAIN events
        /\ r.root = events[r.event].root
        /\ r.sent \in 0 .. time \cup {Unset}

\* What the decision reads of a thread is its newest announcement.
Stamped ==
    \A e \in EventIds : e \notin DOMAIN events \/ Original(events, e) =>
        /\ \A r \in rows : r.root = e => r.sent <= notified[e]
        /\ notified[e] # Unset => \E r \in rows : r.root = e /\ r.sent = notified[e]

\* An analysis nobody made stands for an alert a silence covered.
Grounded(an, hushed, excused) ==
    an.imp = "unknown" /\ an.route # "pending" => hushed /\ excused
Excused == edited \/ Silenced(tables.silences, alert, AtAnalysis(alert, ""))
UnjudgedSilenced ==
    /\ \A k \in Keys : Grounded(memo[k].an, memo[k].hushed, Excused)
    /\ \A w \in RoutingWorkers : runs[w].an.route # "pending" /\ Grounded(runs[w].an, runs[w].hushed, Excused)

CapsKept == \A w \in RoutingWorkers : runs[w].pc = "persist" => CapKept(alert, runs[w].an, runs[w].inbound)

RoutingInv ==
    /\ RoutingTypeOK /\ RoomLeft /\ ThreadsSound /\ RowsSound /\ Stamped /\ UnjudgedSilenced
    /\ CapsKept /\ CapRespected /\ CadenceKept /\ JudgedBeforeForwarded

-----------------------------------------------------------------------------
(* The tables *)

\* A set of naturals that is not empty has a least element.
LEMMA LeastOfNats ==
    ASSUME NEW S, S \subseteq Nat, S # {}
    PROVE  Min(S) \in S /\ \A n \in S : Min(S) <= n
<1>1. PICK m \in S : \A n \in S : ~(<<n, m>> \in OpToRel(<, Nat))
  BY NatLessThanWellFounded, WFMin, Zenon
<1>2. \A n \in S : ~(n < m)
  BY <1>1, Zenon DEF OpToRel
<1>3. \A n \in S : m <= n
  BY <1>2
<1> QED BY <1>3, Zenon DEF Min

LEMMA RankValues ==
    /\ DOMAIN Rank = {"low", "medium", "high"}
    /\ \A i \in DOMAIN Rank : Rank[i] \in 1 .. 3
    /\ \A i \in DOMAIN Rank : Rank[i] <= Rank["high"]
BY DEF Rank

\* The ceiling found is that of a rule that matches, once there is one.
LEMMA FirstIsAMatch ==
    ASSUME NEW rules, DOMAIN rules \subseteq Nat, NEW a, NEW seen, NEW name, name = a.name,
           NEW i \in DOMAIN rules, rules[i].action = "cap_importance", rules[i].value # "",
           InboundMatches(rules[i], a, seen, name)
    PROVE  \E j \in DOMAIN rules :
              /\ rules[j].action = "cap_importance" /\ rules[j].value # ""
              /\ InboundMatches(rules[j], a, seen, name)
              /\ FirstInboundValue(rules, "cap_importance", a, seen) = rules[j].value
<1> DEFINE found == {k \in DOMAIN rules : /\ rules[k].action = "cap_importance"
                                          /\ "cap_importance" = "cap_importance" => rules[k].value # ""
                                          /\ InboundMatches(rules[k], a, seen, name)}
<1>1. found # {} /\ found \subseteq Nat
  OBVIOUS
<1>2. Min(found) \in found
  BY <1>1, LeastOfNats
<1>3. FirstInboundValue(rules, "cap_importance", a, seen) = rules[Min(found)].value
  BY <1>1, Zenon DEF FirstInboundValue
<1> QED BY <1>2, <1>3

\* A ceiling leaves an importance that is one, and not above itself.
LEMMA CapDoes ==
    ASSUME NEW imp, NEW cap
    PROVE  /\ ApplyImportanceCap(imp, cap) \in DOMAIN Rank \cup {imp}
           /\ cap \in DOMAIN Rank => RankOf(ApplyImportanceCap(imp, cap)) <= Rank[cap]
<1>1. RankOf(imp) \in 1 .. 3 /\ RankOf(imp) <= Rank["high"]
  BY RankValues DEF RankOf
<1>2. cap \in DOMAIN Rank => RankOf(cap) = Rank[cap] /\ Rank[cap] \in 1 .. 3
  BY RankValues DEF RankOf
<1>3. CASE cap \in DOMAIN Rank /\ Rank[cap] < RankOf(imp)
  BY <1>2, <1>3 DEF ApplyImportanceCap
<1>4. CASE ~(cap \in DOMAIN Rank /\ Rank[cap] < RankOf(imp))
  BY <1>1, <1>2, <1>4 DEF ApplyImportanceCap
<1> QED BY <1>3, <1>4

\* A rule without a criterion on the importance matches at every importance.
LEMMA AnyImportance ==
    ASSUME NEW r, r.m.imp = {}, NEW a, NEW i, NEW j, InboundMatches(r, a, AtAnalysis(a, i), a.name)
    PROVE  InboundMatches(r, a, AtAnalysis(a, j), a.name)
<1>1. /\ AtAnalysis(a, i).etype = AtAnalysis(a, j).etype
      /\ AtAnalysis(a, i).src = AtAnalysis(a, j).src
      /\ AtAnalysis(a, i).dup = AtAnalysis(a, j).dup
  BY DEF AtAnalysis
<1> QED BY <1>1, Zenon DEF InboundMatches, RuleMatches

\* The same of the rules and the alert of a state.
LEMMA CeilingIsAMatch ==
    ASSUME DOMAIN tables.inbound \subseteq Nat, NEW seen, NEW i \in DOMAIN tables.inbound,
           tables.inbound[i].action = "cap_importance", tables.inbound[i].value # "",
           InboundMatches(tables.inbound[i], alert, seen, alert.name)
    PROVE  \E j \in DOMAIN tables.inbound :
              /\ tables.inbound[j].action = "cap_importance" /\ tables.inbound[j].value # ""
              /\ InboundMatches(tables.inbound[j], alert, seen, alert.name)
              /\ FirstInboundValue(tables.inbound, "cap_importance", alert, seen) = tables.inbound[j].value
<1>1. PICK rules, a, name : rules = tables.inbound /\ a = alert /\ name = alert.name
  OBVIOUS
<1>2. /\ DOMAIN rules \subseteq Nat /\ i \in DOMAIN rules /\ name = a.name
      /\ rules[i].action = "cap_importance" /\ rules[i].value # ""
      /\ InboundMatches(rules[i], a, seen, name)
  BY <1>1
<1>3. \E j \in DOMAIN rules :
         /\ rules[j].action = "cap_importance" /\ rules[j].value # ""
         /\ InboundMatches(rules[j], a, seen, name)
         /\ FirstInboundValue(rules, "cap_importance", a, seen) = rules[j].value
  BY <1>2, FirstIsAMatch, Zenon
<1> QED BY <1>1, <1>3

\* What shapes an analysis: the ceiling its rule states, and nothing but the
\* importance and the digest marker.
LEMMA ShapedDoes ==
    ASSUME tables \in TableStates, NEW an \in Analyses
    PROVE  /\ Shaped(an) \in Analyses
           /\ Shaped(an).route = an.route
           /\ Shaped(an).imp \in DOMAIN Rank \cup {an.imp}
           /\ CapKept(alert, Shaped(an), tables.inbound)
<1> DEFINE cap == FirstInboundValue(tables.inbound, "cap_importance", alert, AtAnalysis(alert, an.imp))
           imp == ApplyImportanceCap(an.imp, cap)
           digest == DigestWindow(FirstInboundValue(tables.inbound, "digest", alert, AtAnalysis(alert, imp)))
<1>1. Shaped(an) = [an EXCEPT !.imp = imp, !.digest = digest]
  BY Zenon DEF Shaped
<1>2. imp \in DOMAIN Rank \cup {an.imp}
  BY CapDoes
<1>3. digest \in BOOLEAN
  BY DEF DigestWindow
<1>4. an.imp \in Importances /\ imp \in Importances
  BY <1>2 DEF Importances, Analyses
<1>5. CapKept(alert, Shaped(an), tables.inbound)
  <2> SUFFICES ASSUME NEW c \in Ceilings(alert, tables.inbound), c.m.imp = {}
               PROVE  \E k \in Ceilings(alert, tables.inbound) : RankOf(imp) <= Rank[k.value]
    <3> HIDE DEF imp, digest
    <3>1. Shaped(an).imp = imp
      BY <1>1 DEF Analyses
    <3> QED BY <3>1, Zenon DEF CapKept
  <2>1. PICK i \in DOMAIN tables.inbound :
           /\ c = tables.inbound[i]
           /\ tables.inbound[i].action = "cap_importance" /\ tables.inbound[i].value # ""
           /\ \E p \in Importances :
                 InboundMatches(tables.inbound[i], alert, AtAnalysis(alert, p), alert.name)
    BY Zenon DEF Ceilings
  <2>2. InboundMatches(tables.inbound[i], alert, AtAnalysis(alert, an.imp), alert.name)
    BY <2>1, AnyImportance, Zenon
  <2>3. DOMAIN tables.inbound \subseteq Nat
    BY TablesAssumption, Zenon
  <2>4. PICK j \in DOMAIN tables.inbound :
           /\ tables.inbound[j].action = "cap_importance" /\ tables.inbound[j].value # ""
           /\ InboundMatches(tables.inbound[j], alert, AtAnalysis(alert, an.imp), alert.name)
           /\ FirstInboundValue(tables.inbound, "cap_importance", alert, AtAnalysis(alert, an.imp))
                = tables.inbound[j].value
    BY <2>1, <2>2, <2>3, CeilingIsAMatch, Zenon
  <2>5. tables.inbound[j] \in Ceilings(alert, tables.inbound)
    BY <2>4, <1>4, Zenon DEF Ceilings
  <2>6. cap \in DOMAIN Rank
    BY <2>4, TablesAssumption, Zenon
  <2>7. RankOf(imp) <= Rank[cap]
    BY <2>6, CapDoes, Zenon
  <2> QED BY <2>4, <2>5, <2>7, Zenon
<1> HIDE DEF imp, digest
<1> QED BY <1>1, <1>2, <1>3, <1>4, <1>5 DEF Analyses

\* A decision to forward: nothing withholds the alert, and its thread is due.
LEMMA DecisionDoes ==
    ASSUME NEW seen, seen.dup \in BOOLEAN, NEW noise, NEW flapping, NEW last \in Time \cup {Unset},
           time \in Time, NEW d, d = DecideForwarding(seen, noise, flapping, last)
    PROVE  /\ d.forward \in BOOLEAN /\ d.reminder \in BOOLEAN /\ d.skip \in SkipCodes
           /\ d.forward =>
                 /\ ~Silenced(tables.silences, alert, seen)
                 /\ seen.dup /\ last # Unset => time - last >= Cooldown
                 /\ d.reminder => seen.dup /\ last # Unset /\ time - last >= Reminder
<1> DEFINE rules == SelectForwardRules(tables.rules, alert, seen)
           Good(c) == /\ c.forward \in BOOLEAN /\ c.reminder \in BOOLEAN /\ c.skip \in SkipCodes
                      /\ c.forward =>
                            /\ ~Silenced(tables.silences, alert, seen)
                            /\ seen.dup /\ last # Unset => time - last >= Cooldown
                            /\ c.reminder => seen.dup /\ last # Unset /\ time - last >= Reminder
<1>1. \A c \in SkipCodes : /\ Skip(c).forward = FALSE /\ Skip(c).reminder = FALSE /\ Skip(c).skip = c
                           /\ [Skip(c) EXCEPT !.reminder = TRUE].forward = FALSE
                           /\ [Skip(c) EXCEPT !.reminder = TRUE].reminder = TRUE
                           /\ [Skip(c) EXCEPT !.reminder = TRUE].skip = c
  BY DEF Skip
<1>2. \A c \in SkipCodes : Good(Skip(c)) /\ Good([Skip(c) EXCEPT !.reminder = TRUE])
  BY <1>1
<1>3. \A q, b : /\ Forward(q, b).forward = TRUE /\ Forward(q, b).reminder = b
                /\ Forward(q, b).skip = "none"
  BY DEF Forward
<1>4. /\ "none" \in SkipCodes /\ "noise_suppressed" \in SkipCodes /\ "flapping" \in SkipCodes
      /\ "silenced" \in SkipCodes /\ "cooldown" \in SkipCodes /\ "periodic_no_rule" \in SkipCodes
      /\ "duplicate_no_rule" \in SkipCodes /\ "no_match" \in SkipCodes
  BY DEF SkipCodes
<1>t. /\ time \in Nat /\ last \in Nat \cup {-1} /\ Cooldown \in Nat /\ Reminder \in Nat
  BY PolicyAssumption DEF Time, Unset
<1>5. ASSUME noise \/ flapping \/ Silenced(tables.silences, alert, seen)
      PROVE  Good(DecideForwarding(seen, noise, flapping, last))
  <2>1. \E c \in SkipCodes : DecideForwarding(seen, noise, flapping, last) = Skip(c)
    BY <1>4, <1>5, Zenon DEF DecideForwarding
  <2> HIDE DEF Good
  <2> QED BY <2>1, <1>2, Zenon
<1>6. ASSUME ~(noise \/ flapping \/ Silenced(tables.silences, alert, seen)), ~seen.dup
      PROVE  Good(DecideForwarding(seen, noise, flapping, last))
  <2>1. DecideForwarding(seen, noise, flapping, last)
          = IF rules = <<>> THEN Skip("no_match") ELSE Forward(rules, FALSE)
    BY <1>6, Zenon DEF DecideForwarding
  <2>2. Good(Forward(rules, FALSE))
    BY <1>3, <1>4, <1>6
  <2> HIDE DEF Good, rules
  <2> QED BY <2>1, <2>2, <1>2, <1>4, Zenon
<1>7. ASSUME ~(noise \/ flapping \/ Silenced(tables.silences, alert, seen)), seen.dup
      PROVE  Good(DecideForwarding(seen, noise, flapping, last))
  <2>1. DecideForwarding(seen, noise, flapping, last) = DecideDuplicate(rules, last)
    BY <1>7, Zenon DEF DecideForwarding
  <2> DEFINE cooling == last # Unset /\ time - last < Cooldown
             due == last # Unset /\ time - last >= Reminder
  <2>2. DecideDuplicate(rules, last)
          = IF cooling THEN Skip("cooldown")
            ELSE IF due THEN IF rules = <<>> THEN [Skip("periodic_no_rule") EXCEPT !.reminder = TRUE]
                             ELSE Forward(rules, TRUE)
            ELSE IF rules = <<>> THEN Skip("duplicate_no_rule") ELSE Forward(rules, FALSE)
    BY Zenon DEF DecideDuplicate
  <2>3. ~cooling => (last # Unset => time - last >= Cooldown)
    BY <1>t DEF Unset
  <2>4. ~cooling /\ due => Good(Forward(rules, TRUE))
    BY <2>3, <1>3, <1>4, <1>7
  <2>5. ~cooling => Good(Forward(rules, FALSE))
    BY <2>3, <1>3, <1>4, <1>7
  <2> HIDE DEF cooling, due, Good, rules
  <2> QED BY <2>1, <2>2, <2>4, <2>5, <1>2, <1>4, Zenon
<1>8. Good(d)
  <2> HIDE DEF Good
  <2> QED BY <1>5, <1>6, <1>7
<1> QED BY <1>8, Zenon

\* A silence that covers an alert as far as its analysis knows it covers it at the
\* decision too.
LEMMA SilenceLasts ==
    ASSUME tables \in TableStates, NEW an, NEW dup,
           Silenced(tables.silences, alert, AtAnalysis(alert, ""))
    PROVE  Silenced(tables.silences, alert, AtDecision(an, dup))
<1> DEFINE s == tables.silences
           m(i) == [s[i] EXCEPT !.dup = "all"]
           early == AtAnalysis(alert, "")
           late == AtDecision(an, dup)
<1>1. PICK i \in DOMAIN s : RuleMatches(m(i), alert, early)
  BY Zenon DEF Silenced
<1>2. /\ DOMAIN s[i] = DOMAIN NoCriteria
      /\ "" \notin s[i].etype \cup s[i].imp
  BY TablesAssumption, Zenon
<1>3. DOMAIN NoCriteria = {"etype", "imp", "src", "dup", "project", "region", "env", "pay"}
  BY DEF NoCriteria
<1>4. /\ m(i).etype = s[i].etype /\ m(i).imp = s[i].imp /\ m(i).dup = "all"
  BY <1>2, <1>3
<1>5. early.etype = "" /\ early.imp = "" /\ early.src = late.src
  BY DEF AtAnalysis, AtDecision
<1> DEFINE c == m(i)
<1>6. /\ c.etype # {} => early.etype \in c.etype
      /\ c.imp # {} => early.imp \in c.imp
      /\ c.src # {} => early.src \in c.src
      /\ CsvMatches(c.project, ExtractProject(alert))
      /\ CsvMatches(c.region, alert.region)
      /\ EnvironmentMatches(c.env, ExtractEnvironment(alert))
      /\ PayloadMatches(c.pay, alert)
  BY <1>1, Zenon DEF RuleMatches
<1>7. c.etype = {} /\ c.imp = {} /\ c.dup = "all"
  BY <1>2, <1>4, <1>5, <1>6
<1> HIDE DEF c
<1>8. RuleMatches(c, alert, late)
  <2>1. c.dup # "new" /\ c.dup # "duplicate"
    BY <1>7
  <2> HIDE DEF early, late
  <2> QED BY <1>5, <1>6, <1>7, <2>1, Zenon DEF RuleMatches
<1> QED BY <1>8, Zenon DEF Silenced, c

-----------------------------------------------------------------------------
(* The runs under way *)

\* A run more or a run less is one more or less under way.
LEMMA InFlightCounts ==
    ASSUME runs \in [RoutingWorkers -> PipelineRun], NEW w \in RoutingWorkers, NEW r,
           runs' = [runs EXCEPT ![w] = r]
    PROVE  /\ InFlight \in Nat
           /\ InFlight' \in Nat
           /\ runs[w].pc # "idle" => InFlight >= 1
           /\ runs[w].pc # "idle" /\ r.pc # "idle" => InFlight' = InFlight
           /\ runs[w].pc = "idle" => InFlight' <= InFlight + 1
           /\ runs[w].pc # "idle" /\ r.pc = "idle" => InFlight' = InFlight - 1
<1> DEFINE F == {v \in RoutingWorkers : runs[v].pc # "idle"}
           G == {v \in RoutingWorkers : runs'[v].pc # "idle"}
<1>1. IsFiniteSet(RoutingWorkers)
  BY TablesAssumption
<1>2. IsFiniteSet(F) /\ IsFiniteSet(G)
  BY <1>1, FS_Subset
<1>3. Cardinality(F) \in Nat /\ Cardinality(G) \in Nat
  BY <1>2, FS_CardinalityType
<1>4. InFlight = Cardinality(F) /\ InFlight' = Cardinality(G)
  BY DEF InFlight
<1>5. runs'[w] = r /\ \A v \in RoutingWorkers \ {w} : runs'[v] = runs[v]
  OBVIOUS
<1>6. ASSUME runs[w].pc # "idle" PROVE Cardinality(F) >= 1
  <2>1. w \in F
    BY <1>6
  <2>2. Cardinality(F) # 0
    BY <2>1, <1>2, FS_EmptySet
  <2> QED BY <2>2, <1>3
<1>7. ASSUME runs[w].pc # "idle", r.pc # "idle" PROVE G = F
  BY <1>5, <1>7
<1>8. ASSUME runs[w].pc = "idle" PROVE Cardinality(G) <= Cardinality(F) + 1
  <2>1. G = F \/ G = F \cup {w}
    BY <1>5, <1>8
  <2>2. w \notin F
    BY <1>8
  <2>3. Cardinality(F \cup {w}) = Cardinality(F) + 1
    BY <2>2, <1>2, FS_AddElement
  <2> HIDE DEF F, G
  <2> QED BY <2>1, <2>3, <1>3
<1>9. ASSUME runs[w].pc # "idle", r.pc = "idle" PROVE Cardinality(G) = Cardinality(F) - 1
  <2>1. w \in F /\ G = F \ {w}
    BY <1>5, <1>9
  <2>2. Cardinality(F \ {w}) = Cardinality(F) - 1
    BY <2>1, <1>2, FS_RemoveElement
  <2> QED BY <2>1, <2>2
<1> QED BY <1>3, <1>4, <1>6, <1>7, <1>8, <1>9

\* An observation leaves the run ready to be persisted, with the tables it saw.
LEMMA ObservationDoes ==
    ASSUME RoutingTypeOK, NEW w \in RoutingWorkers, NEW run \in PipelineRun, ObserveFlapping(w, run)
    PROVE  /\ flap'.last \in Keys \cup {"none"}
           /\ \E r \in PipelineRun :
                 /\ runs' = [runs EXCEPT ![w] = r]
                 /\ r.pc = "persist" /\ r.an = run.an /\ r.root = run.root /\ r.hushed = run.hushed
                 /\ r.inbound = tables.inbound
<1>1. PICK done \in BOOLEAN, answered \in BOOLEAN :
         /\ flap' = IF done THEN Observed(run.key) ELSE flap
         /\ runs' = [runs EXCEPT ![w] =
               [run EXCEPT !.pc = "persist", !.inbound = tables.inbound,
                           !.seenAt = IF done THEN time ELSE Unset,
                           !.flapping = answered /\ Len(flap'.flips) >= MinTransitions]]
  BY Zenon DEF ObserveFlapping
<1> DEFINE at == IF done THEN time ELSE Unset
           muted == answered /\ Len(flap'.flips) >= MinTransitions
           r == [run EXCEPT !.pc = "persist", !.inbound = tables.inbound, !.seenAt = at, !.flapping = muted]
<1>2. at \in Time \cup {Unset} /\ tables.inbound \in Inbounds
  BY DEF RoutingTypeOK, Inbounds
<1>3. muted \in BOOLEAN
  BY <1>1
<1>4. Observed(run.key).last = run.key /\ run.key \in Keys
  BY DEF Observed, PipelineRun
<1>5. flap'.last \in Keys \cup {"none"}
  BY <1>1, <1>4, Zenon DEF RoutingTypeOK
<1>6. runs' = [runs EXCEPT ![w] = r]
  BY <1>1, Zenon
<1> HIDE DEF at, muted
<1>7. /\ r \in PipelineRun
      /\ r.pc = "persist" /\ r.an = run.an /\ r.root = run.root /\ r.hushed = run.hushed
      /\ r.inbound = tables.inbound
  BY <1>2, <1>3 DEF PipelineRun
<1> QED BY <1>5, <1>6, <1>7

-----------------------------------------------------------------------------
(* The steps *)

\* What a step that leaves events, rows and their stamps alone keeps.
LEMMA AtRestKept ==
    ASSUME RoutingInv, UNCHANGED <<alert, events, rows, notified>>,
           time' \in Time, time <= time', edited => edited'
    PROVE  RowsSound' /\ Stamped' /\ CapRespected' /\ CadenceKept' /\ JudgedBeforeForwarded'
<1>u. time \in Time /\ alert' = alert /\ events' = events /\ rows' = rows /\ notified' = notified
  BY DEF RoutingInv, RoutingTypeOK
<1>t. time \in Nat /\ time' \in Nat
  BY <1>u, PolicyAssumption DEF Time
<1>1. RowsSound'
  <2>1. RowsSound
    BY DEF RoutingInv
  <2> QED BY <1>t, <1>u, <2>1, SMT DEF RowsSound, RowKeys
<1>2. Stamped'
  BY <1>u, Zenon DEF RoutingInv, Stamped
<1>3. CapRespected'
  BY <1>u, Zenon DEF RoutingInv, CapRespected
<1>4. CadenceKept'
  BY <1>u, Zenon DEF RoutingInv, CadenceKept
<1>5. JudgedBeforeForwarded'
  BY <1>u, Zenon DEF RoutingInv, JudgedBeforeForwarded
<1> QED BY <1>1, <1>2, <1>3, <1>4, <1>5

LEMMA ExcusedStays ==
    ASSUME edited' = edited, tables' = tables, alert' = alert
    PROVE  Excused => Excused'
BY DEF Excused

\* A run's analysis ends: what the run stands for goes with it.
LEMMA ObservationKeeps ==
    ASSUME RoutingInv, NEW w \in RoutingWorkers, NEW run \in PipelineRun, NEW an \in Analyses,
           ObserveFlapping(w, run),
           UNCHANGED <<time, alert, tables, override, memo, events, rows, notified, edited>>,
           runs[w].pc # "idle" \/ Len(events) + InFlight < MaxEvents,
           run.an = Shaped(an), an.route # "pending", Grounded(an, run.hushed, Excused),
           run.root # Unset => Original(events, run.root)
    PROVE  RoutingInv'
<1>t. RoutingTypeOK /\ tables \in TableStates /\ time \in Time
  BY DEF RoutingInv, RoutingTypeOK
<1>u. /\ time' = time /\ alert' = alert /\ tables' = tables /\ override' = override /\ memo' = memo
      /\ events' = events /\ rows' = rows /\ notified' = notified /\ edited' = edited
  OBVIOUS
<1>1. PICK r \in PipelineRun :
         /\ runs' = [runs EXCEPT ![w] = r]
         /\ r.pc = "persist" /\ r.an = run.an /\ r.root = run.root /\ r.hushed = run.hushed
         /\ r.inbound = tables.inbound
  BY <1>t, ObservationDoes, Zenon
<1>2. flap'.last \in Keys \cup {"none"}
  BY <1>t, ObservationDoes, Zenon
<1>3. /\ r.an.route = an.route /\ r.an.imp \in DOMAIN Rank \cup {an.imp}
      /\ CapKept(alert, r.an, tables.inbound)
  BY <1>1, <1>t, ShapedDoes
<1>4. runs' \in [RoutingWorkers -> PipelineRun]
  BY <1>1, <1>t DEF RoutingTypeOK
<1>5. runs'[w] = r /\ \A v \in RoutingWorkers : v # w => runs'[v] = runs[v]
  BY <1>1, <1>t DEF RoutingTypeOK
<1>6. RoutingTypeOK'
  BY <1>t, <1>2, <1>4 DEF RoutingTypeOK
<1>7. RoomLeft'
  <2>1. /\ InFlight \in Nat /\ InFlight' \in Nat
        /\ runs[w].pc # "idle" => InFlight' = InFlight
        /\ runs[w].pc = "idle" => InFlight' <= InFlight + 1
    <3>1. r.pc # "idle" /\ runs \in [RoutingWorkers -> PipelineRun]
      BY <1>1, <1>t DEF RoutingTypeOK
    <3> QED BY <1>1, <3>1, InFlightCounts
  <2>2. Len(events) \in Nat /\ MaxEvents \in Nat
    BY <1>t, PolicyAssumption, LenProperties DEF RoutingTypeOK
  <2>3. Len(events) + InFlight <= MaxEvents
    BY DEF RoutingInv, RoomLeft
  <2>4. Len(events) + InFlight' <= MaxEvents
    BY <2>1, <2>2, <2>3
  <2> QED BY <2>4 DEF RoomLeft
<1>8. ThreadsSound'
  BY <1>1, <1>5, <1>u, Zenon DEF RoutingInv, ThreadsSound
<1>9. UnjudgedSilenced'
  <2>1. Grounded(r.an, r.hushed, Excused)
    <3>1. "unknown" \notin DOMAIN Rank
      BY DEF Rank
    <3> QED BY <3>1, <1>1, <1>3, Zenon DEF Grounded
  <2>2. r.an.route # "pending"
    BY <1>3
  <2>3. /\ \A k \in Keys : Grounded(memo[k].an, memo[k].hushed, Excused)
        /\ \A v \in RoutingWorkers : runs[v].an.route # "pending" /\ Grounded(runs[v].an, runs[v].hushed, Excused)
    BY Zenon DEF RoutingInv, UnjudgedSilenced
  <2>4. \A v \in RoutingWorkers : runs'[v].an.route # "pending" /\ Grounded(runs'[v].an, runs'[v].hushed, Excused)
    BY <1>5, <2>1, <2>2, <2>3, Zenon
  <2>5. Excused => Excused'
    BY <1>u, ExcusedStays
  <2> QED BY <2>3, <2>4, <2>5, <1>u, Zenon DEF UnjudgedSilenced, Grounded
<1>10. CapsKept'
  <2>1. \A v \in RoutingWorkers : runs'[v].pc = "persist" => CapKept(alert, runs'[v].an, runs'[v].inbound)
    BY <1>1, <1>3, <1>5, Zenon DEF RoutingInv, CapsKept
  <2> QED BY <2>1, <1>u, Zenon DEF CapsKept
<1>11. RowsSound' /\ Stamped' /\ CapRespected' /\ CadenceKept' /\ JudgedBeforeForwarded'
  <2>1. time' \in Time /\ time <= time'
    BY <1>t, <1>u, PolicyAssumption DEF Time
  <2> QED BY <1>u, <2>1, AtRestKept
<1> QED BY <1>6, <1>7, <1>8, <1>9, <1>10, <1>11 DEF RoutingInv

LEMMA PlainAnalyses ==
    /\ NoAnalysis \in Analyses /\ Unknown \in Analyses /\ Pending \in Analyses
    /\ Unknown.route # "pending" /\ NoAnalysis.imp # "unknown" /\ Pending.route = "pending"
    /\ NoAnalysis.route # "pending"
BY DEF NoAnalysis, Unknown, Pending, Analyses, Importances, Routes

LEMMA FreeRunIs ==
    /\ FreeRun \in PipelineRun /\ FreeRun.pc = "idle" /\ FreeRun.root = Unset
    /\ FreeRun.an = NoAnalysis
BY PlainAnalyses DEF FreeRun, PipelineRun, Keys, Inbounds

LEMMA ReuseKeeps ==
    ASSUME RoutingInv, NEW w \in RoutingWorkers, NEW k \in Keys, NEW act \in {"reuse", "rechain"},
           ReuseAnalysis(w, k, act)
    PROVE  RoutingInv'
<1> DEFINE route == IF act = "reuse" THEN "redis_reuse" ELSE "rechain"
           an == [memo[k].an EXCEPT !.route = route]
           root == IF act = "reuse" THEN memo[k].root ELSE Unset
           shaped == Shaped(an)
           hushed == memo[k].hushed
           run == [FreeRun EXCEPT !.key = k, !.act = act, !.hushed = hushed, !.root = root, !.an = shaped]
<1>1. /\ ObserveFlapping(w, run) /\ Len(events) + InFlight < MaxEvents /\ HasReusable(memo[k].an)
      /\ UNCHANGED <<time, alert, tables, override, memo, events, rows, notified, edited>>
  BY Zenon DEF ReuseAnalysis, Receive
<1>2. /\ memo[k].an \in Analyses /\ memo[k].root \in EventIds \cup {Unset} /\ hushed \in BOOLEAN
      /\ tables \in TableStates
  BY DEF RoutingInv, RoutingTypeOK
<1>3. route \in Routes /\ route # "pending"
  BY DEF Routes
<1> HIDE DEF route
<1>4. an \in Analyses /\ an.route # "pending" /\ an.imp = memo[k].an.imp
  BY <1>2, <1>3 DEF Analyses
<1>5. Grounded(an, hushed, Excused)
  <2>1. Grounded(memo[k].an, hushed, Excused) /\ memo[k].an.route # "pending"
    BY <1>1 DEF RoutingInv, UnjudgedSilenced, HasReusable
  <2> QED BY <2>1, <1>4, Zenon DEF Grounded
<1>6. root # Unset => Original(events, root)
  BY Zenon DEF RoutingInv, ThreadsSound
<1>7. shaped \in Analyses /\ root \in EventIds \cup {Unset}
  BY <1>2, <1>4, ShapedDoes
<1> HIDE DEF an, root, shaped, hushed
<1>8. run \in PipelineRun /\ run.an = shaped /\ run.hushed = hushed /\ run.root = root
  BY <1>2, <1>7, FreeRunIs DEF PipelineRun
<1>9. shaped = Shaped(an)
  BY DEF shaped
<1> HIDE DEF run
<1> QED BY <1>1, <1>4, <1>5, <1>6, <1>8, <1>9, ObservationKeeps

LEMMA SilencedSkipKeeps ==
    ASSUME RoutingInv, NEW w \in RoutingWorkers, NEW k \in Keys, SilencedSkip(w, k)
    PROVE  RoutingInv'
<1> DEFINE shaped == Shaped(Unknown)
           run == [FreeRun EXCEPT !.key = k, !.hushed = TRUE, !.an = shaped]
<1>1. /\ ObserveFlapping(w, run) /\ Len(events) + InFlight < MaxEvents
      /\ Silenced(tables.silences, alert, AtAnalysis(alert, ""))
      /\ UNCHANGED <<time, alert, tables, override, memo, events, rows, notified, edited>>
  BY Zenon DEF SilencedSkip, Receive
<1>2. tables \in TableStates
  BY DEF RoutingInv, RoutingTypeOK
<1>3. shaped \in Analyses
  BY <1>2, PlainAnalyses, ShapedDoes
<1>4. Grounded(Unknown, TRUE, Excused)
  BY <1>1 DEF Grounded, Excused
<1>5. shaped = Shaped(Unknown)
  OBVIOUS
<1> HIDE DEF shaped
<1>6. run \in PipelineRun /\ run.an = shaped /\ run.hushed = TRUE /\ run.root = Unset
  BY <1>3, FreeRunIs DEF PipelineRun
<1> HIDE DEF run
<1> QED BY <1>1, <1>4, <1>5, <1>6, PlainAnalyses, ObservationKeeps

LEMMA AnalysedKeeps ==
    ASSUME RoutingInv, NEW w \in RoutingWorkers, NEW v \in alert.verdicts, Analysed(w, v)
    PROVE  RoutingInv'
<1> DEFINE skips == InboundActions(tables.inbound, alert, AtAnalysis(alert, ""), alert.name)
           route == IF "skip_ai" \in skips /\ ~v.cached THEN "rule_excluded" ELSE "ai"
           judged == IF override # "" THEN override ELSE v.imp
           an == [imp |-> judged, route |-> route, digest |-> FALSE]
           shaped == Shaped(an)
           run == [runs[w] EXCEPT !.noise = v.derived, !.an = shaped]
<1>1. /\ ObserveFlapping(w, run) /\ runs[w].pc = "ai"
      /\ UNCHANGED <<time, alert, tables, override, memo, events, rows, notified, edited>>
  BY Zenon DEF Analysed
<1>2. tables \in TableStates /\ runs[w] \in PipelineRun /\ override \in DOMAIN Rank \cup {""}
  BY DEF RoutingInv, RoutingTypeOK
<1>3. v.imp \in DOMAIN Rank /\ v.derived \in BOOLEAN
  <2>1. PICK sc \in Scenarios : alert = sc.alert
    BY DEF RoutingInv, RoutingTypeOK
  <2> QED BY <2>1, TablesAssumption
<1>4. judged \in DOMAIN Rank /\ judged \in Importances /\ judged # "unknown"
  BY <1>2, <1>3, RankValues DEF Importances
<1>5. route \in Routes /\ route # "pending"
  BY DEF Routes
<1> HIDE DEF judged, route
<1>6. an \in Analyses /\ an.route # "pending" /\ an.imp # "unknown"
  BY <1>4, <1>5 DEF Analyses
<1> HIDE DEF an
<1>7. Grounded(an, runs[w].hushed, Excused)
  BY <1>6 DEF Grounded
<1>8. shaped \in Analyses
  BY <1>2, <1>6, ShapedDoes
<1>9. shaped = Shaped(an)
  OBVIOUS
<1> HIDE DEF shaped
<1>10. run \in PipelineRun /\ run.an = shaped /\ run.hushed = runs[w].hushed /\ run.root = runs[w].root
  BY <1>2, <1>3, <1>8 DEF PipelineRun
<1>11. runs[w].root # Unset => Original(events, runs[w].root)
  BY Zenon DEF RoutingInv, ThreadsSound
<1>12. runs[w].pc # "idle"
  BY <1>1
<1> HIDE DEF run
<1> QED BY <1>1, <1>6, <1>7, <1>9, <1>10, <1>11, <1>12, ObservationKeeps

\* A run that starts to wait for the model, or dies there, stands for nothing.
LEMMA WaitingKeeps ==
    ASSUME RoutingInv, NEW w \in RoutingWorkers, NEW r \in PipelineRun,
           runs' = [runs EXCEPT ![w] = r], r.pc # "persist", r.an = NoAnalysis, r.root = Unset,
           UNCHANGED <<time, alert, tables, override, events, rows, notified, edited, flap>>,
           runs[w].pc # "idle" \/ Len(events) + InFlight < MaxEvents,
           \A k \in Keys : memo'[k] = memo[k] \/ (memo'[k].an = Pending /\ memo'[k].root = Unset),
           memo' \in [Keys -> [an : Analyses, root : EventIds \cup {Unset}, hushed : BOOLEAN]]
    PROVE  RoutingInv'
<1>t. RoutingTypeOK /\ time \in Time
  BY DEF RoutingInv, RoutingTypeOK
<1>u. /\ time' = time /\ alert' = alert /\ tables' = tables /\ override' = override
      /\ events' = events /\ rows' = rows /\ notified' = notified /\ edited' = edited /\ flap' = flap
  OBVIOUS
<1>4. runs' \in [RoutingWorkers -> PipelineRun] /\ runs \in [RoutingWorkers -> PipelineRun]
  BY <1>t DEF RoutingTypeOK
<1>5. runs'[w] = r /\ \A v \in RoutingWorkers : v # w => runs'[v] = runs[v]
  BY <1>4
<1>6. RoutingTypeOK'
  BY <1>t, <1>4, <1>u DEF RoutingTypeOK
<1>7. RoomLeft'
  <2>1. /\ InFlight \in Nat /\ InFlight' \in Nat
        /\ runs[w].pc # "idle" => InFlight' <= InFlight
        /\ runs[w].pc = "idle" => InFlight' <= InFlight + 1
    <3>1. /\ InFlight \in Nat /\ InFlight' \in Nat
          /\ runs[w].pc # "idle" /\ r.pc # "idle" => InFlight' = InFlight
          /\ runs[w].pc = "idle" => InFlight' <= InFlight + 1
          /\ runs[w].pc # "idle" /\ r.pc = "idle" => InFlight' = InFlight - 1
      BY <1>4, InFlightCounts
    <3> QED BY <3>1
  <2>2. Len(events) \in Nat /\ MaxEvents \in Nat
    BY <1>t, PolicyAssumption, LenProperties DEF RoutingTypeOK
  <2>3. Len(events) + InFlight <= MaxEvents
    BY DEF RoutingInv, RoomLeft
  <2>4. Len(events) + InFlight' <= MaxEvents
    BY <2>1, <2>2, <2>3
  <2> QED BY <2>4, <1>u DEF RoomLeft
<1>8. ThreadsSound'
  BY <1>5, <1>u, Zenon DEF RoutingInv, ThreadsSound
<1>9. UnjudgedSilenced'
  <2>1. Excused' = Excused
    BY <1>u DEF Excused
  <2>2. Grounded(NoAnalysis, r.hushed, Excused) /\ \A b : Grounded(Pending, b, Excused)
    BY PlainAnalyses DEF Grounded
  <2> QED BY <2>1, <2>2, <1>5, PlainAnalyses, Zenon DEF RoutingInv, UnjudgedSilenced
<1>10. CapsKept'
  BY <1>5, <1>u, Zenon DEF RoutingInv, CapsKept
<1>11. RowsSound' /\ Stamped' /\ CapRespected' /\ CadenceKept' /\ JudgedBeforeForwarded'
  <2>1. time' \in Time /\ time <= time'
    BY <1>t, <1>u, PolicyAssumption DEF Time
  <2> QED BY <1>u, <2>1, AtRestKept
<1> QED BY <1>6, <1>7, <1>8, <1>9, <1>10, <1>11 DEF RoutingInv

LEMMA StartAnalysisKeeps ==
    ASSUME RoutingInv, NEW w \in RoutingWorkers, NEW k \in Keys, StartAnalysis(w, k)
    PROVE  RoutingInv'
<1> DEFINE r == [FreeRun EXCEPT !.pc = "ai", !.key = k]
           m == [an |-> Pending, root |-> Unset, hushed |-> FALSE]
<1>1. /\ runs' = [runs EXCEPT ![w] = r] /\ memo' = [memo EXCEPT ![k] = m]
      /\ Len(events) + InFlight < MaxEvents
      /\ UNCHANGED <<time, alert, tables, override, events, rows, notified, edited, flap>>
  BY Zenon DEF StartAnalysis, Receive
<1>2. r \in PipelineRun /\ r.pc # "persist" /\ r.an = NoAnalysis /\ r.root = Unset
  BY FreeRunIs DEF PipelineRun
<1>3. memo \in [Keys -> [an : Analyses, root : EventIds \cup {Unset}, hushed : BOOLEAN]]
  BY DEF RoutingInv, RoutingTypeOK
<1>4. m \in [an : Analyses, root : EventIds \cup {Unset}, hushed : BOOLEAN]
  BY PlainAnalyses
<1>5. m.an = Pending /\ m.root = Unset
  OBVIOUS
<1> HIDE DEF r, m
<1>6. /\ memo' \in [Keys -> [an : Analyses, root : EventIds \cup {Unset}, hushed : BOOLEAN]]
      /\ \A j \in Keys : memo'[j] = memo[j] \/ (memo'[j].an = Pending /\ memo'[j].root = Unset)
  BY <1>1, <1>3, <1>4, <1>5
<1> QED BY <1>1, <1>2, <1>6, WaitingKeeps

LEMMA AnalysisDiesKeeps ==
    ASSUME RoutingInv, NEW w \in RoutingWorkers, AnalysisDies(w)
    PROVE  RoutingInv'
<1>1. /\ runs' = [runs EXCEPT ![w] = FreeRun] /\ memo' = memo /\ runs[w].pc # "idle"
      /\ UNCHANGED <<time, alert, tables, override, events, rows, notified, edited, flap>>
  BY DEF AnalysisDies
<1>2. memo \in [Keys -> [an : Analyses, root : EventIds \cup {Unset}, hushed : BOOLEAN]]
  BY DEF RoutingInv, RoutingTypeOK
<1>3. FreeRun.pc # "persist"
  BY FreeRunIs
<1> QED BY <1>1, <1>2, <1>3, FreeRunIs, WaitingKeeps

\* An operator's edit, a correction and the clock.
LEMMA EditsKeep ==
    ASSUME RoutingInv,
           \/ \E t \in TableStates : EditTables(t)
           \/ \E imp \in DOMAIN Rank : CorrectImportance(imp)
           \/ TimePasses
    PROVE  RoutingInv'
<1>t. RoutingTypeOK /\ time \in Time /\ tables \in TableStates /\ override \in DOMAIN Rank \cup {""}
  BY DEF RoutingInv, RoutingTypeOK
<1>u. /\ alert' = alert /\ runs' = runs /\ memo' = memo /\ flap' = flap
      /\ events' = events /\ rows' = rows /\ notified' = notified
  BY DEF EditTables, CorrectImportance, TimePasses
<1>1. time' \in Time /\ time <= time'
  <2>1. time' = time \/ (time' = time + 1 /\ time < MaxRoutingTime)
    BY DEF EditTables, CorrectImportance, TimePasses
  <2>2. time \in Nat /\ MaxRoutingTime \in Nat /\ time <= MaxRoutingTime
    <3>1. time \in Time
      BY <1>t
    <3> QED BY <3>1, PolicyAssumption DEF Time
  <2> QED BY <2>1, <2>2 DEF Time
<1>2. tables' \in TableStates /\ override' \in DOMAIN Rank \cup {""}
  BY <1>t DEF EditTables, CorrectImportance, TimePasses
<1>3. Excused => Excused'
  BY DEF EditTables, CorrectImportance, TimePasses, Excused
<1>4. edited => edited'
  BY DEF EditTables, CorrectImportance, TimePasses
<1>6. RoutingTypeOK'
  BY <1>t, <1>1, <1>2, <1>u DEF RoutingTypeOK
<1>7. RoomLeft'
  BY <1>u DEF RoutingInv, RoomLeft, InFlight
<1>8. ThreadsSound'
  BY <1>u, Zenon DEF RoutingInv, ThreadsSound
<1>9. UnjudgedSilenced'
  BY <1>3, <1>u, Zenon DEF RoutingInv, UnjudgedSilenced, Grounded
<1>10. CapsKept'
  BY <1>u, Zenon DEF RoutingInv, CapsKept
<1>11. RowsSound' /\ Stamped' /\ CapRespected' /\ CadenceKept' /\ JudgedBeforeForwarded'
  BY <1>u, <1>1, <1>4, AtRestKept
<1> QED BY <1>6, <1>7, <1>8, <1>9, <1>10, <1>11 DEF RoutingInv

\* A delivery: the row is sent now, and its thread stamped with it.
LEMMA AnnounceKeeps ==
    ASSUME RoutingInv, NEW r \in rows, Announce(r)
    PROVE  RoutingInv'
<1> DEFINE s == [r EXCEPT !.sent = time]
<1>t. RoutingTypeOK /\ time \in Time /\ notified \in [EventIds -> Time \cup {Unset}]
  BY DEF RoutingInv, RoutingTypeOK
<1>n. time \in Nat /\ Time \subseteq Nat /\ Unset = -1
  BY <1>t, PolicyAssumption DEF Time, Unset
<1>u. /\ time' = time /\ alert' = alert /\ tables' = tables /\ override' = override /\ memo' = memo
      /\ runs' = runs /\ events' = events /\ flap' = flap /\ edited' = edited
  BY DEF Announce
<1>1. /\ r.sent = Unset /\ rows' = (rows \ {r}) \cup {s}
      /\ notified' = [e \in EventIds |-> IF e \in {r.event, r.root} THEN time ELSE notified[e]]
  BY DEF Announce, Announced
<1>2. /\ DOMAIN r = RowKeys /\ r.event \in DOMAIN events /\ r.root = events[r.event].root
  BY DEF RoutingInv, RowsSound
<1>3. /\ DOMAIN s = RowKeys /\ s.event = r.event /\ s.root = r.root /\ s.sent = time
      /\ s.reminder = r.reminder
  BY <1>2 DEF RowKeys
<1> HIDE DEF s
<1>4. \A q \in rows' : (q \in rows /\ q # r) \/ q = s
  BY <1>1
<1>5. \A q \in rows : q # r => q \in rows'
  BY <1>1
<1>6. RoutingTypeOK'
  <2>1. notified' \in [EventIds -> Time \cup {Unset}]
    BY <1>1, <1>t
  <2>2. \A q \in rows' : q.event \in DOMAIN events
    BY <1>2, <1>3, <1>4, <1>t DEF RoutingTypeOK
  <2> QED BY <2>1, <2>2, <1>t, <1>u DEF RoutingTypeOK
<1>7. RoomLeft'
  BY <1>u DEF RoutingInv, RoomLeft, InFlight
<1>8. ThreadsSound'
  BY <1>u, Zenon DEF RoutingInv, ThreadsSound
<1>9. UnjudgedSilenced'
  BY <1>u, Zenon DEF RoutingInv, UnjudgedSilenced, Excused
<1>10. CapsKept'
  BY <1>u, Zenon DEF RoutingInv, CapsKept
<1>11. RowsSound'
  <2>1. \A q \in rows : /\ DOMAIN q = RowKeys /\ q.event \in DOMAIN events
                        /\ q.root = events[q.event].root /\ q.sent \in 0 .. time \cup {Unset}
    BY DEF RoutingInv, RowsSound
  <2>2. s.sent \in 0 .. time \cup {Unset}
    BY <1>3, <1>n
  <2>3. \A q \in rows' : /\ DOMAIN q = RowKeys /\ q.event \in DOMAIN events
                         /\ q.root = events[q.event].root /\ q.sent \in 0 .. time \cup {Unset}
    BY <2>1, <2>2, <1>2, <1>3, <1>4, Zenon
  <2> QED BY <2>3, <1>u, Zenon DEF RowsSound
<1>12. Stamped'
  <2> SUFFICES ASSUME NEW e \in EventIds, e \notin DOMAIN events \/ Original(events, e)
               PROVE  /\ \A q \in rows' : q.root = e => q.sent <= notified'[e]
                      /\ notified'[e] # Unset => \E q \in rows' : q.root = e /\ q.sent = notified'[e]
    BY <1>u, Zenon DEF Stamped
  <2>1. /\ \A q \in rows : q.root = e => q.sent <= notified[e]
        /\ notified[e] # Unset => \E q \in rows : q.root = e /\ q.sent = notified[e]
    BY Zenon DEF RoutingInv, Stamped
  <2>2. \A q \in rows : q.sent \in 0 .. time \cup {Unset}
    BY DEF RoutingInv, RowsSound
  <2>3. e = r.event => e = r.root
    BY <1>2 DEF Original
  <2>4. CASE e = r.root
    <3>1. notified'[e] = time
      BY <1>1, <2>4
    <3>2. \A q \in rows' : q.sent <= time
      BY <1>3, <1>4, <1>n, <2>2
    <3>3. s \in rows' /\ s.root = e /\ s.sent = time
      BY <1>1, <1>3, <2>4
    <3> QED BY <3>1, <3>2, <3>3
  <2>5. CASE e # r.root
    <3>1. notified'[e] = notified[e]
      BY <1>1, <2>3, <2>5
    <3>2. \A q \in rows' : q.root = e => q.sent <= notified[e]
      BY <1>3, <1>4, <2>1, <2>5
    <3>3. notified[e] # Unset => \E q \in rows' : q.root = e /\ q.sent = notified[e]
      BY <1>5, <2>1, <2>5
    <3> QED BY <3>1, <3>2, <3>3
  <2> QED BY <2>4, <2>5
<1>13. CapRespected'
  BY <1>u, Zenon DEF RoutingInv, CapRespected
<1>14. CadenceKept'
  BY <1>3, <1>4, <1>u, Zenon DEF RoutingInv, CadenceKept
<1>15. JudgedBeforeForwarded'
  BY <1>3, <1>4, <1>u, Zenon DEF RoutingInv, JudgedBeforeForwarded
<1> QED BY <1>6, <1>7, <1>8, <1>9, <1>10, <1>11, <1>12, <1>13, <1>14, <1>15 DEF RoutingInv

\* The stamp of a thread is its newest announcement.
LEMMA StampIsLast ==
    ASSUME RoutingInv, NEW e \in EventIds, e \notin DOMAIN events \/ Original(events, e)
    PROVE  notified[e] = LastSent(e) /\ notified[e] \in Time \cup {Unset}
<1> DEFINE sent == {r.sent : r \in {x \in rows : x.root = e /\ x.sent # Unset}}
<1>t. notified[e] \in Time \cup {Unset} /\ time \in Time
  BY DEF RoutingInv, RoutingTypeOK
<1>n. Time \subseteq Nat /\ Unset = -1 /\ time \in Nat
  BY <1>t, PolicyAssumption DEF Time, Unset
<1>1. /\ \A r \in rows : r.root = e => r.sent <= notified[e]
      /\ notified[e] # Unset => \E r \in rows : r.root = e /\ r.sent = notified[e]
  BY Zenon DEF RoutingInv, Stamped
<1>2. \A r \in rows : r.sent \in 0 .. time \cup {Unset}
  BY DEF RoutingInv, RowsSound
<1>3. LastSent(e) = IF sent = {} THEN Unset ELSE CHOOSE t \in sent : \A u \in sent : u <= t
  BY Zenon DEF LastSent
<1>4. CASE notified[e] = Unset
  <2>1. sent = {}
    <3> SUFFICES ASSUME NEW r \in rows, r.root = e, r.sent # Unset PROVE FALSE
      OBVIOUS
    <3>1. r.sent <= -1 /\ r.sent \in 0 .. time
      BY <1>1, <1>2, <1>4, <1>n
    <3> QED BY <3>1, <1>n
  <2> QED BY <2>1, <1>3, <1>4, <1>t
<1>5. CASE notified[e] # Unset
  <2>1. notified[e] \in sent
    BY <1>1, <1>5
  <2>2. \A u \in sent : u <= notified[e] /\ u \in Nat
    BY <1>1, <1>2, <1>n
  <2>3. notified[e] \in Nat
    BY <1>5, <1>t, <1>n
  <2>4. \A t \in sent : (\A u \in sent : u <= t) => t = notified[e]
    BY <2>1, <2>2, <2>3
  <2> HIDE DEF sent
  <2>5. (CHOOSE t \in sent : \A u \in sent : u <= t) = notified[e]
    BY <2>1, <2>2, <2>4
  <2> QED BY <2>1, <2>5, <1>3, <1>t
<1> QED BY <1>4, <1>5

\* The rows a decision files belong to its event and are not sent yet.
LEMMA FiledRows ==
    ASSUME NEW id, NEW root, NEW d, NEW an, NEW r \in OutboxRecords(id, root, d, an)
    PROVE  /\ DOMAIN r = RowKeys /\ r.event = id /\ r.root = root /\ r.sent = Unset
           /\ r.reminder = d.reminder
<1>1. PICK i : \E due :
         r = [event |-> id, root |-> root, rule |-> d.rules[i].id, target |-> d.rules[i].target,
              digest |-> an.digest /\ d.rules[i].target = "chat", reminder |-> d.reminder,
              due |-> due, sent |-> Unset]
  BY Zenon DEF OutboxRecords
<1>2. PICK due :
         r = [event |-> id, root |-> root, rule |-> d.rules[i].id, target |-> d.rules[i].target,
              digest |-> an.digest /\ d.rules[i].target = "chat", reminder |-> d.reminder,
              due |-> due, sent |-> Unset]
  BY <1>1
<1> QED BY <1>2 DEF RowKeys

LEMMA PersistKeeps ==
    ASSUME RoutingInv, NEW w \in RoutingWorkers, Persist(w)
    PROVE  RoutingInv'
<1> DEFINE p == runs[w]
           id == Len(events) + 1
           dup == p.act = "reuse"
           root == IF dup /\ p.root # Unset THEN p.root ELSE id
           seen == AtDecision(p.an, dup)
           d == DecideForwarding(seen, p.noise, p.flapping, notified[root])
           filed == IF d.forward THEN OutboxRecords(id, root, d, p.an) ELSE {}
           m == [an |-> p.an, root |-> root, hushed |-> p.hushed]
           ev == [key |-> p.key, dup |-> dup, root |-> root, an |-> p.an, skip |-> d.skip,
                  reminder |-> d.reminder, at |-> time, hushed |-> p.hushed,
                  lastSent |-> LastSent(root), seenAt |-> p.seenAt, inbound |-> p.inbound]
<1>1. /\ p.pc = "persist" /\ events' = Append(events, ev) /\ rows' = rows \cup filed
      /\ memo' = [memo EXCEPT ![p.key] = m] /\ runs' = [runs EXCEPT ![w] = FreeRun]
      /\ time' = time /\ alert' = alert /\ tables' = tables /\ override' = override
      /\ notified' = notified /\ flap' = flap /\ edited' = edited
  BY Zenon DEF Persist
<1>t. /\ RoutingTypeOK /\ time \in Time /\ tables \in TableStates
      /\ runs \in [RoutingWorkers -> PipelineRun] /\ p \in PipelineRun
      /\ memo \in [Keys -> [an : Analyses, root : EventIds \cup {Unset}, hushed : BOOLEAN]]
      /\ events \in Seq(Event)
  BY DEF RoutingInv, RoutingTypeOK
<1>p. /\ p.key \in Keys /\ p.act \in {"new", "reuse", "rechain"} /\ p.root \in EventIds \cup {Unset}
      /\ p.an \in Analyses /\ p.hushed \in BOOLEAN /\ p.inbound \in Inbounds
      /\ p.seenAt \in Time \cup {Unset}
  BY <1>t DEF PipelineRun
<1>n. /\ Len(events) \in Nat /\ MaxEvents \in Nat /\ DOMAIN events = 1 .. Len(events)
      /\ Time \subseteq Nat /\ Unset = -1 /\ time \in Nat
  BY <1>t, PolicyAssumption, LenProperties DEF Time, Unset
<1>2. /\ InFlight \in Nat /\ InFlight >= 1 /\ InFlight' = InFlight - 1
      /\ Len(events) + InFlight <= MaxEvents
  <2>1. FreeRun.pc = "idle" /\ runs[w].pc # "idle"
    BY <1>1, FreeRunIs
  <2>2. /\ InFlight \in Nat
        /\ runs[w].pc # "idle" => InFlight >= 1
        /\ runs[w].pc # "idle" /\ FreeRun.pc = "idle" => InFlight' = InFlight - 1
    BY <1>1, <1>t, InFlightCounts
  <2>3. Len(events) + InFlight <= MaxEvents
    BY DEF RoutingInv, RoomLeft
  <2> QED BY <2>1, <2>2, <2>3
<1>3. id \in EventIds /\ id \notin DOMAIN events /\ id <= MaxEvents
  BY <1>2, <1>n DEF EventIds
<1>4. /\ root = id \/ Original(events, root)
      /\ root \in EventIds /\ root \in 1 .. id
  <2>1. CASE dup /\ p.root # Unset
    <3>1. Original(events, p.root) /\ root = p.root
      BY <2>1, Zenon DEF RoutingInv, ThreadsSound
    <3> QED BY <3>1, <1>n, <1>3, <1>p, <2>1 DEF Original
  <2>2. CASE ~(dup /\ p.root # Unset)
    BY <2>2, <1>n, <1>3
  <2> QED BY <2>1, <2>2
<1>5. notified[root] = LastSent(root) /\ notified[root] \in Time \cup {Unset}
  BY <1>3, <1>4, StampIsLast, Zenon
<1>6. seen.dup = dup /\ dup \in BOOLEAN
  BY DEF AtDecision
<1>7. /\ d.forward \in BOOLEAN /\ d.reminder \in BOOLEAN /\ d.skip \in SkipCodes
      /\ d.forward =>
            /\ ~Silenced(tables.silences, alert, seen)
            /\ dup /\ notified[root] # Unset => time - notified[root] >= Cooldown
            /\ d.reminder => dup /\ notified[root] # Unset /\ time - notified[root] >= Reminder
  <2>1. PICK s, l, noise, flapping :
           /\ s = seen /\ l = notified[root] /\ noise = p.noise /\ flapping = p.flapping
    OBVIOUS
  <2>2. d = DecideForwarding(s, noise, flapping, l)
    BY <2>1
  <2> HIDE DEF d, seen, root, dup
  <2>3. s.dup \in BOOLEAN /\ l \in Time \cup {Unset}
    BY <2>1, <1>5, <1>6
  <2>4. PICK c : c = d
    OBVIOUS
  <2>5. /\ c.forward \in BOOLEAN /\ c.reminder \in BOOLEAN /\ c.skip \in SkipCodes
        /\ c.forward =>
              /\ ~Silenced(tables.silences, alert, s)
              /\ s.dup /\ l # Unset => time - l >= Cooldown
              /\ c.reminder => s.dup /\ l # Unset /\ time - l >= Reminder
    BY <2>2, <2>3, <2>4, <1>t, DecisionDoes
  <2> QED BY <2>1, <2>4, <2>5, <1>6
<1>8. \A r \in filed : /\ d.forward /\ DOMAIN r = RowKeys /\ r.event = id /\ r.root = root
                       /\ r.sent = Unset /\ r.reminder = d.reminder
  <2> SUFFICES ASSUME NEW r \in filed
               PROVE  /\ d.forward /\ DOMAIN r = RowKeys /\ r.event = id /\ r.root = root
                      /\ r.sent = Unset /\ r.reminder = d.reminder
    OBVIOUS
  <2> HIDE DEF d, root, id
  <2>1. d.forward /\ r \in OutboxRecords(id, root, d, p.an)
    BY <1>7
  <2> QED BY <2>1, FiledRows
<1> HIDE DEF d, seen, dup, root
<1>9. ev \in Event
  BY <1>4, <1>5, <1>6, <1>7, <1>p, <1>t DEF Event
<1>10. /\ ev.root = root /\ ev.an = p.an /\ ev.hushed = p.hushed /\ ev.inbound = p.inbound
       /\ ev.dup = dup /\ ev.lastSent = LastSent(root) /\ ev.at = time
  OBVIOUS
<1> HIDE DEF ev, filed
<1>11. /\ events' \in Seq(Event) /\ Len(events') = id /\ DOMAIN events' = DOMAIN events \cup {id}
       /\ events'[id] = ev /\ \A e \in DOMAIN events : events'[e] = events[e]
  <2>1. /\ events' \in Seq(Event) /\ Len(events') = Len(events) + 1
        /\ \A e \in 1 .. Len(events) : events'[e] = events[e]
        /\ events'[Len(events) + 1] = ev
    BY <1>1, <1>9, <1>t, AppendProperties
  <2>2. DOMAIN events' = 1 .. Len(events')
    BY <2>1, LenProperties
  <2> QED BY <2>1, <2>2, <1>n
<1> HIDE DEF id
<1>12. \A e : Original(events, e) => Original(events', e)
  BY <1>11, Zenon DEF Original
<1>13. Original(events', root)
  BY <1>4, <1>10, <1>11, <1>12, Zenon DEF Original
<1>14. \A r \in rows : /\ DOMAIN r = RowKeys /\ r.event \in DOMAIN events
                       /\ r.root = events[r.event].root /\ r.sent \in 0 .. time \cup {Unset}
  BY DEF RoutingInv, RowsSound
<1>15. \A r \in rows' : r \in rows \/ r \in filed
  BY <1>1
<1>16. runs'[w] = FreeRun /\ \A v \in RoutingWorkers : v # w => runs'[v] = runs[v]
  BY <1>1, <1>t
<1>17. m \in [an : Analyses, root : EventIds \cup {Unset}, hushed : BOOLEAN]
  BY <1>4, <1>p
<1>18. m.an = p.an /\ m.root = root /\ m.hushed = p.hushed
  OBVIOUS
<1> HIDE DEF m
<1>19. \A k \in Keys : memo'[k] = IF k = p.key THEN m ELSE memo[k]
  BY <1>1, <1>t
<1> HIDE DEF p
<1>20. RoutingTypeOK'
  <2>1. memo' \in [Keys -> [an : Analyses, root : EventIds \cup {Unset}, hushed : BOOLEAN]]
    BY <1>1, <1>17, <1>p, <1>t
  <2>2. runs' \in [RoutingWorkers -> PipelineRun]
    BY <1>1, <1>t, FreeRunIs
  <2>3. \A e \in DOMAIN events' : events'[e].root \in 1 .. e
    BY <1>4, <1>10, <1>11, <1>t DEF RoutingTypeOK
  <2>4. \A r \in rows' : r.event \in DOMAIN events'
    BY <1>8, <1>11, <1>14, <1>15
  <2> QED BY <2>1, <2>2, <2>3, <2>4, <1>1, <1>3, <1>11, <1>t DEF RoutingTypeOK
<1>21. RoomLeft'
  BY <1>2, <1>11, <1>n DEF RoomLeft, id
<1>22. ThreadsSound'
  <2>1. \A e \in DOMAIN events' : Original(events', events'[e].root)
    BY <1>10, <1>11, <1>12, <1>13, Zenon DEF RoutingInv, ThreadsSound
  <2>2. \A k \in Keys : memo'[k].root # Unset => Original(events', memo'[k].root)
    BY <1>12, <1>13, <1>18, <1>19, Zenon DEF RoutingInv, ThreadsSound
  <2>3. \A v \in RoutingWorkers : runs'[v].root # Unset => Original(events', runs'[v].root)
    BY <1>12, <1>16, FreeRunIs, Zenon DEF RoutingInv, ThreadsSound
  <2> QED BY <2>1, <2>2, <2>3, Zenon DEF ThreadsSound
<1>23. RowsSound'
  <2>1. \A r \in rows' : /\ DOMAIN r = RowKeys /\ r.event \in DOMAIN events'
                         /\ r.root = events'[r.event].root /\ r.sent \in 0 .. time \cup {Unset}
    <3>1. \A r \in rows : r.event \in DOMAIN events' /\ events'[r.event] = events[r.event]
      BY <1>11, <1>14
    <3>2. \A r \in filed : r.event \in DOMAIN events' /\ events'[r.event].root = root
      BY <1>8, <1>10, <1>11
    <3> QED BY <3>1, <3>2, <1>8, <1>14, <1>15, Zenon
  <2> QED BY <2>1, <1>1, Zenon DEF RowsSound
<1>24. Stamped'
  <2> SUFFICES ASSUME NEW e \in EventIds, e \notin DOMAIN events' \/ Original(events', e)
               PROVE  /\ \A r \in rows' : r.root = e => r.sent <= notified[e]
                      /\ notified[e] # Unset => \E r \in rows' : r.root = e /\ r.sent = notified[e]
    BY <1>1, Zenon DEF Stamped
  <2>1. e \notin DOMAIN events \/ Original(events, e)
    BY <1>11 DEF Original
  <2>2. /\ \A r \in rows : r.root = e => r.sent <= notified[e]
        /\ notified[e] # Unset => \E r \in rows : r.root = e /\ r.sent = notified[e]
    BY <2>1, Zenon DEF RoutingInv, Stamped
  <2>3. notified[e] \in Nat \cup {-1}
    BY <1>n, <1>t DEF RoutingTypeOK
  <2>4. \A r \in filed : r.sent <= notified[e]
    BY <2>3, <1>8, <1>n
  <2> QED BY <2>2, <2>4, <1>1, <1>15
<1>25. UnjudgedSilenced'
  <2>1. Excused => Excused'
    BY <1>1, ExcusedStays
  <2>2. Grounded(p.an, p.hushed, Excused)
    BY Zenon DEF RoutingInv, UnjudgedSilenced, p
  <2> QED BY <2>1, <2>2, <1>16, <1>18, <1>19, FreeRunIs, PlainAnalyses, Zenon
          DEF RoutingInv, UnjudgedSilenced, Grounded
<1>26. CapsKept'
  <2>1. FreeRun.pc # "persist"
    BY FreeRunIs
  <2> QED BY <2>1, <1>1, <1>16, Zenon DEF RoutingInv, CapsKept
<1>27. CapRespected'
  <2>1. CapKept(alert, p.an, p.inbound)
    BY <1>1, Zenon DEF RoutingInv, CapsKept, p
  <2> QED BY <2>1, <1>1, <1>10, <1>11, Zenon DEF RoutingInv, CapRespected
<1>28. CadenceKept'
  <2> SUFFICES ASSUME NEW r \in rows'
               PROVE  LET e == events'[r.event] IN
                      /\ e.dup /\ e.lastSent # Unset => e.at - e.lastSent >= Cooldown
                      /\ r.reminder => e.dup /\ e.lastSent # Unset /\ e.at - e.lastSent >= Reminder
    BY Zenon DEF CadenceKept
  <2>1. CASE r \in rows
    <3>1. events'[r.event] = events[r.event]
      BY <2>1, <1>11, <1>14
    <3> QED BY <2>1, <3>1, Zenon DEF RoutingInv, CadenceKept
  <2>2. CASE r \in filed
    BY <2>2, <1>5, <1>7, <1>8, <1>10, <1>11
  <2> QED BY <2>1, <2>2, <1>15
<1>29. JudgedBeforeForwarded'
  <2> SUFFICES ASSUME NEW r \in rows', events'[r.event].an.imp = "unknown"
               PROVE  events'[r.event].hushed /\ edited
    BY <1>1, Zenon DEF JudgedBeforeForwarded
  <2>1. CASE r \in rows
    <3>1. events'[r.event] = events[r.event]
      BY <2>1, <1>11, <1>14
    <3> QED BY <2>1, <3>1, Zenon DEF RoutingInv, JudgedBeforeForwarded
  <2>2. CASE r \in filed
    <3>1. events'[r.event] = ev /\ d.forward
      BY <2>2, <1>8, <1>11
    <3>2. p.an.imp = "unknown" /\ p.an.route # "pending" /\ Grounded(p.an, p.hushed, Excused)
      BY <3>1, <1>10, Zenon DEF RoutingInv, UnjudgedSilenced, p
    <3>3. p.hushed /\ Excused
      BY <3>2, Zenon DEF Grounded
    <3>4. ~Silenced(tables.silences, alert, AtAnalysis(alert, ""))
      BY <3>1, <1>7, <1>t, SilenceLasts, Zenon DEF seen
    <3> QED BY <3>1, <3>3, <3>4, <1>10, Zenon DEF Excused
  <2> QED BY <2>1, <2>2, <1>15
<1> QED BY <1>20, <1>21, <1>22, <1>23, <1>24, <1>25, <1>26, <1>27, <1>28, <1>29 DEF RoutingInv

-----------------------------------------------------------------------------
(* The theorem *)

LEMMA RoutingInitially == RoutingInit => RoutingInv
<1> SUFFICES ASSUME RoutingInit PROVE RoutingInv
  OBVIOUS
<1>1. PICK sc \in Scenarios : alert = sc.alert /\ tables = sc.tables
  BY DEF RoutingInit
<1>2. /\ time = 0 /\ override = "" /\ events = <<>> /\ rows = {} /\ flap.last = "none"
      /\ memo = [k \in Keys |-> [an |-> NoAnalysis, root |-> Unset, hushed |-> FALSE]]
      /\ runs = [v \in RoutingWorkers |-> FreeRun]
      /\ notified = [e \in EventIds |-> Unset]
  BY DEF RoutingInit
<1>n. /\ MaxEvents \in Nat /\ MaxRoutingTime \in Nat /\ 0 \in Time
      /\ events \in Seq(Event) /\ Len(events) = 0 /\ DOMAIN events = {}
  <2>1. events = <<>>
    BY <1>2
  <2>2. events \in Seq(Event) /\ Len(events) = 0 /\ DOMAIN events = {}
    BY <2>1
  <2> QED BY <2>2, PolicyAssumption DEF Time
<1>3. /\ \A k \in Keys : memo[k].an = NoAnalysis /\ memo[k].root = Unset
      /\ \A v \in RoutingWorkers : runs[v].an = NoAnalysis /\ runs[v].root = Unset /\ runs[v].pc = "idle"
      /\ \A e \in EventIds : notified[e] = Unset
  BY <1>2, FreeRunIs
<1>4. RoutingTypeOK
  <2>1. memo \in [Keys -> [an : Analyses, root : EventIds \cup {Unset}, hushed : BOOLEAN]]
    BY <1>2, PlainAnalyses
  <2>2. runs \in [RoutingWorkers -> PipelineRun]
    BY <1>2, FreeRunIs
  <2>3. tables \in TableStates
    BY <1>1, PolicyAssumption
  <2>4. time \in Time /\ override \in DOMAIN Rank \cup {""} /\ flap.last \in Keys \cup {"none"}
    BY <1>2, <1>n
  <2>5. notified \in [EventIds -> Time \cup {Unset}] /\ alert \in {s.alert : s \in Scenarios}
    BY <1>1, <1>2
  <2>6. /\ \A e \in DOMAIN events : events[e].root \in 1 .. e
        /\ \A r \in rows : r.event \in DOMAIN events
        /\ Len(events) <= MaxEvents
    <3>1. DOMAIN events = {} /\ rows = {} /\ Len(events) = 0
      BY <1>2, <1>n
    <3>2. Len(events) <= MaxEvents
      BY <3>1, <1>n
    <3> QED BY <3>1, <3>2, Zenon
  <2> QED BY <2>1, <2>2, <2>3, <2>4, <2>5, <2>6, <1>n, Zenon DEF RoutingTypeOK
<1>5. RoomLeft
  <2>1. {v \in RoutingWorkers : runs[v].pc # "idle"} = {}
    BY <1>3
  <2>2. InFlight = 0
    BY <2>1, FS_EmptySet DEF InFlight
  <2> QED BY <2>2, <1>n DEF RoomLeft
<1>6. ThreadsSound
  BY <1>3, <1>n DEF ThreadsSound
<1>7. UnjudgedSilenced
  BY <1>3, PlainAnalyses, Zenon DEF UnjudgedSilenced, Grounded
<1>8. RowsSound /\ CadenceKept /\ JudgedBeforeForwarded
  BY <1>2 DEF RowsSound, CadenceKept, JudgedBeforeForwarded
<1>9. Stamped
  BY <1>2, <1>3 DEF Stamped
<1>10. CapsKept /\ CapRespected
  BY <1>3, <1>n DEF CapsKept, CapRespected
<1> QED BY <1>4, <1>5, <1>6, <1>7, <1>8, <1>9, <1>10 DEF RoutingInv

LEMMA RoutingKeeps == RoutingInv /\ [RoutingNext]_routingVars => RoutingInv'
<1> SUFFICES ASSUME RoutingInv, [RoutingNext]_routingVars PROVE RoutingInv'
  OBVIOUS
<1>1. CASE UNCHANGED routingVars
  <2>1. /\ time' = time /\ alert' = alert /\ tables' = tables /\ override' = override /\ memo' = memo
        /\ runs' = runs /\ events' = events /\ rows' = rows /\ notified' = notified /\ flap' = flap
        /\ edited' = edited
    BY <1>1 DEF routingVars
  <2>2. RoutingTypeOK' /\ RoomLeft' /\ ThreadsSound' /\ CapsKept'
    BY <2>1 DEF RoutingInv, RoutingTypeOK, RoomLeft, InFlight, ThreadsSound, CapsKept
  <2>3. UnjudgedSilenced'
    <3>1. Excused => Excused'
      BY <2>1, ExcusedStays
    <3> QED BY <2>1, <3>1, Zenon DEF RoutingInv, UnjudgedSilenced, Grounded
  <2>4. RowsSound' /\ Stamped' /\ CapRespected' /\ CadenceKept' /\ JudgedBeforeForwarded'
    BY <2>1 DEF RoutingInv, RowsSound, Stamped, CapRespected, CadenceKept, JudgedBeforeForwarded
  <2> QED BY <2>2, <2>3, <2>4 DEF RoutingInv
<1>2. CASE RoutingNext
  <2>1. \A w \in RoutingWorkers, k \in Keys, act \in {"reuse", "rechain"} :
           ReuseAnalysis(w, k, act) => RoutingInv'
    BY ReuseKeeps
  <2>2. \A w \in RoutingWorkers, k \in Keys : SilencedSkip(w, k) => RoutingInv'
    BY SilencedSkipKeeps
  <2>3. \A w \in RoutingWorkers, k \in Keys : StartAnalysis(w, k) => RoutingInv'
    BY StartAnalysisKeeps
  <2>4. \A w \in RoutingWorkers, v \in alert.verdicts : Analysed(w, v) => RoutingInv'
    BY AnalysedKeeps
  <2>5. \A w \in RoutingWorkers : AnalysisDies(w) => RoutingInv'
    BY AnalysisDiesKeeps
  <2>6. \A w \in RoutingWorkers : Persist(w) => RoutingInv'
    BY PersistKeeps
  <2>7. \A r \in rows : Announce(r) => RoutingInv'
    BY AnnounceKeeps
  <2>8. /\ (\E t \in TableStates : EditTables(t)) => RoutingInv'
        /\ (\E imp \in DOMAIN Rank : CorrectImportance(imp)) => RoutingInv'
        /\ TimePasses => RoutingInv'
    BY EditsKeep
  <2> QED BY <1>2, <2>1, <2>2, <2>3, <2>4, <2>5, <2>6, <2>7, <2>8, Zenon DEF RoutingNext
<1> QED BY <1>1, <1>2

\* Whatever the tables hold, however many workers there are and whoever edits, fails or
\* delivers meanwhile: an operator's ceiling holds for every analysis, no thread is
\* announced within its cool-down or reminded of too early, counted from the rows that
\* were really sent (decisioning.py), and what is forwarded without a judgement was
\* silenced when it was analysed.
THEOREM RoutingIsKept == RoutingSpec => []RoutingKept
<1>1. RoutingInv => RoutingKept
  BY DEF RoutingInv, RoutingKept
<1> QED BY <1>1, RoutingInitially, RoutingKeeps, PTL DEF RoutingSpec
=============================================================================
