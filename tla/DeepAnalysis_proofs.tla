------------------------ MODULE DeepAnalysis_proofs ------------------------
(***************************************************************************)
(* What a deep analysis owes the operators, for any number of records,     *)
(* pollers, gateways, texts and faults and any lease, time out and number  *)
(* of hits: who is told, which round a verdict belongs to, and what the    *)
(* text of a report rests on.                                              *)
(*                                                                         *)
(* The notices are the hard part.  A poll that may still announce holds a  *)
(* right to one notice, and so does a row that a task may claim although   *)
(* nobody guards it; Paid says that those rights and the notices sent stay *)
(* within one for the round and one for each disturbed poll.               *)
(***************************************************************************)
EXTENDS DeepAnalysis, FiniteSetTheorems, TLAPS

-----------------------------------------------------------------------------
(* The inductive invariant *)

\* The poller q is on record r and has not announced a failure.
Holds(q, r) == /\ q.pc # "idle" /\ q.rec = r
               /\ ~(q.pc \in {"select", "commit"} /\ q.upd.status = "failed")

Holders(r) == {p \in Pollers : Holds(poller[p], r)}

\* While q polls r within its lease, the row is not due for another poll.
Guards(q, r, row, n) ==
    /\ q.pc # "idle" /\ q.rec = r /\ ~q.slow
    /\ q.round = n /\ q.left <= row.due

\* The next task for r may claim the row while another poll is under way.
Free(r) ==
    /\ rec[r].status = "pending"
    /\ ~ \E p \in Pollers : Guards(poller[p], r, rec[r], round[r])

\* What the answer read so far says of the texts that were fetched.
SnapOK(s, t) ==
    /\ s.hits > 0 => s.text > 0 /\ s.hits < Hits /\ s.hits <= t[s.text]
    /\ s.first => s.hits > 0

UpdOK(u, t) ==
    /\ u.how = "stable" => u.text > 0 /\ t[u.text] >= Hits
    /\ u.how \in {"final", "degraded"} => u.text > 0 /\ t[u.text] > 0
    /\ u.status = "completed" => u.how # "failed"

\* A poll under way: n and t are the round and the trouble of its record, f
\* the fetches of the record's texts.
PollOK(q, row, n, t, f) ==
    /\ q.rec \in Records /\ row.key /\ row.status # "none"
    /\ q.round <= n /\ (q.round # n => t > 0)
    /\ q.left > 0 \/ q.slow
    /\ q.slow => t > 0
    /\ q.pc = "announce" /\ q.round = n => row.status # "pending"
    /\ q.pc = "compare" =>
         /\ SnapOK(q.snap, f)
         /\ q.answer.kind = "completed" =>
              /\ q.answer.text > 0 /\ Hits > 1 /\ f[q.answer.text] > 0
              /\ q.snap.hits > 0 /\ q.snap.text = q.answer.text =>
                    q.snap.hits + 1 <= f[q.answer.text]
    /\ q.pc \in {"select", "commit"} => UpdOK(q.upd, f)

PollsOK ==
    \A p \in Pollers : poller[p].pc # "idle" =>
        PollOK(poller[p], rec[poller[p].rec], round[poller[p].rec], trouble[poller[p].rec], seen[poller[p].rec])

OpOK == op.pc # "idle" => op.rec \in Records /\ rec[op.rec].status # "none"

RowOK(r) ==
    /\ rec[r].status = "none" => ~rec[r].key /\ notices[r] = 0 /\ verdict[r] = round[r]
    /\ rec[r].status = "pending" => rec[r].key
    /\ SnapOK(stab[r], seen[r])

\* Every notice that was sent or may still be sent has been paid for: by the
\* round, or by a poll that was disturbed.
Paid(r) == notices[r] + Cardinality(Holders(r)) + (IF Free(r) THEN 1 ELSE 0) <= 1 + trouble[r]

VerdictOK(r) ==
    rec[r].status \in {"completed", "failed"} /\ trouble[r] = 0
        => verdict[r] = round[r] /\ (rec[r].status = "completed" => rec[r].how # "none")

ReportOK(r) ==
    /\ rec[r].how = "stable" => seen[r][rec[r].text] >= Hits
    /\ rec[r].how \in {"final", "degraded"} => rec[r].text > 0 /\ seen[r][rec[r].text] > 0
    /\ rec[r].how = "stable" => rec[r].text > 0

\* What the invariant says of one record.
RecordOK(r) == RowOK(r) /\ Paid(r) /\ VerdictOK(r) /\ ReportOK(r)

\* The step leaves everything about the record r alone.
Same(r) ==
    /\ rec'[r] = rec[r] /\ stab'[r] = stab[r] /\ seen'[r] = seen[r]
    /\ round'[r] = round[r] /\ verdict'[r] = verdict[r]
    /\ notices'[r] = notices[r] /\ trouble'[r] = trouble[r]

DeepInv == TypeOK /\ OpOK /\ PollsOK /\ \A r \in Records : RecordOK(r)

-----------------------------------------------------------------------------

LEMMA Constants ==
    ASSUME DeepAnalysisAssumption
    PROVE  /\ 0 \in Ticks /\ Lease \in Ticks /\ Lease \in Nat \ {0} /\ Ticks \subseteq Nat
           /\ \A d \in Ticks : Less(d) \in Ticks
           /\ \A n \in 0 .. MaxAttempts : DelayForAttempt[n] \in Ticks
           /\ 0 \in Text /\ 0 \in Age /\ 0 \in 0 .. MaxAttempts /\ 0 \in 0 .. Hits /\ 0 \in 0 .. MaxErrors
           /\ Timeout \in Nat \ {0} /\ MaxText \in Nat \ {0} /\ Hits \in Nat \ {0} /\ MaxErrors \in Nat \ {0}
           /\ MaxAttempts \in Nat /\ 1 \in Ticks
           /\ Default \in Gateways /\ Nobody \notin Records /\ Masking \in BOOLEAN
           /\ \A a \in Age : Least(a + 1, Timeout + 1) \in Age
           /\ \A a \in 0 .. MaxAttempts : Least(a + 1, MaxAttempts) \in 0 .. MaxAttempts
           /\ \A a \in 0 .. MaxErrors : Least(a + 1, MaxErrors) \in 0 .. MaxErrors
           /\ \A a \in 0 .. Hits : Least(a + 1, Hits) \in 0 .. Hits
<1>1. /\ Lease \in Nat \ {0} /\ MaxDelay \in Nat /\ FirstDelay \in Nat \ {0} /\ FirstDelay <= MaxDelay
      /\ MaxAttempts \in Nat /\ Timeout \in Nat \ {0} /\ MaxText \in Nat \ {0} /\ Hits \in Nat \ {0}
      /\ MaxErrors \in Nat \ {0}
      /\ \A n \in 0 .. MaxAttempts : DelayForAttempt[n] \in 0 .. MaxDelay
      /\ Default \in Gateways /\ Nobody \notin Records /\ Masking \in BOOLEAN
  BY DEF DeepAnalysisAssumption
<1>2. /\ 0 \in Ticks /\ Lease \in Ticks /\ 1 \in Ticks /\ Ticks \subseteq Nat
      /\ \A d \in Ticks : Less(d) \in Ticks
  BY <1>1 DEF Ticks, Less
<1>3. \A n \in 0 .. MaxAttempts : DelayForAttempt[n] \in Ticks
  BY <1>1 DEF Ticks
<1>4. /\ 0 \in Text /\ 0 \in Age
      /\ 0 \in 0 .. MaxAttempts /\ 0 \in 0 .. Hits /\ 0 \in 0 .. MaxErrors
  BY <1>1 DEF Text, Age
<1>5. \A a \in Age : Least(a + 1, Timeout + 1) \in Age
  BY <1>1 DEF Age, Least
<1>6. /\ \A a \in 0 .. MaxAttempts : Least(a + 1, MaxAttempts) \in 0 .. MaxAttempts
      /\ \A a \in 0 .. MaxErrors : Least(a + 1, MaxErrors) \in 0 .. MaxErrors
      /\ \A a \in 0 .. Hits : Least(a + 1, Hits) \in 0 .. Hits
  BY <1>1 DEF Least
<1> QED BY <1>1, <1>2, <1>3, <1>4, <1>5, <1>6

Values ==
    /\ NoAnswer \in Answer /\ NoSnapshot \in Snapshot /\ Failed \in Update
    /\ Idle \in Poller /\ NoRow \in Row

LEMMA ValuesTyped == ASSUME DeepAnalysisAssumption PROVE Values
<1>1. NoAnswer \in Answer /\ NoSnapshot \in Snapshot /\ Failed \in Update
  BY Constants DEF NoAnswer, Answer, NoSnapshot, Snapshot, Failed, Update
<1>2. Idle \in Poller
  <2>1. "idle" \in PC /\ Nobody \in Records \cup {Nobody}
    BY DEF PC
  <2> QED BY <1>1, <2>1, Constants DEF Idle, Poller
<1>3. NoRow \in Row
  BY Constants DEF NoRow, Row
<1> QED BY <1>1, <1>2, <1>3 DEF Values

\* The fields of a poller.
LEMMA PollerFields ==
    ASSUME NEW q \in Poller
    PROVE  /\ q.pc \in PC /\ q.rec \in Records \cup {Nobody} /\ q.age \in Age /\ q.attempts \in 0 .. MaxAttempts
           /\ q.map \in BOOLEAN /\ q.answer \in Answer /\ q.snap \in Snapshot /\ q.upd \in Update
           /\ q.left \in Ticks /\ q.slow \in BOOLEAN /\ q.round \in Nat
BY Zenon DEF Poller

\* How a step of a poll changes the poller.
Decided(q, u) == [q EXCEPT !.pc = "select", !.upd = u, !.answer = NoAnswer, !.snap = NoSnapshot,
                           !.map = FALSE, !.attempts = 0]
Skipped(q) == [q EXCEPT !.pc = "skip", !.answer = NoAnswer, !.snap = NoSnapshot, !.map = FALSE]
Compared(q, a, s) == [q EXCEPT !.pc = "compare", !.answer = a, !.snap = s]

SameCase(q, n) == n.rec = q.rec /\ n.left = q.left /\ n.slow = q.slow /\ n.round = q.round

LEMMA DecidedMove ==
    ASSUME DeepAnalysisAssumption, NEW q \in Poller, NEW u \in Update
    PROVE  /\ Decided(q, u) \in Poller /\ Decided(q, u).pc = "select" /\ Decided(q, u).upd = u
           /\ SameCase(q, Decided(q, u))
<1>1. "select" \in PC /\ NoAnswer \in Answer /\ NoSnapshot \in Snapshot /\ FALSE \in BOOLEAN
      /\ 0 \in 0 .. MaxAttempts
  BY Constants, ValuesTyped DEF Values, PC
<1> QED BY <1>1, Zenon DEF Decided, Poller, SameCase

LEMMA SkippedMove ==
    ASSUME DeepAnalysisAssumption, NEW q \in Poller
    PROVE  Skipped(q) \in Poller /\ Skipped(q).pc = "skip" /\ SameCase(q, Skipped(q))
<1>1. "skip" \in PC /\ NoAnswer \in Answer /\ NoSnapshot \in Snapshot /\ FALSE \in BOOLEAN
  BY ValuesTyped DEF Values, PC
<1> QED BY <1>1, Zenon DEF Skipped, Poller, SameCase

LEMMA ComparedMove ==
    ASSUME NEW q \in Poller, NEW a \in Answer, NEW s \in Snapshot
    PROVE  /\ Compared(q, a, s) \in Poller /\ Compared(q, a, s).pc = "compare"
           /\ Compared(q, a, s).answer = a /\ Compared(q, a, s).snap = s /\ SameCase(q, Compared(q, a, s))
<1>1. "compare" \in PC
  BY DEF PC
<1> QED BY <1>1, Zenon DEF Compared, Poller, SameCase

\* The two ways a step of a poll is written in the model.
LEMMA PollerWrites ==
    ASSUME poller \in [Pollers -> Poller], NEW p \in Pollers, NEW u
    PROVE  /\ Decide(p, u) <=> poller' = [poller EXCEPT ![p] = Decided(poller[p], u)]
           /\ Skip(p) <=> poller' = [poller EXCEPT ![p] = Skipped(poller[p])]
<1>1. Decide(p, u) <=> poller' = [poller EXCEPT ![p] = Decided(poller[p], u)]
  BY Zenon DEF Decide, Decided
<1>2. Skip(p) <=> poller' = [poller EXCEPT ![p] = Skipped(poller[p])]
  BY Zenon DEF Skip, Skipped
<1> QED BY <1>1, <1>2

\* Nobody polls the record r.
Alone(r) == \A p \in Pollers : poller[p].pc # "idle" => poller[p].rec # r

\* What a step may do to a record that is being polled: a settled row is not
\* reopened but by a new round, which starts in trouble.
Grows(r) ==
    /\ rec[r].key => rec'[r].key
    /\ rec[r].status # "none" => rec'[r].status # "none"
    /\ \/ /\ round'[r] = round[r] /\ trouble'[r] >= trouble[r]
          /\ rec'[r].status = "pending" => rec[r].status = "pending"
       \/ round'[r] = round[r] + 1 /\ trouble'[r] > 0
       \/ Alone(r)

Fetched(f, g) == \A t \in 1 .. MaxText : f[t] <= g[t]

LEMMA SnapKept ==
    ASSUME DeepAnalysisAssumption, NEW f \in [1 .. MaxText -> 0 .. Hits], NEW g \in [1 .. MaxText -> 0 .. Hits], Fetched(f, g)
    PROVE  /\ \A s \in Snapshot : SnapOK(s, f) => SnapOK(s, g)
           /\ \A u \in Update : UpdOK(u, f) => UpdOK(u, g)
<1>c. MaxText \in Nat /\ Hits \in Nat
  BY Constants
<1>1. ASSUME NEW s \in Snapshot, SnapOK(s, f) PROVE SnapOK(s, g)
  <2>1. s.text \in Nat /\ s.text <= MaxText /\ s.hits \in Nat /\ s.first \in BOOLEAN
    BY <1>c DEF Snapshot, Text
  <2>2. CASE s.hits > 0
    <3>1. s.text \in 1 .. MaxText /\ s.hits < Hits /\ s.hits <= f[s.text]
      BY <2>1, <2>2, <1>1, <1>c DEF SnapOK
    <3>2. f[s.text] \in Nat /\ g[s.text] \in Nat /\ f[s.text] <= g[s.text]
      BY <3>1, <1>c DEF Fetched
    <3>3. s.hits <= g[s.text]
      BY <3>1, <3>2, <2>1
    <3> QED BY <3>1, <3>3, <2>1, <1>1, <1>c DEF SnapOK
  <2>3. CASE ~(s.hits > 0)
    BY <2>3, <1>1 DEF SnapOK
  <2> QED BY <2>2, <2>3
<1>2. ASSUME NEW u \in Update, UpdOK(u, f) PROVE UpdOK(u, g)
  <2>1. u.text \in Nat /\ u.text <= MaxText
    BY <1>c DEF Update, Text
  <2>2. u.text > 0 => f[u.text] \in Nat /\ g[u.text] \in Nat /\ f[u.text] <= g[u.text]
    BY <2>1, <1>c DEF Fetched
  <2>3. u.how = "stable" => u.text > 0 /\ g[u.text] >= Hits
    BY <2>1, <2>2, <1>2, <1>c DEF UpdOK
  <2>4. u.how \in {"final", "degraded"} => u.text > 0 /\ g[u.text] > 0
    BY <2>1, <2>2, <1>2, <1>c DEF UpdOK
  <2> QED BY <2>3, <2>4, <1>2 DEF UpdOK
<1> QED BY <1>1, <1>2

\* A poll keeps its promises while others work.
LEMMA PollKept ==
    ASSUME DeepAnalysisAssumption, NEW q \in Poller, NEW r \in Records, q.rec = r, Grows(r), ~Alone(r),
           round[r] \in Nat, trouble[r] \in Nat, trouble'[r] \in Nat,
           seen[r] \in [1 .. MaxText -> 0 .. Hits], seen'[r] \in [1 .. MaxText -> 0 .. Hits], Fetched(seen[r], seen'[r]),
           PollOK(q, rec[r], round[r], trouble[r], seen[r])
    PROVE  PollOK(q, rec'[r], round'[r], trouble'[r], seen'[r])
<1> DEFINE P == PollOK(q, rec[r], round[r], trouble[r], seen[r])
<1>t. /\ q.snap \in Snapshot /\ q.upd \in Update /\ q.round \in Nat /\ q.answer \in Answer
  BY PollerFields
<1>c. MaxText \in Nat /\ Hits \in Nat
  BY Constants
<1>1. q.rec \in Records /\ rec'[r].key /\ rec'[r].status # "none" /\ (q.left > 0 \/ q.slow)
  BY DEF PollOK, Grows
<1>2. /\ q.round <= round'[r] /\ (q.round # round'[r] => trouble'[r] > 0)
      /\ q.slow => trouble'[r] > 0
      /\ q.pc = "announce" /\ q.round = round'[r] => rec'[r].status # "pending"
  BY <1>t DEF PollOK, Grows
<1>3. q.pc = "compare" => SnapOK(q.snap, seen'[r])
  BY <1>t, SnapKept DEF PollOK
<1>4. q.pc \in {"select", "commit"} => UpdOK(q.upd, seen'[r])
  BY <1>t, SnapKept DEF PollOK
<1>5. ASSUME q.pc = "compare", q.answer.kind = "completed"
      PROVE  /\ q.answer.text > 0 /\ Hits > 1 /\ seen'[r][q.answer.text] > 0
             /\ q.snap.hits > 0 /\ q.snap.text = q.answer.text =>
                    q.snap.hits + 1 <= seen'[r][q.answer.text]
  <2> DEFINE x == q.answer.text
  <2>1. x \in Nat /\ x <= MaxText /\ q.snap.hits \in Nat
    BY <1>t, <1>c DEF Answer, Text, Snapshot
  <2>2. /\ x > 0 /\ Hits > 1 /\ seen[r][x] > 0
        /\ q.snap.hits > 0 /\ q.snap.text = x => q.snap.hits + 1 <= seen[r][x]
    BY <1>5 DEF PollOK
  <2>3. x \in 1 .. MaxText
    BY <2>1, <2>2, <1>c
  <2>4. seen[r][x] <= seen'[r][x] /\ seen[r][x] \in Nat /\ seen'[r][x] \in Nat
    BY <2>3, <1>c DEF Fetched
  <2> QED BY <2>1, <2>2, <2>4
<1> HIDE DEF P
<1> QED BY <1>1, <1>2, <1>3, <1>4, <1>5 DEF PollOK

\* Only the poller p acts.
Acts(p) == poller' \in [Pollers -> Poller] /\ \A o \in Pollers \ {p} : poller'[o] = poller[o]

SeenKept == \A r \in Records : Fetched(seen[r], seen'[r])

LEMMA PollsKept ==
    ASSUME DeepAnalysisAssumption, DeepInv, TypeOK', NEW p, Acts(p), SeenKept, \A r \in Records : Grows(r),
           p \in Pollers /\ poller'[p].pc # "idle" =>
              PollOK(poller'[p], rec'[poller'[p].rec], round'[poller'[p].rec], trouble'[poller'[p].rec], seen'[poller'[p].rec])
    PROVE  PollsOK'
<1>1. ASSUME NEW o \in Pollers, poller'[o].pc # "idle", o # p
      PROVE PollOK(poller'[o], rec'[poller'[o].rec], round'[poller'[o].rec], trouble'[poller'[o].rec], seen'[poller'[o].rec])
  <2> DEFINE q == poller[o]
             r == q.rec
  <2>1. poller'[o] = q /\ q \in Poller
    BY <1>1 DEF Acts, DeepInv, TypeOK
  <2>2. PollOK(q, rec[r], round[r], trouble[r], seen[r])
    BY <2>1, <1>1 DEF DeepInv, PollsOK
  <2>3. r \in Records
    BY <2>2 DEF PollOK
  <2>4. /\ round[r] \in Nat /\ trouble[r] \in Nat /\ trouble'[r] \in Nat
        /\ seen[r] \in [1 .. MaxText -> 0 .. Hits] /\ seen'[r] \in [1 .. MaxText -> 0 .. Hits]
    BY <2>3 DEF DeepInv, TypeOK
  <2>5. Fetched(seen[r], seen'[r]) /\ Grows(r) /\ ~Alone(r)
    BY <2>1, <2>3, <1>1 DEF SeenKept, Alone
  <2> HIDE DEF q, r
  <2>6. PollOK(q, rec'[r], round'[r], trouble'[r], seen'[r])
    BY <2>1, <2>2, <2>3, <2>4, <2>5, PollKept DEF r
  <2> QED BY <2>1, <2>6 DEF r
<1> QED BY <1>1 DEF PollsOK

-----------------------------------------------------------------------------
(* Who has paid for a notice *)

LEMMA HoldersCount ==
    ASSUME DeepAnalysisAssumption, NEW r
    PROVE  IsFiniteSet(Holders(r)) /\ Cardinality(Holders(r)) \in Nat
<1>1. IsFiniteSet(Pollers) /\ Holders(r) \subseteq Pollers
  BY DEF DeepAnalysisAssumption, Holders
<1> QED BY <1>1, FS_Subset, FS_CardinalityType

LEMMA HoldersCountNext ==
    ASSUME DeepAnalysisAssumption, NEW r
    PROVE  IsFiniteSet(Holders(r)') /\ Cardinality(Holders(r)') \in Nat
<1>1. IsFiniteSet(Pollers) /\ Holders(r)' \subseteq Pollers
  BY DEF DeepAnalysisAssumption, Holders
<1> QED BY <1>1, FS_Subset, FS_CardinalityType

LEMMA HoldersMove ==
    ASSUME DeepAnalysisAssumption, NEW p \in Pollers, Acts(p), NEW r
    PROVE  /\ (Holds(poller'[p], r) => Holds(poller[p], r)) =>
                 Cardinality(Holders(r)') <= Cardinality(Holders(r))
           /\ Holds(poller[p], r) /\ ~Holds(poller'[p], r) =>
                 Cardinality(Holders(r)') + 1 <= Cardinality(Holders(r))
           /\ Cardinality(Holders(r)') <= Cardinality(Holders(r)) + 1
<1> DEFINE H == Holders(r)
           N == Holders(r)'
<1>1. IsFiniteSet(H) /\ IsFiniteSet(N) /\ Cardinality(H) \in Nat /\ Cardinality(N) \in Nat
  BY HoldersCount, HoldersCountNext
<1>2. N \ {p} \subseteq H \ {p}
  BY DEF Holders, Acts
<1>3. /\ p \in H <=> Holds(poller[p], r)
      /\ p \in N <=> Holds(poller'[p], r)
  BY DEF Holders
<1> HIDE DEF H, N
<1>4. ASSUME p \in N => p \in H PROVE Cardinality(N) <= Cardinality(H)
  <2>1. N \subseteq H
    BY <1>2, <1>4
  <2> QED BY <2>1, <1>1, FS_Subset
<1>5. ASSUME p \in H, p \notin N PROVE Cardinality(N) + 1 <= Cardinality(H)
  <2>1. N \subseteq H \ {p}
    BY <1>2, <1>5
  <2>2. IsFiniteSet(H \ {p}) /\ Cardinality(H \ {p}) = Cardinality(H) - 1
    BY <1>1, <1>5, FS_RemoveElement
  <2>3. Cardinality(N) <= Cardinality(H \ {p})
    BY <2>1, <2>2, FS_Subset
  <2> QED BY <2>2, <2>3, <1>1
<1>6. Cardinality(N) <= Cardinality(H) + 1
  <2>a. /\ IsFiniteSet(H \cup {p})
        /\ \/ Cardinality(H \cup {p}) = Cardinality(H)
           \/ Cardinality(H \cup {p}) = Cardinality(H) + 1
    BY <1>1, FS_AddElement, Zenon
  <2>1. IsFiniteSet(H \cup {p}) /\ Cardinality(H \cup {p}) <= Cardinality(H) + 1
    BY <2>a, <1>1
  <2>2. N \subseteq H \cup {p}
    BY <1>2
  <2>3. Cardinality(N) <= Cardinality(H \cup {p})
    BY <2>1, <2>2, FS_Subset
  <2>4. Cardinality(H \cup {p}) \in Nat
    BY <2>1, FS_CardinalityType
  <2> QED BY <2>1, <2>3, <2>4, <1>1
<1> QED BY <1>3, <1>4, <1>5, <1>6 DEF H, N

\* A row does not become free while its round and its guard stay.
LEMMA FreeKept ==
    ASSUME NEW p \in Pollers, Acts(p), NEW r \in Records,
           rec'[r].status = "pending" => rec[r].status = "pending" /\ rec'[r].due = rec[r].due,
           round'[r] = round[r],
           rec'[r].status = "pending" /\ Guards(poller[p], r, rec[r], round[r]) =>
              Guards(poller'[p], r, rec[r], round[r])
    PROVE  Free(r)' => Free(r)
<1> SUFFICES ASSUME Free(r)' PROVE Free(r)
  OBVIOUS
<1>1. rec'[r].status = "pending" /\ rec[r].status = "pending" /\ rec'[r].due = rec[r].due
  BY DEF Free
<1>2. ASSUME NEW o \in Pollers, Guards(poller[o], r, rec[r], round[r]) PROVE FALSE
  <2>1. Guards(poller'[o], r, rec[r], round[r])
    BY <1>1, <1>2 DEF Acts
  <2>2. Guards(poller'[o], r, rec'[r], round'[r])
    BY <2>1, <1>1 DEF Guards
  <2> QED BY <2>2 DEF Free
<1> QED BY <1>1, <1>2 DEF Free

LEMMA PaidStep ==
    ASSUME DeepAnalysisAssumption, NEW r \in Records, Paid(r),
           notices[r] \in Nat, notices'[r] \in Nat, trouble[r] \in Nat, trouble'[r] \in Nat,
           \/ /\ notices'[r] + Cardinality(Holders(r)') <= notices[r] + Cardinality(Holders(r))
              /\ trouble'[r] >= trouble[r] /\ (Free(r)' => Free(r))
           \/ /\ notices'[r] + Cardinality(Holders(r)') <= notices[r] + Cardinality(Holders(r))
              /\ trouble'[r] > trouble[r]
           \/ /\ notices'[r] + Cardinality(Holders(r)') < notices[r] + Cardinality(Holders(r))
              /\ trouble'[r] >= trouble[r]
           \/ /\ notices'[r] + Cardinality(Holders(r)') <= notices[r] + Cardinality(Holders(r)) + 1
              /\ trouble'[r] >= trouble[r] /\ Free(r) /\ ~Free(r)'
    PROVE  Paid(r)'
<1>1. Cardinality(Holders(r)) \in Nat /\ Cardinality(Holders(r)') \in Nat
  BY HoldersCount, HoldersCountNext
<1> DEFINE a == notices[r]
           b == notices'[r]
           c == Cardinality(Holders(r))
           d == Cardinality(Holders(r)')
           f == IF Free(r) THEN 1 ELSE 0
           g == IF Free(r)' THEN 1 ELSE 0
<1>2. a \in Nat /\ b \in Nat /\ c \in Nat /\ d \in Nat /\ f \in {0, 1} /\ g \in {0, 1}
  BY <1>1
<1>3. (Free(r) <=> f = 1) /\ (Free(r)' <=> g = 1)
  OBVIOUS
<1>4. a + c + f <= 1 + trouble[r]
  BY DEF Paid
<1>5. Paid(r)' <=> b + d + g <= 1 + trouble'[r]
  BY DEF Paid
<1> HIDE DEF a, b, c, d, f, g
<1>6. \/ b + d <= a + c /\ trouble'[r] >= trouble[r] /\ (g = 1 => f = 1)
      \/ b + d <= a + c /\ trouble'[r] > trouble[r]
      \/ b + d < a + c /\ trouble'[r] >= trouble[r]
      \/ b + d <= a + c + 1 /\ trouble'[r] >= trouble[r] /\ f = 1 /\ g # 1
  BY <1>3 DEF a, b, c, d
<1>7. b + d + g <= 1 + trouble'[r]
  BY <1>2, <1>4, <1>6
<1> QED BY <1>5, <1>7

-----------------------------------------------------------------------------
(* A step of one poll *)

LEMMA InvImplies == DeepInv => VerdictOfRound /\ ReportSettled
BY DEF DeepInv, RecordOK, VerdictOK, ReportOK, VerdictOfRound, ReportSettled

LEMMA RecordTyped ==
    ASSUME TypeOK, NEW r \in Records
    PROVE  /\ rec[r] \in Row /\ stab[r] \in Snapshot /\ seen[r] \in [1 .. MaxText -> 0 .. Hits]
           /\ round[r] \in Nat /\ verdict[r] \in Nat /\ notices[r] \in Nat /\ trouble[r] \in Nat
BY DEF TypeOK

LEMMA RecordTypedNext ==
    ASSUME TypeOK', NEW r \in Records
    PROVE  /\ rec'[r] \in Row /\ stab'[r] \in Snapshot /\ seen'[r] \in [1 .. MaxText -> 0 .. Hits]
           /\ round'[r] \in Nat /\ verdict'[r] \in Nat /\ notices'[r] \in Nat /\ trouble'[r] \in Nat
BY DEF TypeOK

LEMMA RowFields ==
    ASSUME NEW w \in Row
    PROVE  /\ w.status \in {"none", "pending", "completed", "failed"} /\ w.key \in BOOLEAN
           /\ w.due \in Ticks /\ w.text \in Text /\ w.masked \in BOOLEAN /\ w.map \in BOOLEAN
           /\ w.gateway \in Gateways /\ w.attempts \in 0 .. MaxAttempts /\ w.age \in Age
           /\ w.how \in {"none", "local", "final", "stable", "degraded", "failed"} /\ w.real \in BOOLEAN
BY Zenon DEF Row

\* A busy poller, and the record it is on.
LEMMA Busy ==
    ASSUME DeepInv, NEW p \in Pollers, poller[p].pc # "idle", NEW r, r = poller[p].rec
    PROVE  /\ r \in Records /\ poller[p] \in Poller
           /\ PollOK(poller[p], rec[r], round[r], trouble[r], seen[r])
           /\ RecordOK(r)
<1>1. poller[p] \in Poller /\ PollOK(poller[p], rec[r], round[r], trouble[r], seen[r])
  BY DEF DeepInv, TypeOK, PollsOK
<1> QED BY <1>1 DEF PollOK, DeepInv

\* What the step of the poller p leaves alone stays as it should be.
LEMMA OtherRecord ==
    ASSUME DeepAnalysisAssumption, DeepInv, TypeOK', NEW p \in Pollers, Acts(p), NEW s \in Records, Same(s),
           poller[p].pc # "idle" => poller[p].rec # s,
           poller'[p].pc # "idle" => poller'[p].rec # s
    PROVE  RecordOK(s)'
<1>1. RecordOK(s)
  BY DEF DeepInv
<1>2. RowOK(s)' /\ VerdictOK(s)' /\ ReportOK(s)'
  BY <1>1 DEF RecordOK, RowOK, VerdictOK, ReportOK, Same
<1>3. Holders(s)' = Holders(s)
  BY DEF Holders, Holds, Acts
<1>4. Free(s)' => Free(s)
  BY FreeKept DEF Same, Guards
<1>5. Paid(s)'
  <2>1. /\ notices[s] \in Nat /\ notices'[s] \in Nat /\ trouble[s] \in Nat /\ trouble'[s] \in Nat
        /\ Cardinality(Holders(s)) \in Nat /\ notices'[s] = notices[s] /\ trouble'[s] = trouble[s]
    BY RecordTyped, RecordTypedNext, HoldersCount DEF Same, DeepInv
  <2>2. Cardinality(Holders(s)') = Cardinality(Holders(s))
    BY <1>3
  <2>3. /\ notices'[s] + Cardinality(Holders(s)') <= notices[s] + Cardinality(Holders(s))
        /\ trouble'[s] >= trouble[s]
    BY <2>1, <2>2
  <2>4. Paid(s)
    BY <1>1 DEF RecordOK
  <2> QED BY <1>4, <2>1, <2>3, <2>4, PaidStep
<1> QED BY <1>2, <1>5 DEF RecordOK

LEMMA SameGrows ==
    ASSUME DeepAnalysisAssumption, TypeOK, NEW s \in Records, Same(s)
    PROVE  Grows(s) /\ Fetched(seen[s], seen'[s])
<1>1. trouble[s] \in Nat /\ seen[s] \in [1 .. MaxText -> 0 .. Hits]
  BY RecordTyped
<1>2. \A t \in 1 .. MaxText : seen[s][t] \in Nat
  <2>1. Hits \in Nat /\ MaxText \in Nat
    BY Constants
  <2> QED BY <1>1, <2>1
<1>3. Fetched(seen[s], seen'[s])
  BY <1>2 DEF Same, Fetched
<1>4. Grows(s)
  BY <1>1 DEF Same, Grows
<1> QED BY <1>3, <1>4

LEMMA OneRecordStep ==
    ASSUME DeepAnalysisAssumption, DeepInv, TypeOK', op' = op,
           NEW p \in Pollers, NEW r \in Records, poller[p].pc # "idle" => poller[p].rec = r,
           NEW q \in Poller, poller' = [poller EXCEPT ![p] = q],
           \A s \in Records \ {r} : Same(s),
           Grows(r), Fetched(seen[r], seen'[r]),
           q.pc = "idle" \/ (q.rec = r /\ PollOK(q, rec'[r], round'[r], trouble'[r], seen'[r])),
           RecordOK(r)'
    PROVE  DeepInv'
<1>1. poller \in [Pollers -> Poller]
  BY DEF DeepInv, TypeOK
<1>2. Acts(p) /\ poller'[p] = q
  BY <1>1 DEF Acts
<1>3. \A s \in Records : Grows(s)
  BY <1>1, SameGrows DEF DeepInv
<1>4. SeenKept
  BY <1>1, SameGrows DEF DeepInv, SeenKept
<1>5. PollsOK'
  BY <1>2, <1>3, <1>4, PollsKept
<1>6. \A s \in Records : RecordOK(s)'
  <2>1. ASSUME NEW s \in Records, s # r PROVE RecordOK(s)'
    BY <2>1, <1>2, OtherRecord
  <2> QED BY <2>1
<1>7. OpOK'
  BY <1>3 DEF DeepInv, OpOK, Grows
<1> QED BY <1>5, <1>6, <1>7 DEF DeepInv

LEMMA PollStep ==
    ASSUME DeepAnalysisAssumption, DeepInv, TypeOK', op' = op,
           NEW p \in Pollers, poller[p].pc # "idle", NEW r, r = poller[p].rec,
           NEW q \in Poller, poller' = [poller EXCEPT ![p] = q],
           \A s \in Records \ {r} : Same(s),
           Grows(r), Fetched(seen[r], seen'[r]),
           q.pc = "idle" \/ (q.rec = r /\ PollOK(q, rec'[r], round'[r], trouble'[r], seen'[r])),
           RecordOK(r)'
    PROVE  DeepInv'
<1>1. r \in Records
  BY Busy
<1> QED BY <1>1, OneRecordStep

\* The account of a record whose poller p moves on without time, round or
\* trouble changing.
LEMMA PaidByPoller ==
    ASSUME DeepAnalysisAssumption, DeepInv, TypeOK',
           NEW p \in Pollers, poller[p].pc # "idle", NEW r, r = poller[p].rec,
           NEW q \in Poller, poller' = [poller EXCEPT ![p] = q],
           q.pc # "idle", SameCase(poller[p], q),
           rec'[r].status = "pending" => rec[r].status = "pending" /\ rec'[r].due = rec[r].due,
           round'[r] = round[r], trouble'[r] = trouble[r],
           \/ notices'[r] = notices[r] /\ (Holds(q, r) => Holds(poller[p], r))
           \/ notices'[r] = notices[r] + 1 /\ Holds(poller[p], r) /\ ~Holds(q, r)
    PROVE  Paid(r)'
<1>1. r \in Records /\ poller \in [Pollers -> Poller] /\ Paid(r)
  BY Busy DEF DeepInv, TypeOK, RecordOK
<1>2. Acts(p) /\ poller'[p] = q
  BY <1>1 DEF Acts
<1>3. Free(r)' => Free(r)
  <2>1. Guards(poller[p], r, rec[r], round[r]) => Guards(q, r, rec[r], round[r])
    BY DEF Guards, SameCase
  <2> QED BY <1>1, <1>2, <2>1, FreeKept
<1>4. /\ notices[r] \in Nat /\ notices'[r] \in Nat /\ trouble[r] \in Nat /\ trouble'[r] \in Nat
      /\ Cardinality(Holders(r)) \in Nat /\ Cardinality(Holders(r)') \in Nat
  BY <1>1, RecordTyped, RecordTypedNext, HoldersCount, HoldersCountNext DEF DeepInv
<1>5. /\ (Holds(q, r) => Holds(poller[p], r)) => Cardinality(Holders(r)') <= Cardinality(Holders(r))
      /\ Holds(poller[p], r) /\ ~Holds(q, r) => Cardinality(Holders(r)') + 1 <= Cardinality(Holders(r))
  BY <1>2, HoldersMove
<1>6. notices'[r] + Cardinality(Holders(r)') <= notices[r] + Cardinality(Holders(r))
  BY <1>4, <1>5
<1>7. trouble'[r] >= trouble[r]
  BY <1>4
<1> QED BY <1>1, <1>3, <1>4, <1>6, <1>7, PaidStep

\* The account of a record whose poller p goes away, or is disturbed.
LEMMA PaidByLeaver ==
    ASSUME DeepAnalysisAssumption, DeepInv, TypeOK',
           NEW p \in Pollers, poller[p].pc # "idle", NEW r, r = poller[p].rec,
           NEW q \in Poller, poller' = [poller EXCEPT ![p] = q],
           Holds(q, r) => Holds(poller[p], r),
           notices'[r] = notices[r],
           \/ trouble'[r] = trouble[r] + 1
           \/ trouble'[r] = trouble[r] /\ Holds(poller[p], r) /\ ~Holds(q, r)
           \/ trouble'[r] = trouble[r] /\ rec'[r].status # "pending"
    PROVE  Paid(r)'
<1>1. r \in Records /\ poller \in [Pollers -> Poller] /\ Paid(r)
  BY Busy DEF DeepInv, TypeOK, RecordOK
<1>2. Acts(p) /\ poller'[p] = q
  BY <1>1 DEF Acts
<1>4. /\ notices[r] \in Nat /\ notices'[r] \in Nat /\ trouble[r] \in Nat /\ trouble'[r] \in Nat
      /\ Cardinality(Holders(r)) \in Nat /\ Cardinality(Holders(r)') \in Nat
  BY <1>1, RecordTyped, RecordTypedNext, HoldersCount, HoldersCountNext DEF DeepInv
<1>5. /\ Cardinality(Holders(r)') <= Cardinality(Holders(r))
      /\ Holds(poller[p], r) /\ ~Holds(q, r) => Cardinality(Holders(r)') + 1 <= Cardinality(Holders(r))
  BY <1>2, HoldersMove
<1>6. notices'[r] + Cardinality(Holders(r)') <= notices[r] + Cardinality(Holders(r))
  BY <1>4, <1>5
<1>7. CASE trouble'[r] = trouble[r] + 1
  <2>1. trouble'[r] > trouble[r]
    BY <1>7, <1>4
  <2> QED BY <1>1, <1>4, <1>6, <2>1, PaidStep
<1>8. CASE trouble'[r] = trouble[r] /\ Holds(poller[p], r) /\ ~Holds(q, r)
  <2>1. /\ notices'[r] + Cardinality(Holders(r)') < notices[r] + Cardinality(Holders(r))
        /\ trouble'[r] >= trouble[r]
    BY <1>8, <1>4, <1>5
  <2> QED BY <1>1, <1>4, <2>1, PaidStep
<1>9. CASE trouble'[r] = trouble[r] /\ rec'[r].status # "pending"
  <2>1. trouble'[r] >= trouble[r] /\ (Free(r)' => Free(r))
    BY <1>9, <1>4 DEF Free
  <2> QED BY <1>1, <1>4, <1>6, <2>1, PaidStep
<1> QED BY <1>7, <1>8, <1>9

-----------------------------------------------------------------------------
(* The steps of a poll *)

\* A step that decides on an update, the row and the account of its texts
\* unchanged.
LEMMA SnapTyped ==
    ASSUME DeepAnalysisAssumption, NEW f
    PROVE  SnapOK(NoSnapshot, f) /\ UpdOK(Failed, f)
BY Constants DEF SnapOK, UpdOK, NoSnapshot, Failed

\* A record whose row says the same as before: only its times, its snapshot,
\* its notices and the fetches changed.
Alike(w, v) == v.status = w.status /\ v.key = w.key /\ v.how = w.how /\ v.text = w.text

LEMMA RecordByPoller ==
    ASSUME DeepAnalysisAssumption, DeepInv, TypeOK',
           NEW r \in Records, Alike(rec[r], rec'[r]), rec[r].status # "none",
           round'[r] = round[r], verdict'[r] = verdict[r], trouble'[r] >= trouble[r],
           SnapOK(stab'[r], seen'[r]), Fetched(seen[r], seen'[r]), Paid(r)'
    PROVE  RecordOK(r)' /\ Grows(r)
<1>0. /\ rec'[r].status = rec[r].status /\ rec'[r].key = rec[r].key
      /\ rec'[r].how = rec[r].how /\ rec'[r].text = rec[r].text
      /\ trouble[r] \in Nat /\ trouble'[r] \in Nat
  BY RecordTyped, RecordTypedNext DEF Alike, DeepInv
<1>1. RecordOK(r)
  BY DEF DeepInv
<1>2. RowOK(r)'
  BY <1>0, <1>1 DEF RecordOK, RowOK
<1>3. VerdictOK(r)'
  BY <1>0, <1>1 DEF RecordOK, VerdictOK
<1>4. ReportOK(r)'
  <2>1. Hits \in Nat /\ MaxText \in Nat
    BY Constants
  <2>2. rec[r].text \in Nat /\ rec[r].text <= MaxText
    BY <2>1, RecordTyped, RowFields DEF DeepInv, Text
  <2>3. rec[r].text > 0 => /\ seen[r][rec[r].text] \in Nat /\ seen'[r][rec[r].text] \in Nat
                           /\ seen[r][rec[r].text] <= seen'[r][rec[r].text]
    <3>1. seen[r] \in [1 .. MaxText -> 0 .. Hits] /\ seen'[r] \in [1 .. MaxText -> 0 .. Hits]
      BY RecordTyped, RecordTypedNext DEF DeepInv
    <3> QED BY <3>1, <2>1, <2>2 DEF Fetched
  <2>4. ReportOK(r)
    BY <1>1 DEF RecordOK
  <2> QED BY <1>0, <2>1, <2>2, <2>3, <2>4 DEF ReportOK
<1>5. Grows(r)
  BY <1>0 DEF Grows
<1> QED BY <1>2, <1>3, <1>4, <1>5 DEF RecordOK

\* What PollOK says of a poll that has just decided, skipped or compared.
LEMMA MovedOK ==
    ASSUME DeepAnalysisAssumption, NEW q \in Poller, NEW n \in Poller, SameCase(q, n),
           NEW w, NEW m, NEW t, NEW f, NEW g,
           PollOK(q, w, m, t, f),
           \/ n.pc = "skip"
           \/ n.pc = "select" /\ UpdOK(n.upd, g)
           \/ /\ n.pc = "compare" /\ SnapOK(n.snap, g)
              /\ n.answer.kind = "completed" =>
                   /\ n.answer.text > 0 /\ Hits > 1 /\ g[n.answer.text] > 0
                   /\ n.snap.hits > 0 /\ n.snap.text = n.answer.text =>
                        n.snap.hits + 1 <= g[n.answer.text]
    PROVE  PollOK(n, w, m, t, g)
BY DEF PollOK, SameCase

\* The part all steps share in which the poller p decides, skips or compares.
LEMMA Moved ==
    ASSUME DeepAnalysisAssumption, DeepInv, TypeOK', op' = op,
           NEW p \in Pollers, poller[p].pc \in {"check", "compare"}, NEW r, r = poller[p].rec,
           NEW q \in Poller, poller' = [poller EXCEPT ![p] = q], SameCase(poller[p], q),
           \/ q.pc = "skip"
           \/ q.pc = "select" /\ UpdOK(q.upd, seen'[r])
           \/ /\ q.pc = "compare" /\ SnapOK(q.snap, seen'[r])
              /\ q.answer.kind = "completed" =>
                   /\ q.answer.text > 0 /\ Hits > 1 /\ seen'[r][q.answer.text] > 0
                   /\ q.snap.hits > 0 /\ q.snap.text = q.answer.text =>
                        q.snap.hits + 1 <= seen'[r][q.answer.text],
           rec' = rec, round' = round, verdict' = verdict, trouble' = trouble,
           \A s \in Records \ {r} : stab'[s] = stab[s] /\ seen'[s] = seen[s] /\ notices'[s] = notices[s],
           SnapOK(stab'[r], seen'[r]), Fetched(seen[r], seen'[r]),
           \/ notices'[r] = notices[r]
           \/ notices'[r] = notices[r] + 1 /\ q.pc = "select" /\ q.upd.status = "failed"
    PROVE  DeepInv'
<1>1. /\ r \in Records /\ poller[p] \in Poller /\ poller[p].pc # "idle" /\ q.pc # "idle"
      /\ PollOK(poller[p], rec[r], round[r], trouble[r], seen[r])
  BY Busy
<1>2. q.rec = r /\ PollOK(q, rec'[r], round'[r], trouble'[r], seen'[r])
  BY <1>1, MovedOK DEF SameCase
<1>3. Holds(poller[p], r)
  BY DEF Holds
<1>4. q.pc = "select" /\ q.upd.status = "failed" => ~Holds(q, r)
  BY DEF Holds
<1>5. Paid(r)'
  BY <1>1, <1>3, <1>4, PaidByPoller
<1>6. rec[r].status # "none"
  BY <1>1 DEF PollOK
<1>7. RecordOK(r)' /\ Grows(r)
  <2>1. Alike(rec[r], rec'[r])
    BY DEF Alike
  <2>2. trouble'[r] >= trouble[r]
    BY <1>1, RecordTyped DEF DeepInv
  <2>3. round'[r] = round[r] /\ verdict'[r] = verdict[r]
    OBVIOUS
  <2> QED BY <1>1, <1>5, <1>6, <2>1, <2>2, <2>3, RecordByPoller
<1>8. \A s \in Records \ {r} : Same(s)
  BY DEF Same
<1> QED BY <1>1, <1>2, <1>7, <1>8, PollStep

LEMMA SeenUnchanged ==
    ASSUME DeepAnalysisAssumption, TypeOK, NEW r \in Records, seen' = seen
    PROVE  Fetched(seen[r], seen'[r])
<1>1. Hits \in Nat /\ MaxText \in Nat
  BY Constants
<1>2. seen[r] \in [1 .. MaxText -> 0 .. Hits]
  BY RecordTyped
<1>3. \A t \in 1 .. MaxText : seen[r][t] \in Nat
  BY <1>1, <1>2
<1> QED BY <1>3 DEF Fetched

\* _failure_update_with_notification, whoever calls it.
LEMMA FailWithNoticeKeeps ==
    ASSUME DeepAnalysisAssumption, DeepInv, NEW p \in Pollers, poller[p].pc \in {"check", "compare"},
           FailWithNotice(p), UNCHANGED <<rec, tasks, op, round, verdict, trouble, seen, asked, budget>>
    PROVE  DeepInv'
<1> DEFINE r == poller[p].rec
           q == Decided(poller[p], Failed)
<1>1. r \in Records /\ poller[p] \in Poller /\ RecordOK(r)
  BY Busy
<1>2. /\ stab' = [stab EXCEPT ![r] = NoSnapshot] /\ notices' = [notices EXCEPT ![r] = @ + 1]
      /\ poller' = [poller EXCEPT ![p] = q]
  BY PollerWrites DEF FailWithNotice, DeepInv, TypeOK
<1>3. q \in Poller /\ SameCase(poller[p], q) /\ q.pc = "select" /\ q.upd = Failed
  BY <1>1, ValuesTyped, DecidedMove DEF Values
<1> HIDE DEF q
<1>4. TypeOK'
  <2>1. TypeOK
    BY DEF DeepInv
  <2>2. stab' \in [Records -> Snapshot]
    BY <1>1, <1>2, <2>1, ValuesTyped DEF TypeOK, Values
  <2>3. notices' \in [Records -> Nat]
    <3>1. notices \in [Records -> Nat] /\ notices[r] + 1 \in Nat
      BY <1>1, <2>1 DEF TypeOK
    <3> QED BY <1>2, <3>1
  <2>4. poller' \in [Pollers -> Poller]
    BY <1>2, <1>3, <2>1 DEF TypeOK
  <2> QED BY <2>1, <2>2, <2>3, <2>4 DEF TypeOK
<1>5. UpdOK(q.upd, seen'[r]) /\ q.upd.status = "failed" /\ SnapOK(NoSnapshot, seen'[r])
  BY <1>3, SnapTyped DEF Failed
<1>6. /\ stab'[r] = NoSnapshot /\ notices'[r] = notices[r] + 1
      /\ \A s \in Records \ {r} : stab'[s] = stab[s] /\ seen'[s] = seen[s] /\ notices'[s] = notices[s]
  BY <1>1, <1>2 DEF DeepInv, TypeOK
<1>7. Fetched(seen[r], seen'[r])
  BY <1>1, SeenUnchanged DEF DeepInv
<1> QED BY <1>2, <1>3, <1>4, <1>5, <1>6, <1>7, Moved

LEMMA TimesOutKeeps ==
    ASSUME DeepAnalysisAssumption, DeepInv, NEW p \in Pollers, TimesOut(p)
    PROVE  DeepInv'
BY FailWithNoticeKeeps DEF TimesOut

\* The gateway's answers, and what a fetch does to the count of its text.
LEMMA AnswersTyped ==
    ASSUME DeepAnalysisAssumption, NEW r, NEW a \in Answers(r)
    PROVE  /\ a \in Answer
           /\ a.kind = "completed" => a.text \in 1 .. MaxText
           /\ a.kind # "completed" => a.text = 0
<1>1. MaxText \in Nat
  BY Constants
<1>2. \/ a \in [kind : {"error", "transient"}, text : {0}, final : {FALSE}]
      \/ a = NoAnswer
      \/ a \in [kind : {"completed"}, text : 1 .. MaxText, final : BOOLEAN]
  BY DEF Answers
<1>3. NoAnswer.kind = "running" /\ NoAnswer.text = 0 /\ NoAnswer \in Answer
  BY ValuesTyped DEF NoAnswer, Values
<1>4. CASE a \in [kind : {"error", "transient"}, text : {0}, final : {FALSE}]
  <2>1. a.kind \in {"error", "transient"} /\ a.text = 0
    BY <1>4, Zenon
  <2>2. 0 \in Text
    BY <1>1 DEF Text
  <2>3. a \in Answer
    BY <1>4, <2>2, Zenon DEF Answer
  <2> QED BY <2>1, <2>3
<1>5. CASE a \in [kind : {"completed"}, text : 1 .. MaxText, final : BOOLEAN]
  <2>1. a.kind = "completed" /\ a.text \in 1 .. MaxText
    BY <1>5, Zenon
  <2>2. 1 .. MaxText \subseteq Text
    BY <1>1 DEF Text
  <2>3. a \in Answer
    BY <1>5, <2>2, Zenon DEF Answer
  <2> QED BY <2>1, <2>3
<1>6. CASE a = NoAnswer
  BY <1>3, <1>6
<1> QED BY <1>2, <1>4, <1>5, <1>6

LEMMA FetchOnce ==
    ASSUME DeepAnalysisAssumption, NEW f \in [1 .. MaxText -> 0 .. Hits], NEW t \in 1 .. MaxText, NEW g,
           g = [f EXCEPT ![t] = Least(@ + 1, Hits)]
    PROVE  /\ g \in [1 .. MaxText -> 0 .. Hits] /\ Fetched(f, g)
           /\ g[t] > 0
           /\ \A h \in Nat : h < Hits /\ h <= f[t] => h + 1 <= g[t]
<1>a. Hits \in Nat \ {0}
  BY Constants
<1>1. Hits \in Nat \ {0} /\ f[t] \in Nat /\ f[t] <= Hits
  BY <1>a
<1>2. Least(f[t] + 1, Hits) \in 0 .. Hits /\ Least(f[t] + 1, Hits) >= f[t] /\ Least(f[t] + 1, Hits) > 0
  BY <1>1 DEF Least
<1>3. \A h \in Nat : h < Hits /\ h <= f[t] => h + 1 <= Least(f[t] + 1, Hits)
  BY <1>1 DEF Least
<1>4. g \in [1 .. MaxText -> 0 .. Hits] /\ g[t] = Least(f[t] + 1, Hits)
      /\ \A u \in 1 .. MaxText : u # t => g[u] = f[u]
  BY <1>2
<1>5. \A u \in 1 .. MaxText : f[u] \in Nat
  BY <1>1
<1>6. Fetched(f, g)
  BY <1>2, <1>4, <1>5 DEF Fetched
<1> QED BY <1>2, <1>3, <1>4, <1>6

LEMMA CompletionTyped ==
    ASSUME NEW t \in Text, NEW b \in BOOLEAN, NEW h \in {"final", "stable", "degraded"}
    PROVE  /\ Completion(t, h, b) \in Update /\ Completion(t, h, b).status = "completed"
           /\ Completion(t, h, b).how = h /\ Completion(t, h, b).text = t
BY DEF Completion, Update

\* A fetch that decides, waits for the next poll or goes on to compare.
LEMMA FetchKeeps ==
    ASSUME DeepAnalysisAssumption, DeepInv, NEW p \in Pollers, Fetch(p)
    PROVE  DeepInv'
<1> DEFINE r == poller[p].rec
           q == poller[p]
<1>1. r \in Records /\ q \in Poller /\ RecordOK(r) /\ q.pc = "check"
  <2>1. q.pc = "check"
    BY DEF Fetch
  <2> QED BY <2>1, Busy
<1>2. /\ asked' = asked \cup {<<r, Default>>} /\ asked' \subseteq Records \X Gateways
      /\ UNCHANGED <<rec, tasks, op, round, verdict, notices, trouble, budget>>
  <2>1. /\ asked' = asked \cup {<<r, Default>>}
        /\ UNCHANGED <<rec, tasks, op, round, verdict, notices, trouble, budget>>
    BY DEF Fetch
  <2>2. Default \in Gateways /\ asked \subseteq Records \X Gateways
    BY Constants DEF DeepInv, TypeOK
  <2>3. asked' \subseteq Records \X Gateways
    BY <1>1, <2>1, <2>2
  <2> QED BY <2>1, <2>3
<1>3. stab[r] \in Snapshot /\ seen[r] \in [1 .. MaxText -> 0 .. Hits] /\ SnapOK(stab[r], seen[r])
  BY <1>1, RecordTyped DEF DeepInv, RecordOK, RowOK
<1>4. CASE Decide(p, Failed) /\ UNCHANGED <<stab, seen>>
  <2> DEFINE n == Decided(q, Failed)
  <2>1. n \in Poller /\ SameCase(q, n) /\ n.pc = "select" /\ n.upd = Failed
    BY <1>1, ValuesTyped, DecidedMove DEF Values
  <2>2. poller' = [poller EXCEPT ![p] = n]
    BY <1>4, PollerWrites DEF DeepInv, TypeOK
  <2> HIDE DEF n
  <2>3. TypeOK'
    BY <1>2, <1>4, <2>1, <2>2 DEF DeepInv, TypeOK
  <2>4. UpdOK(n.upd, seen'[r]) /\ SnapOK(stab'[r], seen'[r]) /\ Fetched(seen[r], seen'[r])
    BY <1>1, <1>3, <1>4, <2>1, SnapTyped, SeenUnchanged DEF DeepInv
  <2> QED BY <1>1, <1>2, <1>4, <2>1, <2>2, <2>3, <2>4, Moved
<1>5. ASSUME NEW a \in Answers(r), Handle(p, a),
             seen' = IF a.text = 0 THEN seen ELSE [seen EXCEPT ![r][a.text] = Least(@ + 1, Hits)]
      PROVE  DeepInv'
  <2>1. /\ a \in Answer /\ (a.kind = "completed" => a.text \in 1 .. MaxText)
        /\ (a.kind # "completed" => a.text = 0)
    BY AnswersTyped
  <2>2. MaxText \in Nat /\ Hits \in Nat \ {0}
    BY Constants
  <2>3. /\ seen' \in [Records -> [1 .. MaxText -> 0 .. Hits]] /\ Fetched(seen[r], seen'[r])
        /\ \A s \in Records \ {r} : seen'[s] = seen[s]
        /\ a.kind = "completed" => /\ seen'[r][a.text] > 0
                                   /\ \A h \in Nat : h < Hits /\ h <= seen[r][a.text] => h + 1 <= seen'[r][a.text]
    <3>1. CASE a.text = 0
      <4>1. seen' = seen /\ a.kind # "completed"
        BY <1>5, <2>1, <2>2, <3>1
      <4> QED BY <1>1, <4>1, SeenUnchanged DEF DeepInv, TypeOK
    <3>2. CASE a.text # 0
      <4> DEFINE f == seen[r]
                 g == [f EXCEPT ![a.text] = Least(@ + 1, Hits)]
      <4>1. a.text \in 1 .. MaxText
        BY <2>1, <3>2
      <4>2. seen' = [seen EXCEPT ![r] = g]
        BY <1>5, <3>2, Zenon
      <4>3. /\ g \in [1 .. MaxText -> 0 .. Hits] /\ Fetched(f, g) /\ g[a.text] > 0
            /\ \A h \in Nat : h < Hits /\ h <= f[a.text] => h + 1 <= g[a.text]
        BY <1>3, <4>1, FetchOnce
      <4>4. seen \in [Records -> [1 .. MaxText -> 0 .. Hits]]
        BY DEF DeepInv, TypeOK
      <4> HIDE DEF g
      <4> QED BY <1>1, <4>2, <4>3, <4>4
    <3> QED BY <3>1, <3>2
  <2>4. SnapOK(stab[r], seen'[r])
    <3>1. seen'[r] \in [1 .. MaxText -> 0 .. Hits]
      BY <1>1, <2>3
    <3> QED BY <1>3, <2>3, <3>1, SnapKept
  <2>5. CASE /\ a.kind = "completed" /\ (a.final \/ Hits <= 1)
             /\ stab' = [stab EXCEPT ![r] = NoSnapshot]
             /\ Decide(p, Completion(a.text, "final", Unmasked(p)))
    <3> DEFINE u == Completion(a.text, "final", Unmasked(p))
               n == Decided(q, u)
    <3>1. u \in Update /\ u.status = "completed" /\ u.how = "final" /\ u.text = a.text
      <4>1. Unmasked(p) \in BOOLEAN
        BY DEF Unmasked
      <4>2. a.text \in Text
        BY <2>1, <2>2 DEF Answer
      <4> QED BY <4>1, <4>2, CompletionTyped
    <3> HIDE DEF u
    <3>2. n \in Poller /\ SameCase(q, n) /\ n.pc = "select" /\ n.upd = u
      BY <1>1, <3>1, DecidedMove
    <3>3. poller' = [poller EXCEPT ![p] = n]
      BY <2>5, PollerWrites DEF DeepInv, TypeOK, u
    <3> HIDE DEF n
    <3>4. stab' \in [Records -> Snapshot] /\ stab'[r] = NoSnapshot /\ \A s \in Records \ {r} : stab'[s] = stab[s]
      BY <1>1, <2>5, ValuesTyped DEF DeepInv, TypeOK, Values
    <3>5. TypeOK'
      BY <1>2, <2>3, <3>2, <3>3, <3>4 DEF DeepInv, TypeOK
    <3>6. UpdOK(n.upd, seen'[r]) /\ SnapOK(stab'[r], seen'[r])
      BY <2>1, <2>2, <2>3, <2>5, <3>1, <3>2, <3>4, SnapTyped DEF UpdOK
    <3> QED BY <1>1, <1>2, <2>3, <3>2, <3>3, <3>4, <3>5, <3>6, Moved
  <2>6. CASE /\ \/ a.kind = "completed" /\ ~a.final /\ Hits > 1
                \/ a.kind \in {"error", "transient"}
             /\ poller' = [poller EXCEPT ![p].pc = "compare", ![p].answer = a, ![p].snap = stab[r]]
             /\ UNCHANGED stab
    <3> DEFINE n == Compared(q, a, stab[r])
    <3>1. n \in Poller /\ SameCase(q, n) /\ n.pc = "compare" /\ n.answer = a /\ n.snap = stab[r]
      BY <1>1, <1>3, <2>1, ComparedMove
    <3>2. poller' = [poller EXCEPT ![p] = n]
      <4>1. poller' = [poller EXCEPT ![p].pc = "compare", ![p].answer = a, ![p].snap = stab[r]]
        BY <2>6
      <4> QED BY <4>1, Zenon DEF Compared
    <3>s. stab' = stab
      BY <2>6
    <3> HIDE DEF n
    <3>3. TypeOK'
      BY <1>2, <2>3, <3>1, <3>2, <3>s DEF DeepInv, TypeOK
    <3>4. a.kind = "completed" =>
             /\ a.text > 0 /\ Hits > 1 /\ seen'[r][a.text] > 0
             /\ stab[r].hits > 0 /\ stab[r].text = a.text => stab[r].hits + 1 <= seen'[r][a.text]
      <4>1. stab[r].hits \in Nat
        BY <1>3, <2>2 DEF Snapshot
      <4>2. a.kind = "completed" => a.text > 0 /\ Hits > 1 /\ seen'[r][a.text] > 0
        BY <2>1, <2>2, <2>3, <2>6
      <4>3. ASSUME a.kind = "completed", stab[r].hits > 0, stab[r].text = a.text
            PROVE  stab[r].hits + 1 <= seen'[r][a.text]
        <5>1. stab[r].hits < Hits /\ stab[r].hits <= seen[r][a.text]
          BY <1>3, <4>3 DEF SnapOK
        <5> QED BY <2>3, <4>1, <4>3, <5>1
      <4> QED BY <4>2, <4>3
    <3> QED BY <1>1, <1>2, <2>3, <2>4, <3>s, <3>1, <3>2, <3>3, <3>4, Moved
  <2>7. CASE a.kind = "running" /\ Skip(p) /\ UNCHANGED stab
    <3> DEFINE n == Skipped(q)
    <3>1. n \in Poller /\ SameCase(q, n) /\ n.pc = "skip"
      BY <1>1, SkippedMove
    <3>2. poller' = [poller EXCEPT ![p] = n]
      BY <2>7, PollerWrites DEF DeepInv, TypeOK
    <3> HIDE DEF n
    <3>3. TypeOK'
      BY <1>2, <2>3, <2>7, <3>1, <3>2 DEF DeepInv, TypeOK
    <3> QED BY <1>1, <1>2, <2>3, <2>4, <2>7, <3>1, <3>2, <3>3, Moved
  <2> QED BY <1>5, <2>5, <2>6, <2>7 DEF Handle
<1> QED BY <1>4, <1>5 DEF Fetch

\* The snapshot of r is replaced by s.
LEMMA Restabbed ==
    ASSUME TypeOK, NEW r \in Records, NEW s \in Snapshot, stab' = [stab EXCEPT ![r] = s]
    PROVE  /\ stab' \in [Records -> Snapshot] /\ stab'[r] = s
           /\ \A o \in Records \ {r} : stab'[o] = stab[o]
BY DEF TypeOK

\* The common part of a comparison: the snapshot s is written, and the poll
\* skips or decides on u.
LEMMA ComparisonKeeps ==
    ASSUME DeepAnalysisAssumption, DeepInv, NEW p \in Pollers, poller[p].pc = "compare",
           NEW r, r = poller[p].rec,
           NEW s \in Snapshot, stab' = [stab EXCEPT ![r] = s], SnapOK(s, seen[r]),
           \/ Skip(p)
           \/ \E u \in Update : Decide(p, u) /\ UpdOK(u, seen[r]),
           UNCHANGED <<rec, tasks, op, round, verdict, notices, trouble, seen, asked, budget>>
    PROVE  DeepInv'
<1>1. r \in Records /\ poller[p] \in Poller
  BY Busy
<1>2. PICK n \in Poller : /\ poller' = [poller EXCEPT ![p] = n] /\ SameCase(poller[p], n)
                          /\ n.pc = "skip" \/ (n.pc = "select" /\ UpdOK(n.upd, seen[r]))
  <2>1. CASE Skip(p)
    <3>1. Skipped(poller[p]) \in Poller /\ Skipped(poller[p]).pc = "skip" /\ SameCase(poller[p], Skipped(poller[p]))
      BY <1>1, SkippedMove
    <3>2. poller' = [poller EXCEPT ![p] = Skipped(poller[p])]
      BY <2>1, PollerWrites DEF DeepInv, TypeOK
    <3> QED BY <3>1, <3>2
  <2>2. ASSUME NEW u \in Update, Decide(p, u), UpdOK(u, seen[r])
        PROVE \E n \in Poller : /\ poller' = [poller EXCEPT ![p] = n] /\ SameCase(poller[p], n)
                                /\ n.pc = "select" /\ UpdOK(n.upd, seen[r])
    <3>1. /\ Decided(poller[p], u) \in Poller /\ Decided(poller[p], u).pc = "select"
          /\ Decided(poller[p], u).upd = u /\ SameCase(poller[p], Decided(poller[p], u))
      BY <1>1, DecidedMove
    <3>2. poller' = [poller EXCEPT ![p] = Decided(poller[p], u)]
      BY <2>2, PollerWrites DEF DeepInv, TypeOK
    <3> QED BY <2>2, <3>1, <3>2
  <2> QED BY <2>1, <2>2
<1>3. /\ stab' \in [Records -> Snapshot] /\ stab'[r] = s
      /\ \A o \in Records \ {r} : stab'[o] = stab[o]
  BY <1>1, Restabbed DEF DeepInv
<1>4. TypeOK'
  BY <1>2, <1>3 DEF DeepInv, TypeOK
<1>5. Fetched(seen[r], seen'[r])
  BY <1>1, SeenUnchanged DEF DeepInv
<1>6. notices'[r] = notices[r] /\ seen'[r] = seen[r]
  OBVIOUS
<1> QED BY <1>1, <1>2, <1>3, <1>4, <1>5, <1>6, Moved

LEMMA CompareTextKeeps ==
    ASSUME DeepAnalysisAssumption, DeepInv, NEW p \in Pollers, CompareText(p)
    PROVE  DeepInv'
<1> DEFINE r == poller[p].rec
           x == poller[p].answer.text
           s == poller[p].snap
           f == seen[r]
<1>1. poller[p].pc = "compare" /\ poller[p].answer.kind = "completed"
  BY DEF CompareText
<1>2. r \in Records /\ poller[p] \in Poller /\ PollOK(poller[p], rec[r], round[r], trouble[r], f)
  BY <1>1, Busy
<1>3. /\ x > 0 /\ Hits > 1 /\ f[x] > 0
      /\ s.hits > 0 /\ s.text = x => s.hits + 1 <= f[x]
  BY <1>1, <1>2 DEF PollOK
<1>4. Hits \in Nat \ {0} /\ MaxText \in Nat /\ 0 \in 0 .. MaxErrors
  BY Constants
<1>5. s \in Snapshot /\ poller[p].answer \in Answer
  BY <1>2, PollerFields
<1>6. x \in Text /\ s.hits \in 0 .. Hits /\ x \in Nat /\ s.hits \in Nat
  BY <1>4, <1>5 DEF Snapshot, Answer, Text
<1>7. f \in [1 .. MaxText -> 0 .. Hits] /\ f[x] \in Nat
  <2>1. f \in [1 .. MaxText -> 0 .. Hits]
    BY <1>2, RecordTyped DEF DeepInv
  <2>2. x \in 1 .. MaxText
    BY <1>3, <1>4, <1>6 DEF Text
  <2> QED BY <2>1, <2>2, <1>4
<1>8. UNCHANGED <<rec, tasks, op, round, verdict, notices, trouble, seen, asked, budget>>
  BY DEF CompareText
<1>9. CASE /\ SameSnapshot(s, x) /\ s.hits + 1 < Hits
           /\ stab' = [stab EXCEPT ![r] = [text |-> x, hits |-> s.hits + 1, errors |-> 0, first |-> FALSE]]
           /\ Skip(p)
  <2> DEFINE z == [text |-> x, hits |-> s.hits + 1, errors |-> 0, first |-> FALSE]
  <2>1. z \in Snapshot
    BY <1>4, <1>6, <1>9 DEF Snapshot
  <2>2. SnapOK(z, f)
    BY <1>3, <1>6, <1>9 DEF SnapOK, SameSnapshot
  <2> HIDE DEF z
  <2>3. stab' = [stab EXCEPT ![r] = z] /\ Skip(p)
    BY <1>9 DEF z
  <2> QED BY <1>1, <1>8, <2>1, <2>2, <2>3, ComparisonKeeps
<1>10. CASE /\ SameSnapshot(s, x) /\ s.hits + 1 >= Hits
            /\ stab' = [stab EXCEPT ![r] = NoSnapshot]
            /\ Decide(p, Completion(x, "stable", Unmasked(p)))
  <2> DEFINE u == Completion(x, "stable", Unmasked(p))
  <2>1. u \in Update /\ u.how = "stable" /\ u.text = x /\ u.status = "completed"
    <3>1. Unmasked(p) \in BOOLEAN
      BY DEF Unmasked
    <3> QED BY <1>6, <3>1, CompletionTyped
  <2> HIDE DEF u
  <2>2. f[x] >= Hits
    BY <1>3, <1>4, <1>6, <1>7, <1>10 DEF SameSnapshot
  <2>3. UpdOK(u, f)
    BY <1>3, <2>1, <2>2 DEF UpdOK
  <2>4. Decide(p, u) /\ stab' = [stab EXCEPT ![r] = NoSnapshot]
    BY <1>10 DEF u
  <2>5. NoSnapshot \in Snapshot /\ SnapOK(NoSnapshot, f)
    BY ValuesTyped, SnapTyped DEF Values
  <2> QED BY <1>1, <1>8, <2>1, <2>3, <2>4, <2>5, ComparisonKeeps
<1>11. CASE /\ ~SameSnapshot(s, x)
            /\ stab' = [stab EXCEPT ![r] = [text |-> x, hits |-> 1, errors |-> 0, first |-> TRUE]]
            /\ Skip(p)
  <2> DEFINE z == [text |-> x, hits |-> 1, errors |-> 0, first |-> TRUE]
  <2>1. z \in Snapshot
    BY <1>3, <1>4, <1>6 DEF Snapshot
  <2>2. SnapOK(z, f)
    BY <1>3, <1>6, <1>7 DEF SnapOK
  <2> HIDE DEF z
  <2>3. stab' = [stab EXCEPT ![r] = z] /\ Skip(p)
    BY <1>11 DEF z
  <2> QED BY <1>1, <1>8, <2>1, <2>2, <2>3, ComparisonKeeps
<1> QED BY <1>9, <1>10, <1>11 DEF CompareText

LEMMA CompareErrorKeeps ==
    ASSUME DeepAnalysisAssumption, DeepInv, NEW p \in Pollers, CompareError(p)
    PROVE  DeepInv'
<1> DEFINE r == poller[p].rec
           s == poller[p].snap
           f == seen[r]
<1>1. poller[p].pc = "compare"
  BY DEF CompareError
<1>2. r \in Records /\ poller[p] \in Poller /\ PollOK(poller[p], rec[r], round[r], trouble[r], f) /\ RecordOK(r)
  BY <1>1, Busy
<1>3. SnapOK(s, f) /\ SnapOK(stab[r], f)
  BY <1>1, <1>2 DEF PollOK, RecordOK, RowOK
<1>4. Hits \in Nat \ {0} /\ MaxText \in Nat
  BY Constants
<1>5. s \in Snapshot /\ stab[r] \in Snapshot
  BY <1>2, PollerFields, RecordTyped DEF DeepInv
<1>6. s.text \in Text /\ s.hits \in Nat /\ s.text \in Nat /\ s.errors \in 0 .. MaxErrors /\ s.first \in BOOLEAN
      /\ s.hits \in 0 .. Hits
  BY <1>4, <1>5 DEF Snapshot, Text
<1>7. UNCHANGED <<rec, tasks, op, round, verdict, trouble, seen, asked, budget>>
  BY DEF CompareError
<1>8. CASE /\ s.first
           /\ stab' = [stab EXCEPT ![r] = NoSnapshot]
           /\ Decide(p, Completion(s.text, "degraded", ~rec[r].masked))
           /\ UNCHANGED notices
  <2> DEFINE u == Completion(s.text, "degraded", ~rec[r].masked)
  <2>1. u \in Update /\ u.how = "degraded" /\ u.text = s.text /\ u.status = "completed"
    <3> DEFINE b == ~rec[r].masked
    <3>1. rec[r].masked \in BOOLEAN
      BY <1>2, RecordTyped, RowFields DEF DeepInv
    <3>2. b \in BOOLEAN
      BY <3>1
    <3>3. s.text \in Text
      BY <1>6
    <3> HIDE DEF b, s
    <3>4. /\ Completion(s.text, "degraded", b) \in Update
          /\ Completion(s.text, "degraded", b).status = "completed"
          /\ Completion(s.text, "degraded", b).how = "degraded"
          /\ Completion(s.text, "degraded", b).text = s.text
      BY <3>2, <3>3, CompletionTyped
    <3> QED BY <3>4 DEF b
  <2> HIDE DEF u
  <2>2. s.text > 0 /\ f[s.text] > 0
    <3>1. s.hits > 0 /\ s.text > 0 /\ s.hits <= f[s.text]
      BY <1>3, <1>6, <1>8 DEF SnapOK
    <3>2. f \in [1 .. MaxText -> 0 .. Hits]
      BY <1>2, RecordTyped DEF DeepInv
    <3>3. s.text \in 1 .. MaxText
      BY <1>4, <1>6, <3>1 DEF Text
    <3>4. f[s.text] \in Nat
      BY <1>4, <3>2, <3>3
    <3> QED BY <1>6, <3>1, <3>4
  <2>3. UpdOK(u, f)
    BY <2>1, <2>2 DEF UpdOK
  <2>4. Decide(p, u) /\ stab' = [stab EXCEPT ![r] = NoSnapshot] /\ UNCHANGED notices
    BY <1>8 DEF u
  <2>5. NoSnapshot \in Snapshot /\ SnapOK(NoSnapshot, f)
    BY ValuesTyped, SnapTyped DEF Values
  <2> QED BY <1>1, <1>7, <2>1, <2>3, <2>4, <2>5, ComparisonKeeps
<1>9. CASE /\ stab' = [stab EXCEPT ![r] = [s EXCEPT !.errors = Least(@ + 1, MaxErrors)]]
           /\ Skip(p) /\ UNCHANGED notices
  <2> DEFINE z == [s EXCEPT !.errors = Least(@ + 1, MaxErrors)]
  <2>1. z \in Snapshot /\ z.hits = s.hits /\ z.text = s.text /\ z.first = s.first
    <3>1. Least(s.errors + 1, MaxErrors) \in 0 .. MaxErrors
      <4>1. \A e \in 0 .. MaxErrors : Least(e + 1, MaxErrors) \in 0 .. MaxErrors
        BY Constants
      <4>2. s.errors \in 0 .. MaxErrors
        BY <1>6
      <4> QED BY <4>1, <4>2, Zenon
    <3> QED BY <1>5, <3>1, Zenon DEF Snapshot
  <2>2. stab' = [stab EXCEPT ![r] = z] /\ Skip(p) /\ UNCHANGED notices
    BY <1>9
  <2> HIDE DEF z
  <2>3. SnapOK(z, f)
    BY <1>3, <2>1 DEF SnapOK
  <2> QED BY <1>1, <1>7, <2>1, <2>2, <2>3, ComparisonKeeps
<1>10. CASE Skip(p) /\ UNCHANGED <<stab, notices>>
  <2>1. stab' = [stab EXCEPT ![r] = stab[r]]
    BY <1>2, <1>10 DEF DeepInv, TypeOK
  <2> QED BY <1>1, <1>3, <1>5, <1>7, <1>10, <2>1, ComparisonKeeps
<1>11. CASE FailWithNotice(p)
  BY <1>1, <1>7, <1>11, FailWithNoticeKeeps
<1> QED BY <1>8, <1>9, <1>10, <1>11 DEF CompareError

LEMMA IdleTyped ==
    ASSUME DeepAnalysisAssumption
    PROVE  Idle \in Poller /\ Idle.pc = "idle" /\ \A r : ~Holds(Idle, r)
<1>1. Idle \in Poller
  BY ValuesTyped DEF Values
<1> QED BY <1>1 DEF Idle, Holds

LEMMA FaultTyped ==
    ASSUME TypeOK, Fault
    PROVE  budget' \in [faults : Nat, retries : Nat]
<1>1. budget \in [faults : Nat, retries : Nat] /\ budget.faults > 0 /\ budget' = [budget EXCEPT !.faults = @ - 1]
  BY DEF TypeOK, Fault
<1>2. budget.faults - 1 \in Nat
  BY <1>1
<1> QED BY <1>1, <1>2, Zenon

LEMMA SelectRowKeeps ==
    ASSUME DeepAnalysisAssumption, DeepInv, NEW p \in Pollers, SelectRow(p), NEW r, r = poller[p].rec
    PROVE  DeepInv'
<1> DEFINE c == [poller[p] EXCEPT !.pc = "commit"]
<1>1. poller[p].pc = "select"
  BY DEF SelectRow
<1>2. /\ r \in Records /\ poller[p] \in Poller /\ RecordOK(r)
      /\ PollOK(poller[p], rec[r], round[r], trouble[r], seen[r])
  BY <1>1, Busy
<1>3. UNCHANGED <<rec, stab, tasks, op, round, verdict, notices, trouble, seen, asked, budget>>
  BY DEF SelectRow
<1>4. PICK n \in Poller : /\ poller' = [poller EXCEPT ![p] = n]
                          /\ \/ n = c /\ rec[r].status = "pending"
                             \/ n = Idle /\ rec[r].status # "pending"
  <2>1. c \in Poller
    <3>1. "commit" \in PC
      BY DEF PC
    <3> QED BY <1>2, <3>1, Zenon DEF Poller
  <2>2. CASE rec[r].status = "pending"
    <3>1. poller' = [poller EXCEPT ![p].pc = "commit"]
      BY <2>2 DEF SelectRow, StillPending, Goto
    <3>2. poller' = [poller EXCEPT ![p] = c]
      BY <3>1, Zenon
    <3> QED BY <2>1, <2>2, <3>2
  <2>3. CASE rec[r].status # "pending"
    BY <2>3, IdleTyped DEF SelectRow, StillPending, Done
  <2> QED BY <2>2, <2>3
<1>5. TypeOK'
  BY <1>3, <1>4 DEF DeepInv, TypeOK
<1>6. /\ c.pc = "commit" /\ SameCase(poller[p], c) /\ c.upd = poller[p].upd
  BY <1>2, Zenon DEF Poller, SameCase
<1>7. c.rec = r /\ PollOK(c, rec[r], round[r], trouble[r], seen[r])
  BY <1>1, <1>2, <1>6 DEF PollOK, SameCase
<1>8. Holds(c, r) => Holds(poller[p], r)
  BY <1>1, <1>6 DEF Holds
<1> HIDE DEF c
<1>9. Paid(r)'
  <2>1. CASE n = c /\ rec[r].status = "pending"
    BY <1>1, <1>3, <1>4, <1>5, <1>6, <1>8, <2>1, PaidByPoller
  <2>2. CASE n = Idle /\ rec[r].status # "pending"
    BY <1>1, <1>3, <1>4, <1>5, <2>2, IdleTyped, PaidByLeaver
  <2> QED BY <1>4, <2>1, <2>2
<1>10. Fetched(seen[r], seen'[r])
  BY <1>2, <1>3, SeenUnchanged DEF DeepInv
<1>11. RecordOK(r)' /\ Grows(r)
  <2>1. /\ rec'[r] = rec[r] /\ round'[r] = round[r] /\ verdict'[r] = verdict[r]
        /\ trouble'[r] = trouble[r] /\ stab'[r] = stab[r] /\ seen'[r] = seen[r]
    BY <1>3
  <2>2. SnapOK(stab'[r], seen'[r]) /\ rec[r].status # "none"
    BY <1>2, <2>1 DEF RecordOK, RowOK, PollOK
  <2>3. trouble'[r] >= trouble[r]
    BY <1>2, <2>1, RecordTyped DEF DeepInv
  <2>4. Alike(rec[r], rec'[r])
    BY <2>1 DEF Alike
  <2> QED BY <1>2, <1>5, <1>9, <1>10, <2>1, <2>2, <2>3, <2>4, RecordByPoller
<1>12. \A s \in Records \ {r} : Same(s)
  BY <1>3 DEF Same
<1>13. n.pc = "idle" \/ (n.rec = r /\ PollOK(n, rec'[r], round'[r], trouble'[r], seen'[r]))
  BY <1>3, <1>4, <1>7, IdleTyped
<1> QED BY <1>1, <1>3, <1>4, <1>5, <1>10, <1>11, <1>12, <1>13, PollStep

LEMMA SettledRow ==
    ASSUME DeepAnalysisAssumption, NEW w \in Row, NEW u \in Update
    PROVE  /\ Settled(w, u) \in Row /\ Settled(w, u).status = u.status /\ Settled(w, u).text = u.text
           /\ Settled(w, u).how = u.how /\ Settled(w, u).key = w.key
<1> DEFINE m == IF u.how \in {"final", "stable"} THEN FALSE ELSE w.map
<1>1. /\ u.status \in {"completed", "failed"} /\ u.text \in Text
      /\ u.how \in {"final", "stable", "degraded", "failed"} /\ u.real \in BOOLEAN
  BY Zenon DEF Update
<1>2. /\ u.status \in {"none", "pending", "completed", "failed"}
      /\ u.how \in {"none", "local", "final", "stable", "degraded", "failed"}
      /\ 0 \in Ticks /\ m \in BOOLEAN
  BY <1>1, Constants, RowFields
<1>3. Settled(w, u) = [w EXCEPT !.status = u.status, !.text = u.text, !.how = u.how, !.real = u.real,
                                !.due = 0, !.map = m]
  BY DEF Settled
<1> HIDE DEF m
<1> QED BY <1>1, <1>2, <1>3, Zenon DEF Row

LEMMA CommitRowKeeps ==
    ASSUME DeepAnalysisAssumption, DeepInv, NEW p \in Pollers, CommitRow(p),
           NEW r, r = poller[p].rec, NEW u, u = poller[p].upd
    PROVE  DeepInv'
<1> DEFINE c == [poller[p] EXCEPT !.pc = "announce"]
<1>1. poller[p].pc = "commit"
  BY DEF CommitRow
<1>2. /\ r \in Records /\ poller[p] \in Poller /\ RecordOK(r)
      /\ PollOK(poller[p], rec[r], round[r], trouble[r], seen[r])
  BY <1>1, Busy
<1>3. u \in Update /\ UpdOK(u, seen[r]) /\ poller[p].round \in Nat
  BY <1>1, <1>2, PollerFields DEF PollOK
<1>4. /\ rec' = [rec EXCEPT ![r] = Settled(rec[r], u)] /\ verdict' = [verdict EXCEPT ![r] = poller[p].round]
      /\ UNCHANGED <<stab, tasks, op, round, notices, trouble, seen, asked, budget>>
  BY DEF CommitRow
<1>5. PICK n \in Poller : /\ poller' = [poller EXCEPT ![p] = n]
                          /\ (n = c /\ u.status = "completed") \/ n = Idle
  <2>1. c \in Poller
    <3>1. "announce" \in PC
      BY DEF PC
    <3> QED BY <1>2, <3>1, Zenon DEF Poller
  <2>2. CASE u.status = "completed"
    <3>1. poller' = [poller EXCEPT ![p].pc = "announce"]
      BY <2>2 DEF CommitRow, Goto
    <3>2. poller' = [poller EXCEPT ![p] = c]
      BY <3>1, Zenon
    <3> QED BY <2>1, <2>2, <3>2
  <2>3. CASE u.status # "completed"
    BY <2>3, IdleTyped DEF CommitRow, Done
  <2> QED BY <2>2, <2>3
<1>6. rec[r] \in Row /\ seen[r] \in [1 .. MaxText -> 0 .. Hits] /\ trouble[r] \in Nat
  BY <1>2, RecordTyped DEF DeepInv
<1>7. /\ rec'[r] \in Row /\ rec'[r].status = u.status /\ rec'[r].text = u.text
      /\ rec'[r].how = u.how /\ rec'[r].key = rec[r].key
      /\ rec' \in [Records -> Row] /\ verdict'[r] = poller[p].round
      /\ \A s \in Records \ {r} : rec'[s] = rec[s] /\ verdict'[s] = verdict[s]
  BY <1>2, <1>3, <1>4, <1>6, SettledRow DEF DeepInv, TypeOK
<1>8. TypeOK'
  BY <1>3, <1>4, <1>5, <1>7 DEF DeepInv, TypeOK
<1>9. u.status \in {"completed", "failed"} /\ u.how \in {"final", "stable", "degraded", "failed"}
  BY <1>3, Zenon DEF Update
<1>10. c.pc = "announce" /\ SameCase(poller[p], c)
  BY <1>2, Zenon DEF Poller, SameCase
<1>11. c.rec = r /\ PollOK(c, rec'[r], round'[r], trouble'[r], seen'[r])
  BY <1>1, <1>2, <1>4, <1>7, <1>9, <1>10 DEF PollOK, SameCase
<1>12. Holds(n, r) => Holds(poller[p], r)
  <2>1. u.status = "completed" => Holds(poller[p], r)
    BY <1>1 DEF Holds
  <2> QED BY <1>5, <2>1, IdleTyped
<1> HIDE DEF c
<1>13. Paid(r)'
  <2>1. rec'[r].status # "pending"
    BY <1>7, <1>9
  <2>2. notices'[r] = notices[r] /\ trouble'[r] = trouble[r]
    BY <1>4
  <2> QED BY <1>1, <1>5, <1>8, <1>12, <2>1, <2>2, PaidByLeaver
<1>14. Fetched(seen[r], seen'[r])
  BY <1>2, <1>4, SeenUnchanged DEF DeepInv
<1>15. RowOK(r)' /\ Grows(r)
  <2>1. SnapOK(stab[r], seen[r]) /\ rec[r].key /\ stab'[r] = stab[r] /\ seen'[r] = seen[r]
    BY <1>2, <1>4 DEF RecordOK, RowOK, PollOK
  <2>2. round'[r] = round[r] /\ trouble'[r] >= trouble[r]
    BY <1>4, <1>6
  <2>3. rec'[r].status # "none" /\ rec'[r].status # "pending" /\ rec'[r].key = rec[r].key
    BY <1>7, <1>9
  <2>4. RowOK(r)'
    BY <2>1, <2>3 DEF RowOK
  <2>5. Grows(r)
    BY <2>1, <2>2, <2>3 DEF Grows
  <2> QED BY <2>4, <2>5
<1>16. VerdictOK(r)' /\ ReportOK(r)'
  <2>1. trouble'[r] = 0 => verdict'[r] = round'[r]
    BY <1>2, <1>4, <1>6, <1>7 DEF PollOK
  <2>2. VerdictOK(r)'
    BY <1>7, <1>9, <2>1 DEF VerdictOK
  <2>3. ReportOK(r)'
    BY <1>3, <1>4, <1>7 DEF ReportOK, UpdOK
  <2> QED BY <2>2, <2>3
<1>17. \A s \in Records \ {r} : Same(s)
  BY <1>4, <1>7 DEF Same
<1>18. n.pc = "idle" \/ (n.rec = r /\ PollOK(n, rec'[r], round'[r], trouble'[r], seen'[r]))
  BY <1>5, <1>11, IdleTyped
<1> QED BY <1>1, <1>4, <1>5, <1>8, <1>13, <1>14, <1>15, <1>16, <1>17, <1>18, PollStep DEF RecordOK

LEMMA AnnounceKeeps ==
    ASSUME DeepAnalysisAssumption, DeepInv, NEW p \in Pollers, Announce(p), NEW r, r = poller[p].rec
    PROVE  DeepInv'
<1>1. poller[p].pc = "announce" /\ poller' = [poller EXCEPT ![p] = Idle]
      /\ notices' = [notices EXCEPT ![r] = @ + 1]
      /\ UNCHANGED <<rec, stab, tasks, op, round, verdict, trouble, seen, asked, budget>>
  BY DEF Announce, Done
<1>2. /\ r \in Records /\ poller[p] \in Poller /\ RecordOK(r)
      /\ PollOK(poller[p], rec[r], round[r], trouble[r], seen[r])
  BY <1>1, Busy
<1>3. TypeOK'
  <2>1. notices' \in [Records -> Nat]
    BY <1>1, <1>2 DEF DeepInv, TypeOK
  <2>2. poller' \in [Pollers -> Poller]
    BY <1>1, IdleTyped DEF DeepInv, TypeOK
  <2> QED BY <1>1, <2>1, <2>2 DEF DeepInv, TypeOK
<1>4. /\ notices'[r] = notices[r] + 1 /\ \A s \in Records \ {r} : notices'[s] = notices[s]
      /\ notices[r] \in Nat /\ trouble[r] \in Nat
  BY <1>1, <1>2 DEF DeepInv, TypeOK
<1>5. /\ rec'[r] = rec[r] /\ round'[r] = round[r] /\ verdict'[r] = verdict[r]
      /\ trouble'[r] = trouble[r] /\ stab'[r] = stab[r] /\ seen'[r] = seen[r]
  BY <1>1
<1>6. Acts(p) /\ poller'[p] = Idle
  BY <1>1, IdleTyped DEF Acts, DeepInv, TypeOK
<1>7. Paid(r)'
  <2>1. Holds(poller[p], r) /\ ~Holds(Idle, r)
    BY <1>1, IdleTyped DEF Holds
  <2>2. Cardinality(Holders(r)') + 1 <= Cardinality(Holders(r))
    BY <1>6, <2>1, HoldersMove
  <2>3. Cardinality(Holders(r)) \in Nat /\ Cardinality(Holders(r)') \in Nat
    BY HoldersCount, HoldersCountNext
  <2>4. notices'[r] + Cardinality(Holders(r)') <= notices[r] + Cardinality(Holders(r))
    BY <1>4, <2>2, <2>3
  <2>5. ~(rec'[r].status = "pending" /\ Guards(poller[p], r, rec[r], round[r]))
    BY <1>1, <1>2, <1>5 DEF Guards, PollOK
  <2>6. Free(r)' => Free(r)
    BY <1>2, <1>5, <1>6, <2>5, FreeKept
  <2>7. notices'[r] \in Nat /\ trouble'[r] \in Nat /\ trouble'[r] >= trouble[r] /\ Paid(r)
    BY <1>2, <1>4, <1>5 DEF RecordOK
  <2> QED BY <1>2, <1>4, <2>4, <2>6, <2>7, PaidStep
<1>8. Fetched(seen[r], seen'[r])
  BY <1>1, <1>2, SeenUnchanged DEF DeepInv
<1>9. RecordOK(r)' /\ Grows(r)
  <2>1. SnapOK(stab'[r], seen'[r]) /\ rec[r].status # "none"
    BY <1>2, <1>5 DEF RecordOK, RowOK, PollOK
  <2>2. trouble'[r] >= trouble[r] /\ Alike(rec[r], rec'[r])
    BY <1>4, <1>5 DEF Alike
  <2> QED BY <1>2, <1>3, <1>5, <1>7, <1>8, <2>1, <2>2, RecordByPoller
<1>10. \A s \in Records \ {r} : Same(s)
  BY <1>1, <1>4 DEF Same
<1> QED BY <1>1, <1>3, <1>8, <1>9, <1>10, IdleTyped, PollStep

\* What the leaving of a poll has in common: its record's row says the same,
\* and the leaver has paid.
LEMMA Leaves ==
    ASSUME DeepAnalysisAssumption, DeepInv, TypeOK', op' = op,
           NEW p \in Pollers, poller[p].pc # "idle", NEW r, r = poller[p].rec,
           NEW q \in Poller, poller' = [poller EXCEPT ![p] = q],
           \/ q.pc = "idle"
           \/ q.rec = r /\ PollOK(q, rec'[r], round'[r], trouble'[r], seen'[r]),
           Holds(q, r) => Holds(poller[p], r),
           \/ trouble'[r] = trouble[r] + 1
           \/ trouble'[r] = trouble[r] /\ Holds(poller[p], r) /\ ~Holds(q, r)
           \/ trouble'[r] = trouble[r] /\ rec'[r].status # "pending",
           \A s \in Records \ {r} : rec'[s] = rec[s] /\ trouble'[s] = trouble[s],
           Alike(rec[r], rec'[r]),
           UNCHANGED <<stab, round, verdict, notices, seen>>
    PROVE  DeepInv'
<1>1. /\ r \in Records /\ poller[p] \in Poller /\ RecordOK(r)
      /\ PollOK(poller[p], rec[r], round[r], trouble[r], seen[r])
  BY Busy
<1>2. notices'[r] = notices[r] /\ stab'[r] = stab[r] /\ seen'[r] = seen[r] /\ round'[r] = round[r] /\ verdict'[r] = verdict[r]
  OBVIOUS
<1>3. Paid(r)'
  BY <1>2, PaidByLeaver
<1>4. Fetched(seen[r], seen'[r])
  BY <1>1, SeenUnchanged DEF DeepInv
<1>5. RecordOK(r)' /\ Grows(r)
  <2>1. SnapOK(stab'[r], seen'[r]) /\ rec[r].status # "none"
    BY <1>1, <1>2 DEF RecordOK, RowOK, PollOK
  <2>2. trouble'[r] >= trouble[r]
    BY <1>1, RecordTyped DEF DeepInv
  <2> QED BY <1>1, <1>2, <1>3, <1>4, <2>1, <2>2, RecordByPoller
<1>6. \A s \in Records \ {r} : Same(s)
  BY DEF Same
<1> QED BY <1>4, <1>5, <1>6, PollStep

LEMMA CrashKeeps ==
    ASSUME DeepAnalysisAssumption, DeepInv, NEW p \in Pollers, Crash(p), NEW r, r = poller[p].rec
    PROVE  DeepInv'
<1>1. /\ poller[p].pc # "idle" /\ poller' = [poller EXCEPT ![p] = Idle]
      /\ trouble' = [trouble EXCEPT ![r] = @ + 1] /\ Fault
      /\ UNCHANGED <<rec, stab, tasks, op, round, verdict, notices, seen, asked>>
  BY DEF Crash, Done
<1>2. r \in Records
  BY <1>1, Busy
<1>3. /\ trouble'[r] = trouble[r] + 1 /\ \A s \in Records \ {r} : trouble'[s] = trouble[s]
      /\ trouble' \in [Records -> Nat]
  BY <1>1, <1>2 DEF DeepInv, TypeOK
<1>4. budget' \in [faults : Nat, retries : Nat]
  BY <1>1, FaultTyped DEF DeepInv
<1>5. TypeOK'
  BY <1>1, <1>3, <1>4, IdleTyped DEF DeepInv, TypeOK
<1>6. Alike(rec[r], rec'[r]) /\ \A s \in Records \ {r} : rec'[s] = rec[s]
  BY <1>1 DEF Alike
<1> QED BY <1>1, <1>3, <1>5, <1>6, IdleTyped, Leaves

LEMMA OverrunKeeps ==
    ASSUME DeepAnalysisAssumption, DeepInv, NEW p \in Pollers, Overrun(p), NEW r, r = poller[p].rec
    PROVE  DeepInv'
<1> DEFINE q == [poller[p] EXCEPT !.slow = TRUE]
<1>1. /\ poller[p].pc # "idle"
      /\ trouble' = [trouble EXCEPT ![r] = @ + 1] /\ Fault
      /\ UNCHANGED <<rec, stab, tasks, op, round, verdict, notices, seen, asked>>
      /\ poller' = [poller EXCEPT ![p].slow = TRUE]
  BY DEF Overrun
<1>2. /\ r \in Records /\ poller[p] \in Poller
      /\ PollOK(poller[p], rec[r], round[r], trouble[r], seen[r])
  BY <1>1, Busy
<1>3. /\ trouble'[r] = trouble[r] + 1 /\ \A s \in Records \ {r} : trouble'[s] = trouble[s]
      /\ trouble' \in [Records -> Nat] /\ trouble[r] \in Nat
  BY <1>1, <1>2 DEF DeepInv, TypeOK
<1>4. budget' \in [faults : Nat, retries : Nat]
  BY <1>1, FaultTyped DEF DeepInv
<1>5. poller' = [poller EXCEPT ![p] = q]
  BY <1>1, Zenon
<1>6. /\ q \in Poller /\ q.pc = poller[p].pc /\ q.rec = r /\ q.upd = poller[p].upd /\ q.round = poller[p].round
      /\ q.answer = poller[p].answer /\ q.snap = poller[p].snap /\ q.left = poller[p].left /\ q.slow
  <2>1. TRUE \in BOOLEAN
    OBVIOUS
  <2> QED BY <1>2, <2>1, Zenon DEF Poller
<1> HIDE DEF q
<1>7. TypeOK'
  <2>1. poller' \in [Pollers -> Poller]
    BY <1>5, <1>6 DEF DeepInv, TypeOK
  <2>2. UNCHANGED <<rec, stab, tasks, op, round, verdict, notices, seen, asked>>
    BY <1>1
  <2> QED BY <1>3, <1>4, <2>1, <2>2 DEF DeepInv, TypeOK
<1>8. Alike(rec[r], rec'[r]) /\ \A s \in Records \ {r} : rec'[s] = rec[s]
  BY <1>1 DEF Alike
<1>9. Holds(q, r) => Holds(poller[p], r)
  BY <1>6 DEF Holds
<1>10. PollOK(q, rec'[r], round'[r], trouble'[r], seen'[r])
  <2>1. rec'[r] = rec[r] /\ round'[r] = round[r] /\ seen'[r] = seen[r] /\ trouble'[r] > 0
    BY <1>1, <1>3
  <2> QED BY <1>2, <1>6, <2>1 DEF PollOK
<1> QED BY <1>1, <1>3, <1>5, <1>6, <1>7, <1>8, <1>9, <1>10, Leaves

LEMMA NextDelayTyped ==
    ASSUME DeepAnalysisAssumption, NEW n \in 0 .. MaxAttempts, NEW a \in Age
    PROVE  NextDelay(n, a) \in Ticks
<1>1. /\ Timeout \in Nat \ {0} /\ MaxDelay \in Nat /\ FirstDelay \in Nat \ {0} /\ FirstDelay <= MaxDelay
      /\ Lease \in Nat /\ DelayForAttempt[n] \in 0 .. MaxDelay
  BY DEF DeepAnalysisAssumption
<1>2. a \in Nat
  BY <1>1 DEF Age
<1>3. CASE a >= Timeout
  BY <1>1, <1>3, Constants DEF NextDelay
<1>4. CASE ~(a >= Timeout)
  <2>1. Timeout - a \in Nat
    BY <1>1, <1>2, <1>4
  <2>2. Least(DelayForAttempt[n], Timeout - a) \in 0 .. MaxDelay
    BY <1>1, <2>1 DEF Least
  <2>3. NextDelay(n, a) \in 0 .. MaxDelay
    BY <1>4, <2>2 DEF NextDelay
  <2> QED BY <1>1, <2>3 DEF Ticks
<1> QED BY <1>3, <1>4

\* A poll that is scheduled, or whose schedule is lost.
LEMMA ScheduleTyped ==
    ASSUME TypeOK, NEW r \in Records, NEW d \in Ticks, Schedule(r, d)
    PROVE  tasks' \subseteq Records \X Ticks /\ budget' \in [faults : Nat, retries : Nat]
<1>1. CASE tasks' = tasks \cup {<<r, d>>} /\ UNCHANGED budget
  BY <1>1 DEF TypeOK
<1>2. CASE Fault /\ UNCHANGED tasks
  BY <1>2, FaultTyped DEF TypeOK
<1> QED BY <1>1, <1>2 DEF Schedule

LEMMA ScheduleNextKeeps ==
    ASSUME DeepAnalysisAssumption, DeepInv, NEW p \in Pollers, ScheduleNext(p), NEW r, r = poller[p].rec
    PROVE  DeepInv'
<1> DEFINE d == NextDelay(poller[p].attempts, poller[p].age)
<1>1. /\ poller[p].pc = "skip" /\ poller' = [poller EXCEPT ![p] = Idle]
      /\ UNCHANGED <<stab, op, round, verdict, notices, trouble, seen, asked>>
  BY DEF ScheduleNext, Done
<1>2. r \in Records /\ poller[p] \in Poller
  BY <1>1, Busy
<1>3. d \in Ticks
  BY <1>2, PollerFields, NextDelayTyped
<1>4. \/ rec[r].status = "pending" /\ rec' = [rec EXCEPT ![r].due = d] /\ Schedule(r, d)
      \/ rec[r].status # "pending" /\ UNCHANGED <<rec, tasks, budget>>
  BY DEF ScheduleNext
<1> HIDE DEF d
<1>5. /\ tasks' \subseteq Records \X Ticks /\ budget' \in [faults : Nat, retries : Nat]
      /\ rec' \in [Records -> Row] /\ Alike(rec[r], rec'[r])
      /\ \A s \in Records \ {r} : rec'[s] = rec[s]
  <2>1. CASE rec[r].status = "pending" /\ rec' = [rec EXCEPT ![r].due = d] /\ Schedule(r, d)
    <3> DEFINE w == [rec[r] EXCEPT !.due = d]
    <3>1. rec' = [rec EXCEPT ![r] = w]
      BY <2>1, Zenon
    <3>2. rec \in [Records -> Row] /\ rec[r] \in Row
      BY <1>2 DEF DeepInv, TypeOK
    <3>3. w \in Row /\ w.status = rec[r].status /\ w.key = rec[r].key /\ w.how = rec[r].how /\ w.text = rec[r].text
      BY <1>3, <3>2, Zenon DEF Row
    <3>4. tasks' \subseteq Records \X Ticks /\ budget' \in [faults : Nat, retries : Nat]
      BY <1>2, <1>3, <2>1, ScheduleTyped DEF DeepInv
    <3> HIDE DEF w
    <3>5. rec' \in [Records -> Row] /\ rec'[r] = w /\ \A s \in Records \ {r} : rec'[s] = rec[s]
      BY <1>2, <3>1, <3>2, <3>3
    <3> QED BY <3>3, <3>4, <3>5 DEF Alike
  <2>2. CASE UNCHANGED <<rec, tasks, budget>>
    BY <2>2 DEF DeepInv, TypeOK, Alike
  <2> QED BY <1>4, <2>1, <2>2
<1>6. TypeOK'
  BY <1>1, <1>5, IdleTyped DEF DeepInv, TypeOK
<1>7. trouble'[r] = trouble[r] /\ Holds(poller[p], r) /\ ~Holds(Idle, r)
  BY <1>1, IdleTyped DEF Holds
<1>8. \A s \in Records \ {r} : rec'[s] = rec[s] /\ trouble'[s] = trouble[s]
  BY <1>1, <1>5
<1> QED BY <1>1, <1>5, <1>6, <1>7, <1>8, IdleTyped, Leaves


LEMMA PollKeeps ==
    ASSUME DeepAnalysisAssumption, DeepInv, NEW p \in Pollers, Poll(p) \/ Crash(p) \/ Overrun(p)
    PROVE  DeepInv'
BY TimesOutKeeps, FetchKeeps, CompareTextKeeps, CompareErrorKeeps, SelectRowKeeps, CommitRowKeeps,
   AnnounceKeeps, ScheduleNextKeeps, CrashKeeps, OverrunKeeps DEF Poll

-----------------------------------------------------------------------------
(* The steps of the table, the operator and the clock *)

\* A step in which no poller moves.
LEMMA NobodyMoves ==
    ASSUME DeepAnalysisAssumption, DeepInv, TypeOK', NEW p, p \notin Pollers, poller' = poller, SeenKept,
           \A r \in Records : Grows(r)
    PROVE  PollsOK'
<1>1. Acts(p)
  BY DEF Acts, DeepInv, TypeOK
<1> QED BY <1>1, PollsKept

LEMMA RecordStays ==
    ASSUME DeepAnalysisAssumption, DeepInv, TypeOK', poller' = poller, NEW s \in Records, Same(s)
    PROVE  RecordOK(s)'
<1>1. RecordOK(s)
  BY DEF DeepInv
<1>2. RowOK(s)' /\ VerdictOK(s)' /\ ReportOK(s)'
  BY <1>1 DEF RecordOK, RowOK, VerdictOK, ReportOK, Same
<1>3. Holders(s)' = Holders(s) /\ (Free(s)' <=> Free(s))
  BY DEF Holders, Free, Same
<1>4. Paid(s)'
  BY <1>1, <1>3 DEF RecordOK, Paid, Same
<1> QED BY <1>2, <1>4 DEF RecordOK

\* Only the record r changes, and no poller moves.
LEMMA RecordStep ==
    ASSUME DeepAnalysisAssumption, DeepInv, TypeOK', poller' = poller, op' = op \/ OpOK',
           NEW r \in Records, \A s \in Records \ {r} : Same(s),
           Grows(r), Fetched(seen[r], seen'[r]), RecordOK(r)'
    PROVE  DeepInv'
<1>1. \A s \in Records : Grows(s)
  BY SameGrows DEF DeepInv
<1>2. SeenKept
  BY SameGrows DEF DeepInv, SeenKept
<1>3. \E p : p \notin Pollers
  BY NoSetContainsEverything
<1>4. PollsOK'
  BY <1>1, <1>2, <1>3, NobodyMoves
<1>5. \A s \in Records : RecordOK(s)'
  BY RecordStays
<1>6. OpOK'
  BY <1>1 DEF DeepInv, OpOK, Grows
<1> QED BY <1>4, <1>5, <1>6 DEF DeepInv


\* A step that touches neither rows nor polls.
LEMMA QuietStep ==
    ASSUME DeepAnalysisAssumption, DeepInv, TypeOK', op' = op \/ OpOK',
           UNCHANGED <<rec, stab, poller, round, verdict, notices, trouble, seen>>
    PROVE  DeepInv'
<1>1. \A s \in Records : RecordOK(s)'
  BY RecordStays DEF Same
<1>2. PollsOK'
  BY DEF DeepInv, PollsOK
<1>3. OpOK'
  BY DEF DeepInv, OpOK
<1> QED BY <1>1, <1>2, <1>3 DEF DeepInv

\* A record nobody can poll owes nothing for its pollers.
LEMMA PaidAlone ==
    ASSUME DeepAnalysisAssumption, DeepInv, TypeOK', NEW r \in Records, ~rec[r].key, poller' = poller,
           \/ notices'[r] = 0
           \/ notices'[r] = 1 /\ rec'[r].status # "pending"
    PROVE  Alone(r) /\ Paid(r)'
<1>1. Alone(r)
  BY DEF Alone, DeepInv, PollsOK, PollOK
<1>2. Holders(r)' = {}
  BY <1>1 DEF Holders, Holds, Alone
<1>3. Cardinality(Holders(r)') = 0
  BY <1>2, FS_EmptySet
<1>4. trouble'[r] \in Nat
  BY RecordTypedNext
<1> DEFINE c == Cardinality(Holders(r)')
           g == IF Free(r)' THEN 1 ELSE 0
<1>p. Paid(r)' <=> notices'[r] + c + g <= 1 + trouble'[r]
  BY DEF Paid
<1>g. g \in {0, 1} /\ (~Free(r)' => g = 0) /\ c = 0
  BY <1>3
<1> HIDE DEF c, g
<1>5. CASE notices'[r] = 0
  BY <1>1, <1>g, <1>p, <1>4, <1>5
<1>6. CASE notices'[r] = 1 /\ rec'[r].status # "pending"
  <2>1. ~Free(r)'
    BY <1>6 DEF Free
  <2> QED BY <1>1, <1>g, <1>p, <1>4, <1>6, <2>1
<1> QED BY <1>1, <1>5, <1>6

\* The rows a submission writes.
LEMMA SubmittedRow ==
    ASSUME DeepAnalysisAssumption, NEW g \in Gateways, NEW k \in BOOLEAN, NEW m \in BOOLEAN
    PROVE  /\ Submitted(g, k) \in Row /\ Submitted(g, k).status = "pending" /\ Submitted(g, k).key
           /\ Submitted(g, k).how = "none"
           /\ [Submitted(g, k) EXCEPT !.map = m] \in Row
           /\ [Submitted(g, k) EXCEPT !.map = m].status = "pending"
           /\ [Submitted(g, k) EXCEPT !.map = m].key /\ [Submitted(g, k) EXCEPT !.map = m].how = "none"
<1> DEFINE b == Masking /\ k
           d == DelayForAttempt[0]
           w == Submitted(g, k)
           v == [w EXCEPT !.map = m]
<1>1. NoRow \in Row /\ NoRow.how = "none"
  BY ValuesTyped DEF Values, NoRow
<1>2. b \in BOOLEAN /\ Masking \in BOOLEAN /\ d \in Ticks /\ TRUE \in BOOLEAN
      /\ "pending" \in {"none", "pending", "completed", "failed"}
  BY Constants
<1>3. w = [NoRow EXCEPT !.status = "pending", !.key = TRUE, !.gateway = g, !.masked = Masking,
                        !.map = b, !.due = d]
  BY DEF Submitted
<1> HIDE DEF b, d, w
<1>4. w \in Row /\ w.status = "pending" /\ w.key = TRUE /\ w.how = "none"
  BY <1>1, <1>2, <1>3, Zenon DEF Row
<1>5. v \in Row /\ v.status = "pending" /\ v.key = TRUE /\ v.how = "none"
  BY <1>4, Zenon DEF Row
<1> QED BY <1>4, <1>5 DEF w

LEMMA LocalRow ==
    ASSUME DeepAnalysisAssumption, NEW w \in Row
    PROVE  /\ Local(w) \in Row /\ Local(w).status = "completed" /\ Local(w).how = "local"
           /\ Local(w).key = w.key
<1>1. /\ 0 \in Text /\ FALSE \in BOOLEAN /\ TRUE \in BOOLEAN
      /\ "completed" \in {"none", "pending", "completed", "failed"}
      /\ "local" \in {"none", "local", "final", "stable", "degraded", "failed"}
  BY Constants
<1> QED BY <1>1, Zenon DEF Local, Row

LEMMA SubmitKeeps ==
    ASSUME DeepAnalysisAssumption, DeepInv, NEW r \in Records, Submit(r)
    PROVE  DeepInv'
<1>1. rec[r].status = "none" /\ UNCHANGED <<stab, poller, op, round, verdict, notices, trouble, seen, asked>>
  BY DEF Submit
<1>2. ~rec[r].key /\ notices[r] = 0 /\ verdict[r] = round[r] /\ SnapOK(stab[r], seen[r])
  BY <1>1 DEF DeepInv, RecordOK, RowOK
<1>3. PICK w \in Row : /\ rec' = [rec EXCEPT ![r] = w]
                       /\ \/ w.status = "pending" /\ w.key /\ w.how = "none"
                          \/ w.status = "completed" /\ w.how = "local"
                       /\ tasks' \subseteq Records \X Ticks /\ budget' \in [faults : Nat, retries : Nat]
  <2>1. ASSUME NEW g \in Gateways, NEW k \in BOOLEAN,
               rec' = [rec EXCEPT ![r] = Submitted(g, k)], Schedule(r, DelayForAttempt[0])
        PROVE  \E w \in Row : /\ rec' = [rec EXCEPT ![r] = w]
                              /\ w.status = "pending" /\ w.key /\ w.how = "none"
                              /\ tasks' \subseteq Records \X Ticks /\ budget' \in [faults : Nat, retries : Nat]
    <3>1. DelayForAttempt[0] \in Ticks
      BY Constants
    <3>2. tasks' \subseteq Records \X Ticks /\ budget' \in [faults : Nat, retries : Nat]
      BY <2>1, <3>1, ScheduleTyped DEF DeepInv
    <3>3. /\ Submitted(g, k) \in Row /\ Submitted(g, k).status = "pending" /\ Submitted(g, k).key
          /\ Submitted(g, k).how = "none"
      BY SubmittedRow
    <3> QED BY <2>1, <3>2, <3>3
  <2>2. CASE rec' = [rec EXCEPT ![r] = Local(NoRow)] /\ UNCHANGED <<tasks, budget>>
    <3>1. Local(NoRow) \in Row /\ Local(NoRow).status = "completed" /\ Local(NoRow).how = "local"
      BY ValuesTyped, LocalRow DEF Values
    <3>2. tasks' \subseteq Records \X Ticks /\ budget' \in [faults : Nat, retries : Nat]
      BY <2>2 DEF DeepInv, TypeOK
    <3> QED BY <2>2, <3>1, <3>2
  <2> QED BY <2>1, <2>2 DEF Submit
<1>4. /\ rec' \in [Records -> Row] /\ rec'[r] = w /\ \A s \in Records \ {r} : rec'[s] = rec[s]
  BY <1>3 DEF DeepInv, TypeOK
<1>5. TypeOK'
  BY <1>1, <1>3, <1>4 DEF DeepInv, TypeOK
<1>6. /\ stab'[r] = stab[r] /\ seen'[r] = seen[r] /\ round'[r] = round[r] /\ verdict'[r] = verdict[r]
      /\ notices'[r] = notices[r] /\ trouble'[r] = trouble[r]
  BY <1>1
<1>7. Alone(r) /\ Paid(r)'
  BY <1>1, <1>2, <1>5, <1>6, PaidAlone
<1>8. RecordOK(r)'
  BY <1>2, <1>3, <1>4, <1>6, <1>7 DEF RecordOK, RowOK, VerdictOK, ReportOK
<1>9. Grows(r)
  BY <1>1, <1>2, <1>7 DEF Grows
<1>10. Fetched(seen[r], seen'[r])
  BY <1>1, SeenUnchanged DEF DeepInv
<1>11. \A s \in Records \ {r} : Same(s)
  BY <1>1, <1>4 DEF Same
<1> QED BY <1>1, <1>5, <1>8, <1>9, <1>10, <1>11, RecordStep

LEMMA ScanKeeps ==
    ASSUME DeepAnalysisAssumption, DeepInv, Scan
    PROVE  DeepInv'
<1>1. UNCHANGED <<rec, stab, poller, op, round, verdict, notices, trouble, seen, asked, budget>>
      /\ tasks' \subseteq Records \X Ticks
  <2>1. 0 \in Ticks /\ tasks \subseteq Records \X Ticks
    BY Constants DEF DeepInv, TypeOK
  <2>2. \A x \in tasks' : x \in tasks \/ \E r \in Records : x = <<r, 0>>
    BY DEF Scan
  <2>3. tasks' \subseteq Records \X Ticks
    BY <2>1, <2>2
  <2> QED BY <2>3 DEF Scan
<1>2. TypeOK'
  BY <1>1 DEF DeepInv, TypeOK
<1> QED BY <1>1, <1>2, QuietStep

LEMMA RetryLoadKeeps ==
    ASSUME DeepAnalysisAssumption, DeepInv, NEW r \in Records, RetryLoad(r)
    PROVE  DeepInv'
<1>1. /\ rec[r].status # "none" /\ budget.retries > 0
      /\ op' = [pc |-> "loaded", rec |-> r, status |-> rec[r].status]
      /\ budget' = [budget EXCEPT !.retries = @ - 1]
      /\ UNCHANGED <<rec, stab, tasks, poller, round, verdict, notices, trouble, seen, asked>>
  BY DEF RetryLoad
<1>2. rec[r].status \in {"none", "pending", "completed", "failed"}
  BY RecordTyped, RowFields DEF DeepInv
<1>3. budget' \in [faults : Nat, retries : Nat]
  <2>1. budget \in [faults : Nat, retries : Nat]
    BY DEF DeepInv, TypeOK
  <2>2. budget.retries - 1 \in Nat
    BY <1>1, <2>1
  <2> QED BY <1>1, <2>1, <2>2, Zenon
<1>4. op' \in [pc : {"idle", "loaded", "clear", "schedule"}, rec : Records \cup {Nobody},
               status : {"none", "pending", "completed", "failed"}]
  BY <1>1, <1>2
<1>5. TypeOK'
  BY <1>1, <1>3, <1>4 DEF DeepInv, TypeOK
<1>6. OpOK'
  BY <1>1 DEF OpOK
<1> QED BY <1>1, <1>5, <1>6, QuietStep


LEMMA OpTyped ==
    ASSUME TypeOK, NEW c \in {"idle", "loaded", "clear", "schedule"}, op' = [op EXCEPT !.pc = c]
    PROVE  /\ op' \in [pc : {"idle", "loaded", "clear", "schedule"}, rec : Records \cup {Nobody},
                       status : {"none", "pending", "completed", "failed"}]
           /\ op'.pc = c /\ op'.rec = op.rec
BY Zenon DEF TypeOK

\* The operator's request is over.
LEMMA OpOver == op' = OpIdle =>
    /\ op' \in [pc : {"idle", "loaded", "clear", "schedule"}, rec : Records \cup {Nobody},
                status : {"none", "pending", "completed", "failed"}]
    /\ OpOK'
BY DEF OpIdle, OpOK

LEMMA ResetRow ==
    ASSUME DeepAnalysisAssumption, NEW w \in Row, NEW l
    PROVE  /\ Reset(w, l) \in Row /\ Reset(w, l).key = w.key /\ Reset(w, l).how = "none"
           /\ Reset(w, l).status = IF l = "pending" THEN w.status ELSE "pending"
<1> DEFINE x == IF l = "pending" THEN w.status ELSE "pending"
<1>1. /\ x \in {"none", "pending", "completed", "failed"} /\ 0 \in Text /\ 0 \in Ticks /\ 0 \in Age
      /\ 0 \in 0 .. MaxAttempts /\ TRUE \in BOOLEAN
      /\ "none" \in {"none", "local", "final", "stable", "degraded", "failed"}
  BY Constants, RowFields
<1>2. Reset(w, l) = [w EXCEPT !.status = x, !.text = 0, !.how = "none", !.real = TRUE, !.attempts = 0,
                              !.due = 0, !.age = 0]
  BY DEF Reset
<1> HIDE DEF x
<1>3. Reset(w, l) \in Row /\ Reset(w, l).key = w.key /\ Reset(w, l).how = "none" /\ Reset(w, l).status = x
  BY <1>1, <1>2, Zenon DEF Row
<1> QED BY <1>3 DEF x

\* A manual retry starts a round in which every poll under way is a trouble.
LEMMA RetryResetKeeps ==
    ASSUME DeepAnalysisAssumption, DeepInv, RetryReset, NEW r, r = op.rec
    PROVE  DeepInv'
<1> DEFINE w == Reset(rec[r], op.status)
           a == Cardinality(Active(r))
           x == IF rec[r].status = op.status THEN 0 ELSE 1
           n == a + x
<1>1. /\ op.pc = "loaded" /\ rec[r].key /\ rec' = [rec EXCEPT ![r] = w]
      /\ op' = [op EXCEPT !.pc = "clear"]
      /\ round' = [round EXCEPT ![r] = @ + 1] /\ notices' = [notices EXCEPT ![r] = 0]
      /\ trouble' = [trouble EXCEPT ![r] = n]
      /\ UNCHANGED <<stab, tasks, poller, verdict, seen, asked, budget>>
  BY DEF RetryReset, NewRound
<1>2. r \in Records /\ rec[r].status # "none"
  BY <1>1 DEF DeepInv, OpOK
<1>3. rec[r] \in Row /\ RecordOK(r) /\ round[r] \in Nat
  BY <1>2, RecordTyped DEF DeepInv
<1>4. /\ w \in Row /\ w.key = rec[r].key /\ w.how = "none"
      /\ w.status = IF op.status = "pending" THEN rec[r].status ELSE "pending"
  BY <1>3, ResetRow
<1>5. IsFiniteSet(Active(r)) /\ a \in Nat /\ Holders(r) \subseteq Active(r)
  <2>1. IsFiniteSet(Pollers) /\ Active(r) \subseteq Pollers
    BY DEF DeepAnalysisAssumption, Active
  <2>2. IsFiniteSet(Active(r))
    BY <2>1, FS_Subset
  <2>3. Holders(r) \subseteq Active(r)
    BY DEF Holders, Holds, Active
  <2> QED BY <2>2, <2>3, FS_CardinalityType
<1>6. Cardinality(Holders(r)) <= a /\ Cardinality(Holders(r)) \in Nat
  BY <1>5, FS_Subset, HoldersCount
<1>7. a = 0 => Alone(r)
  <2>1. a = 0 => Active(r) = {}
    BY <1>5, FS_EmptySet
  <2> QED BY <2>1 DEF Active, Alone
<1>8. x \in {0, 1} /\ (x = 0 => rec[r].status = op.status)
  OBVIOUS
<1> HIDE DEF w, a, x
<1>9. n \in Nat /\ n >= a /\ n >= x
  BY <1>5, <1>8
<1> HIDE DEF n
<1>10. /\ rec' \in [Records -> Row] /\ rec'[r] = w /\ round'[r] = round[r] + 1 /\ notices'[r] = 0 /\ trouble'[r] = n
       /\ \A s \in Records \ {r} : /\ rec'[s] = rec[s] /\ round'[s] = round[s]
                                   /\ notices'[s] = notices[s] /\ trouble'[s] = trouble[s]
       /\ round' \in [Records -> Nat] /\ notices' \in [Records -> Nat] /\ trouble' \in [Records -> Nat]
  <2>1. rec' \in [Records -> Row] /\ rec'[r] = w /\ \A s \in Records \ {r} : rec'[s] = rec[s]
    BY <1>1, <1>2, <1>4 DEF DeepInv, TypeOK
  <2>2. round' \in [Records -> Nat] /\ round'[r] = round[r] + 1 /\ \A s \in Records \ {r} : round'[s] = round[s]
    BY <1>1, <1>2, <1>3 DEF DeepInv, TypeOK
  <2>3. notices' \in [Records -> Nat] /\ notices'[r] = 0 /\ \A s \in Records \ {r} : notices'[s] = notices[s]
    BY <1>1, <1>2 DEF DeepInv, TypeOK
  <2>4. trouble' \in [Records -> Nat] /\ trouble'[r] = n /\ \A s \in Records \ {r} : trouble'[s] = trouble[s]
    BY <1>1, <1>2, <1>9 DEF DeepInv, TypeOK
  <2> QED BY <2>1, <2>2, <2>3, <2>4
<1>11. /\ op' \in [pc : {"idle", "loaded", "clear", "schedule"}, rec : Records \cup {Nobody},
                   status : {"none", "pending", "completed", "failed"}]
       /\ op'.rec = op.rec
  BY <1>1, OpTyped DEF DeepInv
<1>12. TypeOK'
  <2>1. UNCHANGED <<stab, tasks, poller, verdict, seen, asked, budget>>
    BY <1>1
  <2> QED BY <1>10, <1>11, <2>1 DEF DeepInv, TypeOK
<1>13. rec'[r].status # "none" /\ rec'[r].key /\ rec'[r].how = "none"
  BY <1>1, <1>2, <1>4, <1>10
<1>14. OpOK'
  BY <1>2, <1>11, <1>13 DEF OpOK
<1>15. Paid(r)'
  <2>1. Holders(r)' = Holders(r)
    BY <1>1 DEF Holders
  <2> DEFINE c == Cardinality(Holders(r))
             g == IF Free(r)' THEN 1 ELSE 0
  <2>2. Paid(r)' <=> notices'[r] + c + g <= 1 + trouble'[r]
    BY <2>1 DEF Paid
  <2>3. g \in {0, 1} /\ c \in Nat /\ c <= a
    BY <1>6
  <2> HIDE DEF c, g
  <2> QED BY <1>5, <1>9, <1>10, <2>2, <2>3
<1>16. RowOK(r)' /\ VerdictOK(r)' /\ ReportOK(r)'
  <2>1. SnapOK(stab'[r], seen'[r])
    BY <1>1, <1>3 DEF RecordOK, RowOK
  <2>2. RowOK(r)'
    BY <1>13, <2>1 DEF RowOK
  <2>3. ReportOK(r)'
    BY <1>13 DEF ReportOK
  <2>4. trouble'[r] = 0 => rec'[r].status = "pending"
    <3>1. trouble'[r] = 0 => x = 0
      BY <1>8, <1>9, <1>10
    <3> QED BY <1>4, <1>8, <1>10, <3>1
  <2>5. VerdictOK(r)'
    BY <2>4 DEF VerdictOK
  <2> QED BY <2>2, <2>3, <2>5
<1>17. Grows(r)
  <2>1. trouble'[r] > 0 \/ Alone(r)
    BY <1>5, <1>7, <1>9, <1>10
  <2> QED BY <1>10, <1>13, <2>1 DEF Grows
<1>18. Fetched(seen[r], seen'[r])
  BY <1>1, <1>2, SeenUnchanged DEF DeepInv
<1>19. \A s \in Records \ {r} : Same(s)
  BY <1>1, <1>10 DEF Same
<1>20. RecordOK(r)'
  BY <1>15, <1>16 DEF RecordOK
<1>21. poller' = poller
  BY <1>1
<1> QED BY <1>2, <1>12, <1>14, <1>17, <1>18, <1>19, <1>20, <1>21, RecordStep

LEMMA RetryClearKeeps ==
    ASSUME DeepAnalysisAssumption, DeepInv, RetryClear, NEW r, r = op.rec
    PROVE  DeepInv'
<1>1. /\ op.pc = "clear" /\ op' = [op EXCEPT !.pc = "schedule"]
      /\ UNCHANGED <<rec, tasks, poller, round, verdict, notices, trouble, seen, asked>>
  BY DEF RetryClear
<1>2. r \in Records /\ rec[r].status # "none"
  BY <1>1 DEF DeepInv, OpOK
<1>3. /\ op' \in [pc : {"idle", "loaded", "clear", "schedule"}, rec : Records \cup {Nobody},
                  status : {"none", "pending", "completed", "failed"}]
      /\ op'.rec = op.rec
  BY <1>1, OpTyped DEF DeepInv
<1>4. OpOK'
  BY <1>1, <1>2, <1>3 DEF OpOK
<1>5. CASE stab' = [stab EXCEPT ![r] = NoSnapshot] /\ UNCHANGED budget
  <2>1. NoSnapshot \in Snapshot /\ SnapOK(NoSnapshot, seen[r])
    BY ValuesTyped, SnapTyped DEF Values
  <2>2. /\ stab' \in [Records -> Snapshot] /\ stab'[r] = NoSnapshot
        /\ \A o \in Records \ {r} : stab'[o] = stab[o]
    BY <1>2, <1>5, <2>1, Restabbed DEF DeepInv
  <2>3. TypeOK'
    BY <1>1, <1>3, <1>5, <2>2 DEF DeepInv, TypeOK
  <2>4. /\ rec'[r] = rec[r] /\ seen'[r] = seen[r] /\ round'[r] = round[r] /\ verdict'[r] = verdict[r]
        /\ notices'[r] = notices[r] /\ trouble'[r] = trouble[r] /\ poller' = poller
    BY <1>1
  <2>5. RecordOK(r)
    BY <1>2 DEF DeepInv
  <2>6. RowOK(r)' /\ VerdictOK(r)' /\ ReportOK(r)'
    BY <2>1, <2>2, <2>4, <2>5 DEF RecordOK, RowOK, VerdictOK, ReportOK
  <2>7. Paid(r)'
    <3>1. Holders(r)' = Holders(r) /\ (Free(r)' <=> Free(r))
      BY <2>4 DEF Holders, Free
    <3> QED BY <2>4, <2>5, <3>1 DEF RecordOK, Paid
  <2>8. Grows(r) /\ Fetched(seen[r], seen'[r])
    <3>1. trouble[r] \in Nat
      BY <1>2, RecordTyped DEF DeepInv
    <3>2. Grows(r)
      BY <2>4, <3>1 DEF Grows
    <3> QED BY <1>1, <1>2, <3>2, SeenUnchanged DEF DeepInv
  <2>9. \A s \in Records \ {r} : Same(s)
    BY <1>1, <2>2 DEF Same
  <2>10. RecordOK(r)'
    BY <2>6, <2>7 DEF RecordOK
  <2> QED BY <1>2, <1>4, <2>3, <2>4, <2>8, <2>9, <2>10, RecordStep
<1>6. CASE Fault /\ UNCHANGED stab
  <2>1. budget' \in [faults : Nat, retries : Nat]
    BY <1>6, FaultTyped DEF DeepInv
  <2>2. TypeOK'
    BY <1>1, <1>3, <1>6, <2>1 DEF DeepInv, TypeOK
  <2> QED BY <1>1, <1>4, <1>6, <2>2, QuietStep
<1> QED BY <1>5, <1>6 DEF RetryClear

LEMMA RetryScheduleKeeps ==
    ASSUME DeepAnalysisAssumption, DeepInv, RetrySchedule
    PROVE  DeepInv'
<1>1. /\ op.pc = "schedule" /\ Schedule(op.rec, 0) /\ op' = OpIdle
      /\ UNCHANGED <<rec, stab, poller, round, verdict, notices, trouble, seen, asked>>
  BY DEF RetrySchedule
<1>2. op.rec \in Records /\ 0 \in Ticks
  BY <1>1, Constants DEF DeepInv, OpOK
<1>3. tasks' \subseteq Records \X Ticks /\ budget' \in [faults : Nat, retries : Nat]
  BY <1>1, <1>2, ScheduleTyped DEF DeepInv
<1>4. /\ op' \in [pc : {"idle", "loaded", "clear", "schedule"}, rec : Records \cup {Nobody},
                  status : {"none", "pending", "completed", "failed"}]
      /\ OpOK'
  BY <1>1, OpOver
<1>5. TypeOK'
  BY <1>1, <1>3, <1>4 DEF DeepInv, TypeOK
<1> QED BY <1>1, <1>4, <1>5, QuietStep


\* A row without a session is submitted again, answered on the spot, or left.
LEMMA ResubmitKeeps ==
    ASSUME DeepAnalysisAssumption, DeepInv, Resubmit, NEW r, r = op.rec
    PROVE  DeepInv'
<1>1. /\ op.pc = "loaded" /\ ~rec[r].key /\ op' = OpIdle
      /\ UNCHANGED <<stab, poller, seen, asked>>
  BY DEF Resubmit
<1>2. r \in Records /\ rec[r].status # "none"
  BY <1>1 DEF DeepInv, OpOK
<1>3. rec[r] \in Row /\ RecordOK(r) /\ round[r] \in Nat /\ trouble[r] \in Nat
  BY <1>2, RecordTyped DEF DeepInv
<1>4. /\ op' \in [pc : {"idle", "loaded", "clear", "schedule"}, rec : Records \cup {Nobody},
                  status : {"none", "pending", "completed", "failed"}]
      /\ OpOK'
  BY <1>1, OpOver
<1>5. SnapOK(stab'[r], seen'[r]) /\ stab'[r] = stab[r] /\ seen'[r] = seen[r] /\ poller' = poller
  BY <1>1, <1>3 DEF RecordOK, RowOK
<1>6. Fetched(seen[r], seen'[r])
  BY <1>1, <1>2, SeenUnchanged DEF DeepInv
<1>7. ASSUME TypeOK', NEW w \in Row, rec'[r] = w, w.status # "none",
             \A s \in Records \ {r} :
                /\ rec'[s] = rec[s] /\ round'[s] = round[s] /\ verdict'[s] = verdict[s]
                /\ notices'[s] = notices[s] /\ trouble'[s] = trouble[s],
             \/ w.status = "pending" /\ w.key /\ w.how = "none" /\ notices'[r] = 0
             \/ w.status = "completed" /\ w.how = "local" /\ notices'[r] = 1 /\ verdict'[r] = round'[r]
      PROVE  DeepInv'
  <2>1. Alone(r) /\ Paid(r)'
    BY <1>1, <1>2, <1>7, PaidAlone
  <2>2. RowOK(r)' /\ VerdictOK(r)' /\ ReportOK(r)'
    BY <1>5, <1>7 DEF RowOK, VerdictOK, ReportOK
  <2>3. Grows(r)
    BY <1>1, <1>7, <2>1 DEF Grows
  <2>4. \A s \in Records \ {r} : Same(s)
    BY <1>1, <1>7 DEF Same
  <2>5. RecordOK(r)'
    BY <2>1, <2>2 DEF RecordOK
  <2> QED BY <1>2, <1>4, <1>5, <1>6, <1>7, <2>3, <2>4, <2>5, RecordStep
<1>8. CASE /\ rec' = [rec EXCEPT ![r] = [Submitted(rec[r].gateway, FALSE) EXCEPT !.map = rec[r].map]]
           /\ NewRound(r, 0)
           /\ Schedule(r, DelayForAttempt[0])
           /\ UNCHANGED verdict
  <2> DEFINE w == [Submitted(rec[r].gateway, FALSE) EXCEPT !.map = rec[r].map]
  <2>0. rec[r].gateway \in Gateways /\ rec[r].map \in BOOLEAN /\ FALSE \in BOOLEAN
    BY <1>3, RowFields
  <2>a. \A g \in Gateways, m \in BOOLEAN :
            /\ [Submitted(g, FALSE) EXCEPT !.map = m] \in Row
            /\ [Submitted(g, FALSE) EXCEPT !.map = m].status = "pending"
            /\ [Submitted(g, FALSE) EXCEPT !.map = m].key
            /\ [Submitted(g, FALSE) EXCEPT !.map = m].how = "none"
    <3> TAKE g \in Gateways, m \in BOOLEAN
    <3>1. FALSE \in BOOLEAN
      OBVIOUS
    <3> QED BY <3>1, SubmittedRow, Zenon
  <2>1. w \in Row /\ w.status = "pending" /\ w.key /\ w.how = "none"
    BY <2>0, <2>a, Zenon
  <2>2. rec' = [rec EXCEPT ![r] = w]
    BY <1>8
  <2> HIDE DEF w
  <2>3. DelayForAttempt[0] \in Ticks
    BY Constants
  <2>4. tasks' \subseteq Records \X Ticks /\ budget' \in [faults : Nat, retries : Nat]
    BY <1>2, <1>8, <2>3, ScheduleTyped DEF DeepInv
  <2>5. rec' \in [Records -> Row] /\ rec'[r] = w /\ \A s \in Records \ {r} : rec'[s] = rec[s]
    BY <1>2, <2>1, <2>2 DEF DeepInv, TypeOK
  <2>6. /\ round' = [round EXCEPT ![r] = @ + 1] /\ notices' = [notices EXCEPT ![r] = 0]
        /\ trouble' = [trouble EXCEPT ![r] = 0] /\ verdict' = verdict
    BY <1>8 DEF NewRound
  <2>7. round' \in [Records -> Nat] /\ \A s \in Records \ {r} : round'[s] = round[s]
    BY <1>2, <1>3, <2>6 DEF DeepInv, TypeOK
  <2>8. notices' \in [Records -> Nat] /\ notices'[r] = 0 /\ \A s \in Records \ {r} : notices'[s] = notices[s]
    BY <1>2, <2>6 DEF DeepInv, TypeOK
  <2>9. trouble' \in [Records -> Nat] /\ \A s \in Records \ {r} : trouble'[s] = trouble[s]
    BY <1>2, <2>6 DEF DeepInv, TypeOK
  <2>10. TypeOK'
    BY <1>1, <1>4, <2>4, <2>5, <2>6, <2>7, <2>8, <2>9 DEF DeepInv, TypeOK
  <2>11. \A s \in Records \ {r} : verdict'[s] = verdict[s]
    BY <2>6
  <2>12. w.status # "none"
    BY <2>1
  <2> QED BY <1>7, <2>1, <2>5, <2>7, <2>8, <2>9, <2>10, <2>11, <2>12
<1>9. CASE /\ rec' = [rec EXCEPT ![r] = Local(rec[r])]
           /\ notices' = [notices EXCEPT ![r] = 1]
           /\ round' = [round EXCEPT ![r] = @ + 1]
           /\ verdict' = [verdict EXCEPT ![r] = round[r] + 1]
           /\ UNCHANGED <<tasks, budget, trouble>>
  <2> DEFINE w == Local(rec[r])
  <2>1. w \in Row /\ w.status = "completed" /\ w.how = "local"
    BY <1>3, LocalRow
  <2>2. rec' = [rec EXCEPT ![r] = w]
    BY <1>9
  <2> HIDE DEF w
  <2>3. rec' \in [Records -> Row] /\ rec'[r] = w /\ \A s \in Records \ {r} : rec'[s] = rec[s]
    BY <1>2, <2>1, <2>2 DEF DeepInv, TypeOK
  <2>4. notices' \in [Records -> Nat] /\ notices'[r] = 1 /\ \A s \in Records \ {r} : notices'[s] = notices[s]
    BY <1>2, <1>9 DEF DeepInv, TypeOK
  <2>5. round' \in [Records -> Nat] /\ round'[r] = round[r] + 1 /\ \A s \in Records \ {r} : round'[s] = round[s]
    BY <1>2, <1>3, <1>9 DEF DeepInv, TypeOK
  <2>6. verdict' \in [Records -> Nat] /\ verdict'[r] = round[r] + 1 /\ \A s \in Records \ {r} : verdict'[s] = verdict[s]
    BY <1>2, <1>3, <1>9 DEF DeepInv, TypeOK
  <2>7. UNCHANGED <<tasks, budget, trouble>>
    BY <1>9
  <2>8. TypeOK'
    BY <1>1, <1>4, <2>3, <2>4, <2>5, <2>6, <2>7 DEF DeepInv, TypeOK
  <2>9. w.status # "none" /\ verdict'[r] = round'[r]
    BY <2>1, <2>5, <2>6
  <2>10. \A s \in Records \ {r} : trouble'[s] = trouble[s]
    BY <2>7
  <2> QED BY <1>7, <2>1, <2>3, <2>4, <2>5, <2>6, <2>8, <2>9, <2>10
<1>10. CASE UNCHANGED <<rec, tasks, budget, round, verdict, notices, trouble>>
  <2>1. TypeOK'
    BY <1>1, <1>4, <1>10 DEF DeepInv, TypeOK
  <2> QED BY <1>1, <1>4, <1>10, <2>1, QuietStep
<1> QED BY <1>8, <1>9, <1>10 DEF Resubmit

\* A task arrives.  The claim takes what the free row had paid.
LEMMA DeliverKeeps ==
    ASSUME DeepAnalysisAssumption, DeepInv, NEW p \in Pollers, NEW r \in Records, Deliver(p, r)
    PROVE  DeepInv'
<1>1. /\ poller[p].pc = "idle" /\ <<r, 0>> \in tasks
      /\ UNCHANGED <<stab, op, round, verdict, notices, trouble, seen, asked>>
  BY DEF Deliver
<1>2. /\ rec[r] \in Row /\ RecordOK(r) /\ round[r] \in Nat /\ trouble[r] \in Nat /\ notices[r] \in Nat
      /\ rec \in [Records -> Row] /\ poller \in [Pollers -> Poller] /\ tasks \subseteq Records \X Ticks
      /\ budget \in [faults : Nat, retries : Nat]
  BY RecordTyped DEF DeepInv, TypeOK
<1>3. CASE /\ rec[r].status = "pending" /\ rec[r].due = 0
           /\ rec' = [rec EXCEPT ![r] = Claimed(@)]
           /\ poller' = [poller EXCEPT ![p] =
                 [Idle EXCEPT !.pc = "check", !.rec = r, !.age = rec[r].age, !.attempts = rec'[r].attempts,
                              !.map = rec[r].map, !.left = Lease, !.round = round[r]]]
           /\ tasks' = tasks \ {<<r, 0>>}
           /\ UNCHANGED budget
  <2> DEFINE w == Claimed(rec[r])
             n == rec'[r].attempts
             q == [Idle EXCEPT !.pc = "check", !.rec = r, !.age = rec[r].age, !.attempts = n,
                               !.map = rec[r].map, !.left = Lease, !.round = round[r]]
  <2>1. /\ w \in Row /\ w.status = "pending" /\ w.key = rec[r].key /\ w.how = rec[r].how
        /\ w.text = rec[r].text /\ w.due = Lease
    <3> DEFINE m == Least(rec[r].attempts + 1, MaxAttempts)
    <3>1. rec[r].attempts \in 0 .. MaxAttempts
      BY <1>2, RowFields
    <3>2. \A a \in 0 .. MaxAttempts : Least(a + 1, MaxAttempts) \in 0 .. MaxAttempts
      BY Constants
    <3>3. m \in 0 .. MaxAttempts /\ Lease \in Ticks
      BY <3>1, <3>2, Constants
    <3>4. w = [rec[r] EXCEPT !.attempts = m, !.due = Lease]
      BY DEF Claimed
    <3> HIDE DEF m, w
    <3>5. w \in Row /\ w.status = rec[r].status /\ w.key = rec[r].key /\ w.how = rec[r].how
          /\ w.text = rec[r].text /\ w.due = Lease
      BY <1>2, <3>3, <3>4, Zenon DEF Row
    <3> QED BY <1>3, <3>5
  <2>2. rec' = [rec EXCEPT ![r] = w]
    BY <1>3, Zenon
  <2> HIDE DEF w
  <2>3. rec' \in [Records -> Row] /\ rec'[r] = w /\ \A s \in Records \ {r} : rec'[s] = rec[s]
    BY <1>2, <2>1, <2>2
  <2>4. n \in 0 .. MaxAttempts /\ rec[r].age \in Age /\ rec[r].map \in BOOLEAN
    BY <1>2, <2>1, <2>3, RowFields
  <2>5. poller' = [poller EXCEPT ![p] = q]
    BY <1>3
  <2> HIDE DEF n
  <2>6. /\ q \in Poller /\ q.pc = "check" /\ q.rec = r /\ q.left = Lease /\ q.round = round[r]
        /\ q.slow = FALSE
    <3>1. Idle \in Poller /\ Idle.slow = FALSE
      BY IdleTyped DEF Idle
    <3>2. "check" \in PC /\ r \in Records \cup {Nobody} /\ Lease \in Ticks
      BY Constants DEF PC
    <3> QED BY <1>2, <2>4, <3>1, <3>2, Zenon DEF Poller
  <2> HIDE DEF q
  <2>7. TypeOK'
    <3>1. poller' \in [Pollers -> Poller]
      BY <1>2, <2>5, <2>6
    <3>2. tasks' \subseteq Records \X Ticks /\ budget' = budget
      BY <1>2, <1>3
    <3> QED BY <1>1, <1>2, <2>3, <3>1, <3>2 DEF DeepInv, TypeOK
  <2>8. /\ stab'[r] = stab[r] /\ seen'[r] = seen[r] /\ round'[r] = round[r] /\ verdict'[r] = verdict[r]
        /\ notices'[r] = notices[r] /\ trouble'[r] = trouble[r]
    BY <1>1
  <2>9. Acts(p) /\ poller'[p] = q
    BY <1>2, <2>5, <2>6 DEF Acts
  <2>10. Free(r)
    <3>1. ASSUME NEW o \in Pollers, Guards(poller[o], r, rec[r], round[r]) PROVE FALSE
      <4>1. poller[o].pc # "idle" /\ poller[o].rec = r /\ ~poller[o].slow /\ poller[o].left <= 0
        BY <1>3, <3>1 DEF Guards
      <4>2. poller[o] \in Poller /\ PollOK(poller[o], rec[r], round[r], trouble[r], seen[r])
        BY <4>1, Busy
      <4>3. poller[o].left \in Nat /\ poller[o].left > 0
        BY <4>1, <4>2, PollerFields, Constants DEF PollOK
      <4> QED BY <4>1, <4>3
    <3> QED BY <1>3, <3>1 DEF Free
  <2>11. ~Free(r)'
    <3>1. Lease \in Nat
      BY Constants
    <3>2. Guards(poller'[p], r, rec'[r], round'[r])
      BY <2>1, <2>3, <2>6, <2>8, <2>9, <3>1 DEF Guards
    <3> QED BY <3>2 DEF Free
  <2>12. Paid(r)'
    <3>1. Cardinality(Holders(r)') <= Cardinality(Holders(r)) + 1
      BY <2>9, HoldersMove
    <3>2. Cardinality(Holders(r)) \in Nat /\ Cardinality(Holders(r)') \in Nat
      BY HoldersCount, HoldersCountNext
    <3>3. notices'[r] + Cardinality(Holders(r)') <= notices[r] + Cardinality(Holders(r)) + 1
      BY <1>2, <2>8, <3>1, <3>2
    <3>4. notices'[r] \in Nat /\ trouble'[r] \in Nat /\ trouble'[r] >= trouble[r] /\ Paid(r)
      BY <1>2, <2>8 DEF RecordOK
    <3> QED BY <1>2, <2>10, <2>11, <3>3, <3>4, PaidStep
  <2>13. Fetched(seen[r], seen'[r])
    BY <1>1, SeenUnchanged DEF DeepInv
  <2>14. RecordOK(r)' /\ Grows(r)
    <3>1. Alike(rec[r], rec'[r])
      BY <1>3, <2>1, <2>3 DEF Alike
    <3>2. SnapOK(stab'[r], seen'[r])
      BY <1>2, <2>8 DEF RecordOK, RowOK
    <3>3. trouble'[r] >= trouble[r] /\ rec[r].status # "none"
      BY <1>2, <1>3, <2>8
    <3> QED BY <2>7, <2>8, <2>12, <2>13, <3>1, <3>2, <3>3, RecordByPoller
  <2>15. PollOK(q, rec'[r], round'[r], trouble'[r], seen'[r])
    <3>1. rec'[r].key /\ rec'[r].status = "pending"
      BY <1>2, <1>3, <2>1, <2>3 DEF RecordOK, RowOK
    <3>2. Lease > 0
      BY Constants
    <3> QED BY <1>2, <2>6, <2>8, <3>1, <3>2 DEF PollOK
  <2>16. \A s \in Records \ {r} : Same(s)
    BY <1>1, <2>3 DEF Same
  <2>17. op' = op
    BY <1>1
  <2> QED BY <1>1, <2>5, <2>6, <2>7, <2>13, <2>14, <2>15, <2>16, <2>17, OneRecordStep
<1>4. CASE /\ rec[r].status = "pending" /\ rec[r].due > 0
           /\ \/ tasks' = (tasks \ {<<r, 0>>}) \cup {<<r, rec[r].due>>} /\ UNCHANGED budget
              \/ Fault /\ tasks' = tasks \ {<<r, 0>>}
           /\ UNCHANGED <<rec, poller>>
  <2>1. rec[r].due \in Ticks
    BY <1>2, RowFields
  <2>2. tasks' \subseteq Records \X Ticks
    BY <1>2, <1>4, <2>1
  <2>3. budget' \in [faults : Nat, retries : Nat]
    BY <1>2, <1>4, FaultTyped DEF DeepInv
  <2>4. TypeOK'
    BY <1>1, <1>4, <2>2, <2>3 DEF DeepInv, TypeOK
  <2> QED BY <1>1, <1>4, <2>4, QuietStep
<1>5. CASE tasks' = tasks \ {<<r, 0>>} /\ UNCHANGED <<rec, poller, budget>>
  <2>1. tasks' \subseteq Records \X Ticks
    BY <1>2, <1>5
  <2>2. TypeOK'
    BY <1>1, <1>5, <2>1 DEF DeepInv, TypeOK
  <2> QED BY <1>1, <1>5, <2>2, QuietStep
<1> QED BY <1>3, <1>4, <1>5 DEF Deliver

-----------------------------------------------------------------------------
(* Time passes *)

TickedRow(w) == IF w.status # "pending" THEN w
                ELSE [w EXCEPT !.due = Less(@), !.age = Least(@ + 1, Timeout + 1)]

TickedPoller(q) == IF q.pc = "idle" THEN q
                   ELSE [q EXCEPT !.left = Less(@), !.age = Least(@ + 1, Timeout + 1)]

LEMMA TickedRowOK ==
    ASSUME DeepAnalysisAssumption, NEW w \in Row
    PROVE  /\ TickedRow(w) \in Row
           /\ TickedRow(w).status = w.status /\ TickedRow(w).key = w.key /\ TickedRow(w).how = w.how
           /\ TickedRow(w).text = w.text
           /\ w.status = "pending" => TickedRow(w).due = Less(w.due)
<1>1. Less(w.due) \in Ticks /\ Least(w.age + 1, Timeout + 1) \in Age
  BY RowFields, Constants
<1> DEFINE d == Less(w.due)
           a == Least(w.age + 1, Timeout + 1)
<1>2. TickedRow(w) = IF w.status # "pending" THEN w ELSE [w EXCEPT !.due = d, !.age = a]
  BY Zenon DEF TickedRow
<1>3. d \in Ticks /\ a \in Age
  BY <1>1
<1> HIDE DEF d, a
<1>4. /\ [w EXCEPT !.due = d, !.age = a] \in Row
      /\ [w EXCEPT !.due = d, !.age = a].status = w.status
      /\ [w EXCEPT !.due = d, !.age = a].key = w.key /\ [w EXCEPT !.due = d, !.age = a].how = w.how
      /\ [w EXCEPT !.due = d, !.age = a].text = w.text
      /\ [w EXCEPT !.due = d, !.age = a].due = d
  BY <1>3, Zenon DEF Row
<1>5. CASE w.status = "pending"
  BY <1>2, <1>4, <1>5 DEF d
<1>6. CASE w.status # "pending"
  BY <1>2, <1>6
<1> QED BY <1>5, <1>6

LEMMA TickedPollerOK ==
    ASSUME DeepAnalysisAssumption, NEW q \in Poller
    PROVE  /\ TickedPoller(q) \in Poller
           /\ TickedPoller(q).pc = q.pc /\ TickedPoller(q).rec = q.rec /\ TickedPoller(q).upd = q.upd
           /\ TickedPoller(q).slow = q.slow /\ TickedPoller(q).round = q.round
           /\ TickedPoller(q).snap = q.snap /\ TickedPoller(q).answer = q.answer
           /\ q.pc # "idle" => TickedPoller(q).left = Less(q.left)
<1>1. Less(q.left) \in Ticks /\ Least(q.age + 1, Timeout + 1) \in Age
  BY PollerFields, Constants
<1> DEFINE d == Less(q.left)
           a == Least(q.age + 1, Timeout + 1)
           v == [q EXCEPT !.left = d, !.age = a]
<1>2. TickedPoller(q) = IF q.pc = "idle" THEN q ELSE v
  BY Zenon DEF TickedPoller
<1>3. d \in Ticks /\ a \in Age
  BY <1>1
<1>5. d = Less(q.left)
  OBVIOUS
<1> HIDE DEF d, a
<1>4. /\ v \in Poller /\ v.pc = q.pc /\ v.rec = q.rec /\ v.upd = q.upd /\ v.slow = q.slow
      /\ v.round = q.round /\ v.snap = q.snap /\ v.answer = q.answer /\ v.left = d
  BY <1>3, Zenon DEF Poller
<1> HIDE DEF v
<1>6. CASE q.pc = "idle"
  BY <1>2, <1>6
<1>7. CASE q.pc # "idle"
  BY <1>2, <1>4, <1>5, <1>7
<1> QED BY <1>6, <1>7

\* A poll that has not overrun still has its lease, and guards its record.
LEMMA TickKeeps == ASSUME DeepAnalysisAssumption, DeepInv, Tick PROVE DeepInv'
<1>1. /\ rec' = [r \in Records |-> TickedRow(rec[r])]
      /\ poller' = [p \in Pollers |-> TickedPoller(poller[p])]
      /\ tasks' = {<<t[1], Less(t[2])>> : t \in tasks}
  BY Zenon DEF Tick, TickedRow, TickedPoller
<1>2. UNCHANGED <<stab, op, round, verdict, notices, trouble, seen, asked, budget>>
  BY DEF Tick
<1>3. \A p \in Pollers : poller[p].pc # "idle" => poller[p].left > 1 \/ poller[p].slow
  BY DEF Tick
<1>4. TypeOK
  BY DEF DeepInv
<1>5. \A r \in Records :
        /\ rec[r] \in Row /\ rec'[r] \in Row /\ rec'[r].status = rec[r].status /\ rec'[r].key = rec[r].key
        /\ rec'[r].how = rec[r].how /\ rec'[r].text = rec[r].text
        /\ rec[r].status = "pending" => rec'[r].due = Less(rec[r].due)
  BY <1>1, <1>4, TickedRowOK DEF TypeOK
<1>6. \A p \in Pollers :
        /\ poller[p] \in Poller /\ poller'[p] \in Poller
        /\ poller'[p].pc = poller[p].pc /\ poller'[p].rec = poller[p].rec
        /\ poller'[p].upd = poller[p].upd /\ poller'[p].slow = poller[p].slow
        /\ poller'[p].round = poller[p].round /\ poller'[p].snap = poller[p].snap
        /\ poller'[p].answer = poller[p].answer
        /\ poller[p].pc # "idle" => poller'[p].left = Less(poller[p].left)
  BY <1>1, <1>4, TickedPollerOK DEF TypeOK
<1>7. TypeOK'
  <2>1. tasks' \subseteq Records \X Ticks
    <3> SUFFICES ASSUME NEW t \in tasks PROVE <<t[1], Less(t[2])>> \in Records \X Ticks
      BY <1>1
    <3>1. t \in Records \X Ticks
      BY <1>4 DEF TypeOK
    <3>2. t[1] \in Records /\ t[2] \in Ticks
      BY <3>1
    <3>3. Less(t[2]) \in Ticks
      BY <3>2, Constants
    <3> QED BY <3>2, <3>3
  <2>2. rec' \in [Records -> Row]
    <3>1. \A r \in Records : TickedRow(rec[r]) \in Row
      BY <1>4, TickedRowOK DEF TypeOK
    <3> QED BY <1>1, <3>1
  <2>3. poller' \in [Pollers -> Poller]
    <3>1. \A p \in Pollers : TickedPoller(poller[p]) \in Poller
      BY <1>4, TickedPollerOK DEF TypeOK
    <3> QED BY <1>1, <3>1
  <2> QED BY <1>2, <1>4, <2>1, <2>2, <2>3 DEF TypeOK
<1>8. OpOK'
  BY <1>2, <1>5 DEF DeepInv, OpOK
<1>9. PollsOK'
  <2> SUFFICES ASSUME NEW p \in Pollers, poller'[p].pc # "idle"
               PROVE  PollOK(poller'[p], rec'[poller'[p].rec], round'[poller'[p].rec], trouble'[poller'[p].rec],
                             seen'[poller'[p].rec])
    BY DEF PollsOK
  <2>1. poller[p].pc # "idle"
    BY <1>6
  <2>2. PICK r \in Records : r = poller[p].rec
    BY <2>1, Busy
  <2>3. PollOK(poller[p], rec[r], round[r], trouble[r], seen[r])
    BY <2>1, <2>2, Busy
  <2>4. /\ round'[r] = round[r] /\ trouble'[r] = trouble[r] /\ seen'[r] = seen[r]
        /\ rec'[r].status = rec[r].status /\ rec'[r].key = rec[r].key /\ poller'[p].rec = r
    BY <1>2, <1>5, <1>6, <2>2
  <2>5. poller'[p].left > 0 \/ poller'[p].slow
    <3>1. poller[p].left \in Nat /\ poller'[p].left = Less(poller[p].left) /\ poller'[p].slow = poller[p].slow
      <4>1. Ticks \subseteq Nat
        BY Constants
      <4> QED BY <4>1, <1>6, <2>1, PollerFields
    <3>2. poller[p].left > 1 \/ poller[p].slow
      BY <1>3, <2>1
    <3> QED BY <3>1, <3>2 DEF Less
  <2>6. /\ poller'[p].pc = poller[p].pc /\ poller'[p].rec = poller[p].rec
        /\ poller'[p].upd = poller[p].upd /\ poller'[p].slow = poller[p].slow
        /\ poller'[p].round = poller[p].round /\ poller'[p].snap = poller[p].snap
        /\ poller'[p].answer = poller[p].answer
    BY <1>6
  <2>7. PollOK(poller'[p], rec'[r], round[r], trouble[r], seen[r])
    BY <2>3, <2>4, <2>5, <2>6 DEF PollOK
  <2> QED BY <2>4, <2>7
<1>10. ASSUME NEW r \in Records PROVE RecordOK(r)'
  <2>1. RecordOK(r)
    BY DEF DeepInv
  <2>2. /\ stab'[r] = stab[r] /\ round'[r] = round[r] /\ verdict'[r] = verdict[r]
        /\ notices'[r] = notices[r] /\ trouble'[r] = trouble[r] /\ seen'[r] = seen[r]
    BY <1>2
  <2>3. /\ rec'[r].status = rec[r].status /\ rec'[r].key = rec[r].key
        /\ rec'[r].how = rec[r].how /\ rec'[r].text = rec[r].text
    BY <1>5
  <2>4. RowOK(r)' /\ VerdictOK(r)' /\ ReportOK(r)'
    BY <2>1, <2>2, <2>3 DEF RecordOK, RowOK, VerdictOK, ReportOK
  <2>5. Holders(r)' = Holders(r)
    BY <1>6 DEF Holders, Holds
  <2>6. Free(r)' => Free(r)
    <3> SUFFICES ASSUME rec[r].status = "pending",
                        NEW o \in Pollers, Guards(poller[o], r, rec[r], round[r])
                 PROVE  Guards(poller'[o], r, rec'[r], round'[r])
      BY <2>3 DEF Free
    <3>1. /\ poller[o].pc # "idle" /\ poller[o].rec = r /\ ~poller[o].slow
          /\ poller[o].round = round[r] /\ poller[o].left <= rec[r].due
      BY DEF Guards
    <3>2. poller'[o].left = Less(poller[o].left) /\ rec'[r].due = Less(rec[r].due)
      BY <1>5, <1>6, <3>1
    <3>3. poller[o].left \in Nat /\ rec[r].due \in Nat
      <4>1. Ticks \subseteq Nat
        BY Constants
      <4>2. poller[o].left \in Ticks /\ rec[r].due \in Ticks
        BY <1>5, <1>6, PollerFields, RowFields
      <4> QED BY <4>1, <4>2
    <3>4. poller'[o].left <= rec'[r].due
      BY <3>1, <3>2, <3>3 DEF Less
    <3>5. /\ poller'[o].pc # "idle" /\ poller'[o].rec = r /\ ~poller'[o].slow
          /\ poller'[o].round = round'[r]
      BY <1>6, <2>2, <3>1
    <3> QED BY <3>4, <3>5 DEF Guards
  <2>7. Paid(r)'
    <3>1. /\ notices[r] \in Nat /\ notices'[r] \in Nat /\ trouble[r] \in Nat /\ trouble'[r] \in Nat
          /\ Cardinality(Holders(r)) \in Nat
      BY <1>4, <1>7, RecordTyped, RecordTypedNext, HoldersCount
    <3>2. Cardinality(Holders(r)') = Cardinality(Holders(r))
      BY <2>5
    <3>3. /\ notices'[r] + Cardinality(Holders(r)') <= notices[r] + Cardinality(Holders(r))
          /\ trouble'[r] >= trouble[r]
      BY <2>2, <3>1, <3>2
    <3>4. Paid(r)
      BY <2>1 DEF RecordOK
    <3> QED BY <2>6, <3>1, <3>3, <3>4, PaidStep
  <2> QED BY <2>4, <2>7 DEF RecordOK
<1> QED BY <1>7, <1>8, <1>9, <1>10 DEF DeepInv

-----------------------------------------------------------------------------
(* The invariant *)

LEMMA DeepInit == ASSUME DeepAnalysisAssumption, Init PROVE DeepInv
<1>1. /\ rec = [r \in Records |-> NoRow] /\ stab = [r \in Records |-> NoSnapshot] /\ tasks = {}
      /\ poller = [p \in Pollers |-> Idle] /\ op = OpIdle
      /\ round = [r \in Records |-> 0] /\ verdict = [r \in Records |-> 0]
      /\ notices = [r \in Records |-> 0] /\ trouble = [r \in Records |-> 0]
      /\ seen = [r \in Records |-> [t \in 1 .. MaxText |-> 0]]
      /\ asked = {} /\ budget \in Budgets
  BY DEF Init
<1>2. /\ NoRow \in Row /\ NoSnapshot \in Snapshot /\ Idle \in Poller /\ 0 \in 0 .. Hits
      /\ Budgets \subseteq [faults : Nat, retries : Nat]
  BY ValuesTyped, Constants DEF Values, DeepAnalysisAssumption
<1>3. TypeOK
  <2>1. /\ rec \in [Records -> Row] /\ stab \in [Records -> Snapshot] /\ tasks \subseteq Records \X Ticks
        /\ poller \in [Pollers -> Poller]
    BY <1>1, <1>2
  <2>2. op \in [pc : {"idle", "loaded", "clear", "schedule"}, rec : Records \cup {Nobody},
                status : {"none", "pending", "completed", "failed"}]
    BY <1>1 DEF OpIdle
  <2>3. /\ round \in [Records -> Nat] /\ verdict \in [Records -> Nat]
        /\ notices \in [Records -> Nat] /\ trouble \in [Records -> Nat]
    BY <1>1
  <2>4. seen \in [Records -> [1 .. MaxText -> 0 .. Hits]]
    BY <1>1, <1>2
  <2>5. asked \subseteq Records \X Gateways /\ budget \in [faults : Nat, retries : Nat]
    BY <1>1, <1>2
  <2> QED BY <2>1, <2>2, <2>3, <2>4, <2>5 DEF TypeOK
<1>4. \A p \in Pollers : poller[p].pc = "idle"
  BY <1>1 DEF Idle
<1>5. OpOK /\ PollsOK
  BY <1>1, <1>4 DEF OpOK, OpIdle, PollsOK
<1>6. ASSUME NEW r \in Records PROVE RecordOK(r)
  <2>1. /\ rec[r].status = "none" /\ ~rec[r].key /\ rec[r].how = "none"
        /\ notices[r] = 0 /\ verdict[r] = 0 /\ round[r] = 0 /\ trouble[r] = 0
        /\ stab[r] = NoSnapshot
    BY <1>1 DEF NoRow
  <2>2. SnapOK(stab[r], seen[r])
    BY <2>1 DEF SnapOK, NoSnapshot
  <2>3. RowOK(r) /\ VerdictOK(r) /\ ReportOK(r)
    BY <2>1, <2>2 DEF RowOK, VerdictOK, ReportOK
  <2>4. Paid(r)
    <3>1. Holders(r) = {}
      BY <1>4 DEF Holders, Holds
    <3>2. Cardinality(Holders(r)) = 0
      BY <3>1, FS_EmptySet
    <3>3. ~Free(r)
      BY <2>1 DEF Free
    <3> QED BY <2>1, <3>2, <3>3 DEF Paid
  <2> QED BY <2>3, <2>4 DEF RecordOK
<1> QED BY <1>3, <1>5, <1>6 DEF DeepInv

LEMMA DeepNext == ASSUME DeepAnalysisAssumption, DeepInv, [Next]_vars PROVE DeepInv'
<1>1. ASSUME NEW r \in Records, Submit(r) PROVE DeepInv'
  BY <1>1, SubmitKeeps
<1>2. ASSUME NEW r \in Records, RetryLoad(r) PROVE DeepInv'
  BY <1>2, RetryLoadKeeps
<1>3. ASSUME NEW p \in Pollers, Poll(p) \/ Crash(p) \/ Overrun(p) PROVE DeepInv'
  BY <1>3, PollKeeps
<1>4. ASSUME NEW p \in Pollers, NEW r \in Records, Deliver(p, r) PROVE DeepInv'
  BY <1>4, DeliverKeeps
<1>5. CASE RetryReset
  BY <1>5, RetryResetKeeps
<1>6. CASE RetryClear
  BY <1>6, RetryClearKeeps
<1>7. CASE RetrySchedule
  BY <1>7, RetryScheduleKeeps
<1>8. CASE Resubmit
  BY <1>8, ResubmitKeeps
<1>9. CASE Scan
  BY <1>9, ScanKeeps
<1>10. CASE Tick
  BY <1>10, TickKeeps
<1>11. CASE UNCHANGED vars
  <2>1. TypeOK'
    BY <1>11 DEF vars, DeepInv, TypeOK
  <2>2. UNCHANGED <<rec, stab, poller, round, verdict, notices, trouble, seen>> /\ op' = op
    BY <1>11 DEF vars
  <2> QED BY <2>1, <2>2, QuietStep
<1> QED BY <1>1, <1>2, <1>3, <1>4, <1>5, <1>6, <1>7, <1>8, <1>9, <1>10, <1>11 DEF Next, Retry

LEMMA BudgetKept == ASSUME DeepAnalysisAssumption, DeepInv PROVE NoticeBudget
<1> SUFFICES ASSUME NEW r \in Records PROVE notices[r] <= 1 + trouble[r]
  BY DEF NoticeBudget
<1>1. notices[r] \in Nat /\ trouble[r] \in Nat /\ Cardinality(Holders(r)) \in Nat
  BY RecordTyped, HoldersCount DEF DeepInv
<1>2. notices[r] + Cardinality(Holders(r)) + (IF Free(r) THEN 1 ELSE 0) <= 1 + trouble[r]
  BY DEF DeepInv, RecordOK, Paid
<1> QED BY <1>1, <1>2

\* Every variable keeps its type: the claims, the snapshots in Redis and the tasks.
THEOREM DeepTypeCorrect ==
    ASSUME DeepAnalysisAssumption
    PROVE  Spec => []TypeOK
<1>1. DeepInv => TypeOK
  BY DEF DeepInv
<1> QED BY <1>1, DeepInit, DeepNext, PTL DEF Spec

\* A round of polling is announced once, but for the polls that died, overran their
\* lease or straddled a manual retry (_claim_deep_analysis_poll, poll_deep_analysis_once).
THEOREM NoticesArePaidFor ==
    ASSUME DeepAnalysisAssumption
    PROVE  Spec => []NoticeBudget
BY BudgetKept, DeepInit, DeepNext, PTL DEF Spec

\* Unless a poll was disturbed, the row was settled by a poll claimed in the round it
\* is in, and its report was not erased by a retry (retry_deep_analysis_record).
THEOREM VerdictOfItsRound ==
    ASSUME DeepAnalysisAssumption
    PROVE  Spec => []VerdictOfRound
BY InvImplies, DeepInit, DeepNext, PTL DEF Spec

\* A report that was not called final was fetched unchanged as often as the stability
\* check asks, however the reads and writes of the snapshot cross (_handle_poll_result).
THEOREM ReportsAreSettled ==
    ASSUME DeepAnalysisAssumption
    PROVE  Spec => []ReportSettled
BY InvImplies, DeepInit, DeepNext, PTL DEF Spec

\* All that DeepVerdict says of the notices, the rounds and the reports, at once.
THEOREM VerdictsHold ==
    ASSUME DeepAnalysisAssumption
    PROVE  Spec => []DeepVerdict
BY DeepTypeCorrect, NoticesArePaidFor, VerdictOfItsRound, ReportsAreSettled, PTL DEF DeepVerdict
=============================================================================
