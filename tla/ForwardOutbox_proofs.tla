------------------------ MODULE ForwardOutbox_proofs ------------------------
(***************************************************************************)
(* Proofs about ForwardOutbox, for every set of rows and workers and every *)
(* policy.                                                                 *)
(***************************************************************************)
EXTENDS ForwardOutbox, TLAPS

\* A busy worker has a row, and that row is not one of its siblings.
JobOK ==
    \A w \in Workers : worker[w].pc # "idle" =>
        worker[w].job \in Ids /\ worker[w].job \notin worker[w].siblings

\* The inductive form of TypeOK.
TypeInv == TypeOK /\ JobOK

-----------------------------------------------------------------------------
(* The operators on rows *)

\* A new row is a row, pending, with no attempts: the columns of
\* create_outbox_records.
LEMMA NewRowType ==
    ASSUME NEW i \in Ids
    PROVE  /\ NewRow(i) \in Row
           /\ NewRow(i).status = "pending"
           /\ NewRow(i).attempts = 0
  BY PolicyAssumption DEF NewRow, Row, Status, Active, AttemptsCap

\* Every conditional UPDATE of the outbox yields a row with the status it is
\* named for.
LEMMA RowOps ==
    ASSUME NEW r \in Row, NEW n \in Nat
    PROVE  /\ Claimed(r) \in Row /\ Claimed(r).status = "processing" /\ Claimed(r).idle = 0
           /\ Expired(r) \in Row /\ Expired(r).status = "expired"
           /\ Sent(r) \in Row /\ Sent(r).status = "sent"
           /\ Exhausted(r) \in Row /\ Exhausted(r).status = "exhausted"
           /\ RecoveredStale(r) \in Row /\ RecoveredStale(r).status = "retrying"
           /\ Requeued(r) \in Row /\ Requeued(r).status = "retrying"
           /\ Parked(r, n) \in Row /\ Parked(r, n).status = "pending"
<1>a. /\ r.attempts \in 0 .. AttemptsCap
      /\ (IF r.attempts < AttemptsCap THEN r.attempts + 1 ELSE r.attempts) \in 0 .. AttemptsCap
      /\ 0 \in 0 .. AttemptsCap
  BY PolicyAssumption DEF Row, AttemptsCap
<1>b. 0 \in 0 .. StaleAfter + 1 /\ 0 \in Nat
  BY PolicyAssumption
<1>c. /\ "processing" \in Status /\ "expired" \in Status /\ "sent" \in Status
      /\ "exhausted" \in Status /\ "retrying" \in Status /\ "pending" \in Status
  BY DEF Status, Active, Terminal
<1>1. Claimed(r) \in Row /\ Claimed(r).status = "processing" /\ Claimed(r).idle = 0
  BY <1>a, <1>b, <1>c, Zenon DEF Claimed, Row
<1>2. Expired(r) \in Row /\ Expired(r).status = "expired"
  BY <1>b, <1>c, Zenon DEF Expired, Row
<1>3. Sent(r) \in Row /\ Sent(r).status = "sent"
  BY <1>b, <1>c, Zenon DEF Sent, Row
<1>4. Exhausted(r) \in Row /\ Exhausted(r).status = "exhausted"
  BY <1>b, <1>c, Zenon DEF Exhausted, Row
<1>5. RecoveredStale(r) \in Row /\ RecoveredStale(r).status = "retrying"
  BY <1>b, <1>c, Zenon DEF RecoveredStale, Row
<1>6. Requeued(r) \in Row /\ Requeued(r).status = "retrying"
  BY <1>a, <1>b, <1>c, Zenon DEF Requeued, Row
<1>7. Parked(r, n) \in Row /\ Parked(r, n).status = "pending"
  BY <1>b, <1>c, Zenon DEF Parked, Row
<1> QED
  BY <1>1, <1>2, <1>3, <1>4, <1>5, <1>6, <1>7

\* Idle is a worker's state.
LEMMA IdleType ==
    /\ Idle \in Worker
    /\ Idle.pc = "idle" /\ Idle.siblings = {} /\ Idle.hold = 0
  BY PolicyAssumption DEF Idle, Worker, PC, Results, Status, Active, Terminal, AttemptsCap

\* Every assignment to a worker's fields yields a worker's state, and leaves the
\* other fields alone.
LEMMA WorkerOps ==
    ASSUME NEW u \in Worker, NEW p \in PC, NEW S \in SUBSET Ids, NEW x \in Results,
           NEW s \in Status, NEW a \in 0 .. AttemptsCap, NEW i \in Ids
    PROVE  /\ [u EXCEPT !.pc = p] \in Worker
           /\ [u EXCEPT !.siblings = S] \in Worker
           /\ [u EXCEPT !.pc = p, !.siblings = S] \in Worker
           /\ [u EXCEPT !.result = x, !.pc = p] \in Worker
           /\ [u EXCEPT !.pc = p, !.seen = s, !.seenAttempts = a] \in Worker
           /\ [u EXCEPT !.job = i, !.pc = p] \in Worker
  BY Zenon DEF Worker

\* A step that puts one worker in a legal state keeps the workers' invariant.
LEMMA WorkerSet ==
    ASSUME TypeInv, NEW w \in Workers, NEW u \in Worker,
           u.pc # "idle" => u.job \in Ids /\ u.job \notin u.siblings,
           worker' = [worker EXCEPT ![w] = u]
    PROVE  worker' \in [Workers -> Worker] /\ JobOK'
  BY DEF TypeInv, TypeOK, JobOK

\* A worker that is done is idle again.
LEMMA FinishType ==
    ASSUME TypeInv, NEW w \in Workers, Finish(w)
    PROVE  worker' \in [Workers -> Worker] /\ JobOK'
  BY IdleType, WorkerSet DEF Finish

\* A worker that only moves on keeps its row and its siblings.
LEMMA GotoType ==
    ASSUME TypeInv, NEW w \in Workers, NEW p \in PC, Goto(w, p), worker[w].pc # "idle"
    PROVE  worker' \in [Workers -> Worker] /\ JobOK'
<1> DEFINE u == [worker[w] EXCEPT !.pc = p]
<1>1. worker[w] \in Worker /\ worker[w].job \in Ids /\ worker[w].job \notin worker[w].siblings
  BY DEF TypeInv, TypeOK, JobOK
<1>2. u \in Worker /\ u.job = worker[w].job /\ u.siblings = worker[w].siblings
  BY <1>1, Zenon DEF Worker
<1>3. worker' = [worker EXCEPT ![w] = u]
  BY DEF Goto
<1> QED
  BY <1>1, <1>2, <1>3, WorkerSet

\* The end of a failed delivery: on to the siblings, or done.
LEMMA AfterFailureType ==
    ASSUME TypeInv, NEW w \in Workers, AfterFailure(w), worker[w].pc # "idle"
    PROVE  worker' \in [Workers -> Worker] /\ JobOK'
  BY FinishType, GotoType, "park" \in PC DEF AfterFailure, PC

\* Created(S) opens the missing rows of S and keeps the others.
LEMMA CreatedType ==
    ASSUME row \in [Ids -> Row], NEW S \in SUBSET Ids
    PROVE  Created(S) \in [Ids -> Row]
  BY NewRowType DEF Created

\* A kick only names rows.
LEMMA KickType ==
    ASSUME queue \in SUBSET Ids, NEW S \in SUBSET Ids, Kick(S)
    PROVE  queue' \in SUBSET Ids
  BY DEF Kick

\* forward_status stays well typed when a finalizer marks its events.
LEMMA MarkedType ==
    ASSUME forwardStatus \in [Events -> {"none", "sent", "failed"}], NEW S,
           NEW s \in {"sent", "failed"}
    PROVE  Marked(S, s) \in [Events -> {"none", "sent", "failed"}]
  BY DEF Marked

-----------------------------------------------------------------------------
(* Type correctness *)

\* The initial state is well typed.
LEMMA TypeInit == Init => TypeInv
<1> SUFFICES ASSUME Init PROVE TypeInv
  OBVIOUS
<1>1. NoRow \in Row
  BY PolicyAssumption DEF NoRow, Row, Status, AttemptsCap
<1> QED
  BY <1>1, IdleType, PolicyAssumption DEF Init, TypeInv, TypeOK, JobOK

\* Every step keeps the type invariant.
LEMMA TypeNext == TypeInv /\ [Next]_vars => TypeInv'
<1> SUFFICES ASSUME TypeInv, [Next]_vars PROVE TypeInv'
  OBVIOUS
<1> USE DEF TypeInv
<1>t. TypeOK /\ JobOK
  OBVIOUS
<1>r. row \in [Ids -> Row] /\ worker \in [Workers -> Worker] /\ queue \in SUBSET Ids
  BY DEF TypeOK
<1>1. ASSUME NEW i \in Ids, Create(i) PROVE TypeInv'
  <2>1. row' \in [Ids -> Row] /\ queue' \in SUBSET Ids
    BY <1>1, <1>r, CreatedType, KickType DEF Create
  <2> QED
    BY <1>1, <2>1 DEF Create, TypeOK, JobOK
<1>2. ASSUME NEW w \in Workers, NEW i \in Ids, worker[w].pc = "idle", ClaimOutbox(w, i),
             queue' \in SUBSET Ids
      PROVE  TypeInv'
  <2>1. row[i] \in Row /\ Expired(row[i]) \in Row /\ Claimed(row[i]) \in Row
    BY <1>r, RowOps, 0 \in Nat
  <2>2. row' \in [Ids -> Row]
    BY <1>2, <1>r, <2>1 DEF ClaimOutbox
  <2>3. worker' \in [Workers -> Worker] /\ JobOK'
    <3>1. CASE worker' = worker
      BY <3>1, <1>r, <1>t DEF JobOK
    <3>2. CASE worker' # worker
      <4> DEFINE p == IF i \in DigestIds THEN "siblings" ELSE "deliver"
                 u == [Idle EXCEPT !.job = i, !.pc = p]
      <4>1. p \in PC
        BY DEF PC
      <4>2. u \in Worker
        BY <4>1, IdleType, Zenon DEF Worker
      <4>3. u.job = i /\ u.siblings = {}
        BY IdleType, Zenon DEF Worker
      <4>4. worker' = [worker EXCEPT ![w] = u]
        BY <1>2, <3>2 DEF ClaimOutbox
      <4> QED
        BY <4>2, <4>3, <4>4, WorkerSet
    <3> QED
      BY <3>1, <3>2
  <2> QED
    BY <1>2, <2>2, <2>3 DEF ClaimOutbox, TypeOK
<1>3. ASSUME NEW w \in Workers, NEW i \in Ids, TakeKick(w, i) PROVE TypeInv'
  BY <1>2, <1>3, <1>r DEF TakeKick
<1>4. ASSUME NEW w \in Workers, NEW i \in Ids, DeliverNow(w, i) PROVE TypeInv'
  BY <1>2, <1>4, <1>r DEF DeliverNow
<1>5. ASSUME NEW w \in Workers, ClaimSiblings(w) PROVE TypeInv'
  <2>1. PICK S \in SUBSET (DigestIds \ {worker[w].job}) :
          /\ row' = [j \in Ids |-> IF j \in S THEN Claimed(row[j]) ELSE row[j]]
          /\ worker' = [worker EXCEPT ![w].pc = "deliver", ![w].siblings = S]
    BY <1>5, Zenon DEF ClaimSiblings
  <2>2. \A j \in Ids : row[j] \in Row /\ Claimed(row[j]) \in Row
    BY <1>r, RowOps, 0 \in Nat
  <2>3. row' \in [Ids -> Row]
    BY <2>1, <2>2
  <2> DEFINE u == [worker[w] EXCEPT !.pc = "deliver", !.siblings = S]
  <2>4. worker[w] \in Worker /\ worker[w].job \in Ids /\ S \in SUBSET Ids /\ "deliver" \in PC
    BY <1>5, <1>r, <1>t, <2>1, IdsAssumption DEF ClaimSiblings, JobOK, PC
  <2>5. u \in Worker /\ u.job = worker[w].job /\ u.siblings = S
    BY <2>4, Zenon DEF Worker
  <2>6. worker' = [worker EXCEPT ![w] = u]
    BY <2>1
  <2>7. worker' \in [Workers -> Worker] /\ JobOK'
    BY <2>1, <2>4, <2>5, <2>6, WorkerSet
  <2> QED
    BY <1>5, <2>3, <2>7 DEF ClaimSiblings, TypeOK
<1>6. ASSUME NEW w \in Workers, Deliver(w) PROVE TypeInv'
  <2>1. PICK x \in Results :
          /\ accepted' = IF x \in {"success", "pending"}
                           THEN accepted \cup ({worker[w].job} \cup worker[w].siblings)
                           ELSE accepted
          /\ worker' = [worker EXCEPT ![w].result = x,
                          ![w].pc = IF IsForwardSuccess(x) THEN "sentLeader" ELSE "failRead"]
    BY <1>6 DEF Deliver
  <2> DEFINE p == IF IsForwardSuccess(x) THEN "sentLeader" ELSE "failRead"
             u == [worker[w] EXCEPT !.result = x, !.pc = p]
  <2>2. /\ worker[w] \in Worker /\ worker[w].job \in Ids
        /\ worker[w].job \notin worker[w].siblings /\ p \in PC
    BY <1>6, <1>r, <1>t DEF Deliver, JobOK, PC
  <2>3. u \in Worker /\ u.job = worker[w].job /\ u.siblings = worker[w].siblings
    BY <2>2, Zenon DEF Worker
  <2>4. worker' = [worker EXCEPT ![w] = u]
    BY <2>1
  <2>5. worker' \in [Workers -> Worker] /\ JobOK'
    BY <2>2, <2>3, <2>4, WorkerSet
  <2>6. accepted' \in SUBSET Ids
    BY <2>1, <2>2 DEF TypeOK, Worker
  <2> QED
    BY <1>6, <2>5, <2>6 DEF Deliver, TypeOK
<1>7. ASSUME NEW w \in Workers, NEW i \in Ids, MarkSent(w, i)
      PROVE  /\ row' \in [Ids -> Row]
             /\ followUps' \in [Ids -> Nat]
             /\ forwardStatus' \in [Events -> {"none", "sent", "failed"}]
  <2>1. row[i] \in Row /\ Sent(row[i]) \in Row
    BY <1>r, RowOps, 0 \in Nat
  <2> QED
    BY <1>7, <1>r, <2>1, MarkedType DEF MarkSent, TypeOK
<1>8. ASSUME NEW w \in Workers, FinalizeLeader(w) PROVE TypeInv'
  <2>1. worker[w].job \in Ids
    BY <1>8, <1>t DEF FinalizeLeader, JobOK
  <2>2. worker' \in [Workers -> Worker] /\ JobOK'
    BY <1>8, FinishType, GotoType, "sentSiblings" \in PC DEF FinalizeLeader, PC
  <2> QED
    BY <1>8, <1>7, <2>1, <2>2 DEF FinalizeLeader, TypeOK
<1>9. ASSUME NEW w \in Workers, FinalizeSibling(w) PROVE TypeInv'
  <2>1. PICK s \in worker[w].siblings :
          /\ MarkSent(w, s)
          /\ IF worker[w].siblings = {s} THEN Finish(w)
             ELSE worker' = [worker EXCEPT ![w].siblings = @ \ {s}]
    BY <1>9 DEF FinalizeSibling
  <2>2. /\ worker[w] \in Worker /\ s \in Ids /\ worker[w].job \in Ids
        /\ worker[w].job \notin worker[w].siblings
    BY <1>9, <1>r, <1>t DEF FinalizeSibling, JobOK, Worker
  <2>3. worker' \in [Workers -> Worker] /\ JobOK'
    <3> DEFINE u == [worker[w] EXCEPT !.siblings = worker[w].siblings \ {s}]
    <3>1. worker[w].siblings \ {s} \in SUBSET Ids
      BY <2>2 DEF Worker
    <3>2. u \in Worker /\ u.job = worker[w].job /\ u.siblings = worker[w].siblings \ {s}
      BY <2>2, <3>1, Zenon DEF Worker
    <3>3. CASE worker' = [worker EXCEPT ![w] = u]
      BY <2>2, <3>2, <3>3, WorkerSet
    <3> QED
      BY <2>1, <3>3, FinishType
  <2> QED
    BY <1>9, <1>7, <2>1, <2>2, <2>3 DEF FinalizeSibling, TypeOK
<1>10. ASSUME NEW w \in Workers, FailureRead(w) PROVE TypeInv'
  <2> DEFINE r == row[worker[w].job]
             u == [worker[w] EXCEPT !.pc = "failWrite", !.seen = r.status,
                                    !.seenAttempts = r.attempts]
  <2>1. /\ worker[w] \in Worker /\ worker[w].job \in Ids
        /\ worker[w].job \notin worker[w].siblings /\ "failWrite" \in PC
    BY <1>10, <1>r, <1>t DEF FailureRead, JobOK, PC
  <2>2. r.status \in Status /\ r.attempts \in 0 .. AttemptsCap
    BY <1>r, <2>1 DEF Row
  <2>3. u \in Worker /\ u.job = worker[w].job /\ u.siblings = worker[w].siblings
    BY <2>1, <2>2, Zenon DEF Worker
  <2>4. CASE worker' = [worker EXCEPT ![w] = u]
    <3>1. worker' \in [Workers -> Worker] /\ JobOK'
      BY <2>1, <2>3, <2>4, WorkerSet
    <3> QED
      BY <1>10, <3>1 DEF FailureRead, TypeOK
  <2>5. CASE AfterFailure(w)
    <3>1. worker' \in [Workers -> Worker] /\ JobOK'
      BY <1>10, <2>5, AfterFailureType DEF FailureRead
    <3> QED
      BY <1>10, <3>1 DEF FailureRead, TypeOK
  <2> QED
    BY <1>10, <2>4, <2>5 DEF FailureRead
<1>11. ASSUME NEW w \in Workers, FailureWrite(w) PROVE TypeInv'
  <2> DEFINE i == worker[w].job
             r == row[i]
             delay == RetryDelay[worker[w].seenAttempts]
             st == IF worker[w].seen = "retrying" THEN r.status ELSE "retrying"
             u == [r EXCEPT !.wait = delay, !.idle = 0, !.status = st]
  <2>1. i \in Ids /\ worker[w] \in Worker /\ r \in Row /\ Exhausted(r) \in Row
    BY <1>11, <1>r, <1>t, RowOps, 0 \in Nat DEF FailureWrite, JobOK
  <2>2. CASE GivesUp(w)
    <3>1. worker' \in [Workers -> Worker] /\ JobOK'
      BY <1>11, <2>2, GotoType, "notify" \in PC DEF FailureWrite, PC
    <3>2. row' \in [Ids -> Row]
      BY <1>11, <1>r, <2>1, <2>2 DEF FailureWrite
    <3>3. /\ forwardStatus' \in [Events -> {"none", "sent", "failed"}]
          /\ ruleEnabled' \in [Rules -> BOOLEAN]
      <4>1. forwardStatus' = Marked({i}, "failed")
        BY <1>11, <2>2 DEF FailureWrite
      <4>2. ruleEnabled' = [ruleEnabled EXCEPT ![RuleOf[i]] = @ /\ worker[w].result # "quarantine"]
        BY <1>11, <2>2 DEF FailureWrite
      <4>3. ruleEnabled' \in [Rules -> BOOLEAN]
        BY <4>2, <1>t, Zenon DEF TypeOK
      <4> QED
        BY <4>1, <4>3, <1>t, MarkedType DEF TypeOK
    <3> QED
      BY <1>11, <2>2, <3>1, <3>2, <3>3 DEF FailureWrite, TypeOK
  <2>3. CASE ~ GivesUp(w)
    <3>0. worker[w].seenAttempts \in 0 .. MaxAttempts + 1 /\ r.status \in Status
      BY <2>1 DEF Worker, Row, AttemptsCap
    <3>1. delay \in Nat /\ 0 \in 0 .. StaleAfter + 1 /\ st \in Status
      BY <3>0, PolicyAssumption DEF Status, Active
    <3>2. u \in Row
      BY <2>1, <3>1, Zenon DEF Row
    <3>3. row' = [row EXCEPT ![i] = u]
      BY <1>11, <2>3 DEF FailureWrite
    <3>4. row' \in [Ids -> Row]
      BY <1>r, <3>2, <3>3
    <3>5. worker' \in [Workers -> Worker] /\ JobOK' /\ queue' \in SUBSET Ids
      BY <1>11, <1>r, <2>1, <2>3, AfterFailureType, KickType DEF FailureWrite
    <3> QED
      BY <1>11, <2>3, <3>4, <3>5 DEF FailureWrite, TypeOK
  <2> QED
    BY <2>2, <2>3
<1>12. ASSUME NEW w \in Workers, NotifyExhausted(w) PROVE TypeInv'
  <2>1. NoticeFor[worker[w].job] \in SUBSET Ids
    BY <1>12, <1>t, IdsAssumption DEF NotifyExhausted, JobOK
  <2>2. row' \in [Ids -> Row] /\ queue' \in SUBSET Ids
    BY <1>12, <1>r, <2>1, CreatedType, KickType DEF NotifyExhausted
  <2>3. worker' \in [Workers -> Worker] /\ JobOK'
    BY <1>12, AfterFailureType DEF NotifyExhausted
  <2> QED
    BY <1>12, <2>2, <2>3 DEF NotifyExhausted, TypeOK
<1>13. ASSUME NEW w \in Workers, ParkSiblings(w) PROVE TypeInv'
  <2>1. worker[w].job \in Ids
    BY <1>13, <1>t DEF ParkSiblings, JobOK
  <2>2. row[worker[w].job].wait \in Nat
    BY <1>r, <2>1 DEF Row
  <2>3. \A j \in Ids : /\ Parked(row[j], row[worker[w].job].wait) \in Row
                       /\ Exhausted(row[j]) \in Row /\ row[j] \in Row
    BY <1>r, <2>2, RowOps
  <2>4. row' \in [Ids -> Row] /\ forwardStatus' \in [Events -> {"none", "sent", "failed"}]
    BY <1>13, <2>3, MarkedType DEF ParkSiblings, TypeOK
  <2>5. worker' \in [Workers -> Worker] /\ JobOK'
    BY <1>13, FinishType DEF ParkSiblings
  <2> QED
    BY <1>13, <2>4, <2>5 DEF ParkSiblings, TypeOK
<1>14. CASE RunForwardOutboxScan
  <2>1. \A j \in Ids : row[j] \in Row /\ Expired(row[j]) \in Row /\ RecoveredStale(row[j]) \in Row
    BY <1>r, RowOps, 0 \in Nat
  <2>2. row' \in [Ids -> Row] /\ queue' \in SUBSET Ids
    BY <1>14, <1>r, <2>1, Zenon DEF RunForwardOutboxScan, ScanStep, Kick
  <2> QED
    BY <1>14, <2>2 DEF RunForwardOutboxScan, ScanStep, TypeOK, JobOK
<1>15. ASSUME NEW i \in Ids, RequeueForwardOutbox(i) PROVE TypeInv'
  <2>1. row[i] \in Row /\ Requeued(row[i]) \in Row
    BY <1>r, RowOps, 0 \in Nat
  <2>2. row' \in [Ids -> Row] /\ queue' \in SUBSET Ids
    BY <1>15, <1>r, <2>1, KickType DEF RequeueForwardOutbox
  <2>3. requeues' \in 0 .. MaxRequeues
    BY <1>15, PolicyAssumption DEF RequeueForwardOutbox, TypeOK
  <2> QED
    BY <1>15, <2>2, <2>3 DEF RequeueForwardOutbox, TypeOK, JobOK
<1>16. ASSUME NEW w \in Workers, Redeliver(w) PROVE TypeInv'
  BY <1>16, <1>t DEF Redeliver, TypeOK, JobOK
<1>17. ASSUME NEW w \in Workers, Crash(w) PROVE TypeInv'
  <2>1. worker' \in [Workers -> Worker] /\ JobOK'
    BY <1>17, FinishType DEF Crash
  <2>2. queue' \in SUBSET Ids /\ crashes' \in 0 .. MaxCrashes
    BY <1>17, <1>t, PolicyAssumption DEF Crash, TypeOK, JobOK
  <2> QED
    BY <1>17, <2>1, <2>2 DEF Crash, TypeOK
<1>18. CASE Tick
  <2> DEFINE T(r) == [r EXCEPT !.wait = IF @ > 0 THEN @ - 1 ELSE @,
                               !.idle = IF r.status = "processing" /\ @ <= StaleAfter
                                          THEN @ + 1 ELSE @,
                               !.age = IF r.status # "none" /\ @ <= MaxAge
                                         THEN @ + 1 ELSE @]
  <2>1. ASSUME NEW r \in Row PROVE T(r) \in Row
    <3>1. /\ (IF r.wait > 0 THEN r.wait - 1 ELSE r.wait) \in Nat
          /\ (IF r.status = "processing" /\ r.idle <= StaleAfter
                THEN r.idle + 1 ELSE r.idle) \in 0 .. StaleAfter + 1
          /\ (IF r.status # "none" /\ r.age <= MaxAge THEN r.age + 1 ELSE r.age) \in Int
      BY PolicyAssumption DEF Row
    <3> QED
      BY <3>1, Zenon DEF Row
  <2>2. row' = [i \in Ids |-> T(row[i])]
    BY <1>18 DEF Tick
  <2>3. row' \in [Ids -> Row]
    BY <1>r, <2>1, <2>2
  <2> DEFINE H(u) == [u EXCEPT !.hold = @ + 1]
  <2>4. ASSUME NEW w \in Workers, worker[w].pc # "idle"
        PROVE  H(worker[w]) \in Worker /\ H(worker[w]).job = worker[w].job
               /\ H(worker[w]).siblings = worker[w].siblings
    <3>1. worker[w] \in Worker /\ worker[w].hold + 1 \in 0 .. MaxHold
      <4>1. worker[w] \in Worker
        BY <1>r
      <4>2. worker[w].hold \in 0 .. MaxHold /\ worker[w].hold < MaxHold
        BY <1>18, <2>4, <4>1 DEF Tick, Worker
      <4> QED
        BY <4>1, <4>2, PolicyAssumption
    <3> QED
      BY <3>1, Zenon DEF Worker
  <2>5. worker' = [w \in Workers |-> IF worker[w].pc = "idle" THEN worker[w] ELSE H(worker[w])]
    BY <1>18 DEF Tick
  <2>6. worker' \in [Workers -> Worker] /\ JobOK'
    BY <1>r, <1>t, <2>4, <2>5 DEF JobOK
  <2> QED
    BY <1>18, <2>3, <2>6 DEF Tick, TypeOK
<1>19. CASE UNCHANGED vars
  BY <1>19, <1>t DEF vars, TypeOK, JobOK
<1> QED
  BY <1>1, <1>3, <1>4, <1>5, <1>6, <1>8, <1>9, <1>10, <1>11, <1>12, <1>13, <1>14, <1>15,
     <1>16, <1>17, <1>18, <1>19 DEF Next, WorkerStep

\* In every behaviour of the outbox every variable keeps its type; in particular
\* attempts, kicks and the rows workers hold are those of the table.
THEOREM TypeCorrect == Spec => []TypeOK
<1>1. Spec => []TypeInv
  BY TypeInit, TypeNext, PTL DEF Spec
<1> QED
  BY <1>1, PTL DEF TypeInv

-----------------------------------------------------------------------------
(* The lease.  With deliveries that end before the stale threshold and no     *)
(* maximum age, "processing" is a lease: the scan takes a row back only from  *)
(* a worker that is dead.                                                     *)

\* The inductive form of ExclusiveHolder: a row in a live worker's hands was
\* claimed no longer ago than that worker has been busy.
LeaseInv ==
    /\ \A v, w \in Workers : v # w => Holds(v) \cap Holds(w) = {}
    /\ \A w \in Workers : \A i \in Holds(w) :
         row[i].status = "processing" /\ row[i].idle <= worker[w].hold

\* An idle worker holds nothing.
LEMMA IdleHoldsNothing == ASSUME NEW u, u.pc = "idle" PROVE Held(u) = {}
  BY DEF Held

\* A step in which worker w claims the rows S, which nobody held, and the rows
\* still held stay as they are, keeps the lease.
LEMMA LeaseStep ==
    ASSUME TypeInv, LeaseInv, NEW w \in Workers, NEW S \in SUBSET Ids, TypeInv',
           \A i \in S : /\ row[i].status # "processing"
                        /\ row'[i].status = "processing" /\ row'[i].idle = 0,
           \A v \in Workers : Held(worker'[v]) \subseteq
                                Held(worker[v]) \cup (IF v = w THEN S ELSE {}),
           \A v \in Workers : \A i \in Held(worker'[v]) \ S :
              row'[i] = row[i] /\ worker'[v].hold = worker[v].hold
    PROVE  LeaseInv'
<1>1. \A v \in Workers : Held(worker[v]) \cap S = {}
  BY DEF LeaseInv, Holds
<1>2. ASSUME NEW v \in Workers, NEW x \in Workers, v # x
      PROVE  Held(worker'[v]) \cap Held(worker'[x]) = {}
  <2>1. Held(worker[v]) \cap Held(worker[x]) = {}
    BY <1>2 DEF LeaseInv, Holds
  <2> QED
    BY <1>1, <1>2, <2>1
<1>3. ASSUME NEW v \in Workers, NEW i \in Held(worker'[v])
      PROVE  row'[i].status = "processing" /\ row'[i].idle <= worker'[v].hold
  <2>1. CASE i \in S
    <3>1. worker'[v].hold \in 0 .. MaxHold
      BY DEF TypeInv, TypeOK, Worker
    <3> QED
      BY <2>1, <3>1, PolicyAssumption
  <2>2. CASE i \notin S
    <3>1. i \in Held(worker[v])
      BY <2>2
    <3>2. row[i].status = "processing" /\ row[i].idle <= worker[v].hold
      BY <3>1 DEF LeaseInv, Holds
    <3> QED
      BY <2>2, <3>2
  <2> QED
    BY <2>1, <2>2
<1> QED
  BY <1>2, <1>3 DEF LeaseInv, Holds

\* The case of a step in which only worker w moves and claims nothing.
LEMMA LeaseShrink ==
    ASSUME TypeInv, LeaseInv, NEW w \in Workers, NEW u, TypeInv',
           worker' = [worker EXCEPT ![w] = u],
           Held(u) \subseteq Held(worker[w]),
           Held(u) # {} => u.hold = worker[w].hold,
           \A i \in Ids : row'[i] # row[i] =>
              row[i].status # "processing" \/ i \in Held(worker[w]) \ Held(u)
    PROVE  LeaseInv'
<1>0. worker'[w] = u /\ \A v \in Workers : v # w => worker'[v] = worker[v]
  BY DEF TypeInv, TypeOK
<1>1. \A v \in Workers : Held(worker'[v]) \subseteq Held(worker[v])
  BY <1>0
<1>2. ASSUME NEW v \in Workers, NEW i \in Held(worker'[v])
      PROVE  row'[i] = row[i] /\ worker'[v].hold = worker[v].hold
  <2>1. i \in Ids /\ i \in Held(worker[v])
    BY <1>1 DEF Held
  <2>2. row[i].status = "processing"
    BY <2>1 DEF LeaseInv, Holds
  <2>3. i \notin Held(worker[w]) \ Held(u)
    <3>1. CASE v = w
      BY <3>1, <1>0
    <3>2. CASE v # w
      <4>1. Held(worker[v]) \cap Held(worker[w]) = {}
        BY <3>2 DEF LeaseInv, Holds
      <4> QED
        BY <4>1, <2>1
    <3> QED
      BY <3>1, <3>2
  <2>4. worker'[v].hold = worker[v].hold
    BY <1>0, <1>2
  <2> QED
    BY <2>1, <2>2, <2>3, <2>4
<1> QED
  BY <1>1, <1>2, LeaseStep, {} \in SUBSET Ids

\* The case of a step in which no worker moves.
LEMMA LeaseRows ==
    ASSUME TypeInv, LeaseInv, TypeInv', worker' = worker,
           \A i \in Ids : row'[i] # row[i] => \A v \in Workers : i \notin Holds(v)
    PROVE  LeaseInv'
  BY DEF LeaseInv, Holds, Held

\* A worker that finishes releases all it held; so does its death.
LEMMA LeaseFinish ==
    ASSUME TypeInv, LeaseInv, TypeInv', NEW w \in Workers, Finish(w),
           \A i \in Ids : row'[i] # row[i] =>
              row[i].status # "processing" \/ i \in Held(worker[w])
    PROVE  LeaseInv'
<1>1. Held(Idle) = {}
  BY IdleType, IdleHoldsNothing
<1> QED
  BY <1>1, LeaseShrink DEF Finish

\* On the way from one step of a delivery to the next a worker's hold is the same.
LEMMA LeaseGoto ==
    ASSUME TypeInv, LeaseInv, TypeInv', NEW w \in Workers, NEW p \in PC, Goto(w, p),
           Held([worker[w] EXCEPT !.pc = p]) \subseteq Held(worker[w]),
           \A i \in Ids : row'[i] # row[i] =>
              \/ row[i].status # "processing"
              \/ i \in Held(worker[w]) \ Held([worker[w] EXCEPT !.pc = p])
    PROVE  LeaseInv'
<1> DEFINE u == [worker[w] EXCEPT !.pc = p]
<1>1. worker[w] \in Worker
  BY DEF TypeInv, TypeOK
<1>2. u.hold = worker[w].hold
  BY <1>1, Zenon DEF Worker
<1>3. worker' = [worker EXCEPT ![w] = u]
  BY DEF Goto
<1> HIDE DEF u
<1> QED
  BY <1>2, <1>3, LeaseShrink DEF u

\* The fields of a worker that changes its pc only.
LEMMA PcUpdate ==
    ASSUME NEW u \in Worker, NEW p \in PC
    PROVE  /\ [u EXCEPT !.pc = p].pc = p
           /\ [u EXCEPT !.pc = p].job = u.job
           /\ [u EXCEPT !.pc = p].siblings = u.siblings
           /\ [u EXCEPT !.pc = p].hold = u.hold
  BY Zenon DEF Worker

\* The tail of a failed delivery keeps the lease: the job is already released.
LEMMA LeaseAfterFailure ==
    ASSUME TypeInv, LeaseInv, TypeInv', NEW w \in Workers, AfterFailure(w),
           worker[w].pc \in {"failRead", "failWrite", "notify"},
           \A i \in Ids : row'[i] # row[i] =>
              \/ row[i].status # "processing"
              \/ i = worker[w].job /\ worker[w].pc = "failWrite"
    PROVE  LeaseInv'
<1>0. worker[w] \in Worker /\ worker[w].job \in Ids /\ worker[w].job \notin worker[w].siblings
  BY DEF TypeInv, TypeOK, JobOK
<1>1. CASE worker[w].siblings = {}
  <2>1. Finish(w)
    BY <1>1 DEF AfterFailure
  <2> QED
    BY <1>0, <2>1, LeaseFinish DEF Held
<1>2. CASE worker[w].siblings # {}
  <2> DEFINE u == [worker[w] EXCEPT !.pc = "park"]
  <2>1. "park" \in PC /\ Goto(w, "park")
    BY <1>2 DEF AfterFailure, PC
  <2>2. u.pc = "park" /\ u.job = worker[w].job /\ u.siblings = worker[w].siblings
    BY <1>0, <2>1, PcUpdate
  <2> HIDE DEF u
  <2>3. Held(u) = worker[w].siblings \cap Ids /\ Held(u) \subseteq Held(worker[w])
    BY <2>2 DEF Held
  <2>4. worker[w].pc = "failWrite" => worker[w].job \in Held(worker[w]) \ Held(u)
    BY <1>0, <2>3 DEF Held
  <2> QED
    BY <2>1, <2>3, <2>4, LeaseGoto DEF u
<1> QED
  BY <1>1, <1>2

\* The columns of a row whose clocks move.
LEMMA TickRow ==
    ASSUME NEW r \in Row, NEW a, NEW b, NEW c
    PROVE  /\ [r EXCEPT !.wait = a, !.idle = b, !.age = c].status = r.status
           /\ [r EXCEPT !.wait = a, !.idle = b, !.age = c].attempts = r.attempts
           /\ [r EXCEPT !.wait = a, !.idle = b, !.age = c].idle = b
  BY Zenon DEF Row

\* The hypotheses under which "processing" is a lease.
ShortDeliveries == MaxHold <= StaleAfter /\ MaxAge = 0

\* Every step keeps the lease, as long as deliveries are short.
LEMMA LeaseNext ==
    ASSUME ShortDeliveries, TypeInv, TypeInv', LeaseInv, [Next]_vars
    PROVE  LeaseInv'
<1>r. row \in [Ids -> Row] /\ worker \in [Workers -> Worker]
  BY DEF TypeInv, TypeOK
<1>m. MaxHold <= StaleAfter /\ MaxAge = 0 /\ \A r : ~ TooOld(r)
  BY DEF ShortDeliveries, TooOld
<1>n. ASSUME NEW i \in Ids, row[i].status # "processing", NEW v \in Workers
      PROVE  i \notin Holds(v)
  BY <1>n DEF LeaseInv
<1>1. ASSUME NEW i \in Ids, Create(i) PROVE LeaseInv'
  <2>1. \A j \in Ids : row'[j] # row[j] => row[j].status = "none"
    BY <1>1 DEF Create, Created
  <2> QED
    BY <1>1, <1>n, <2>1, LeaseRows DEF Create
<1>2. ASSUME NEW w \in Workers, NEW i \in Ids, worker[w].pc = "idle", ClaimOutbox(w, i)
      PROVE  LeaseInv'
  <2>1. CASE Claimable(row[i])
    <3> DEFINE p == IF i \in DigestIds THEN "siblings" ELSE "deliver"
               u == [Idle EXCEPT !.job = i, !.pc = p]
    <3>1. /\ row' = [row EXCEPT ![i] = Claimed(row[i])]
          /\ worker' = [worker EXCEPT ![w] = u]
      BY <1>2, <1>m, <2>1 DEF ClaimOutbox
    <3>2. row[i].status # "processing" /\ row'[i].status = "processing" /\ row'[i].idle = 0
      BY <1>r, <2>1, <3>1, RowOps, 0 \in Nat DEF Claimable
    <3>3. u.job = i /\ u.siblings = {}
      BY IdleType, Zenon DEF Worker
    <3> HIDE DEF u
    <3>4. Held(u) \subseteq {i}
      BY <3>3 DEF Held
    <3>5. worker'[w] = u /\ \A v \in Workers : v # w => worker'[v] = worker[v]
      BY <1>r, <3>1
    <3>6. \A j \in Ids : j # i => row'[j] = row[j]
      BY <1>r, <3>1
    <3>7. \A v \in Workers : Held(worker'[v]) \subseteq
                               Held(worker[v]) \cup (IF v = w THEN {i} ELSE {})
      BY <3>4, <3>5
    <3>8. \A v \in Workers : \A j \in Held(worker'[v]) \ {i} :
             row'[j] = row[j] /\ worker'[v].hold = worker[v].hold
      BY <3>4, <3>5, <3>6 DEF Held
    <3> QED
      BY <3>2, <3>7, <3>8, LeaseStep, {i} \in SUBSET Ids
  <2>2. CASE ~ Claimable(row[i])
    <3>1. row' = row /\ worker' = worker
      BY <1>2, <1>m, <1>r, <2>2 DEF ClaimOutbox
    <3> QED
      BY <3>1, LeaseRows
  <2> QED
    BY <2>1, <2>2
<1>3. ASSUME NEW w \in Workers, NEW i \in Ids, TakeKick(w, i) PROVE LeaseInv'
  BY <1>2, <1>3 DEF TakeKick
<1>4. ASSUME NEW w \in Workers, NEW i \in Ids, DeliverNow(w, i) PROVE LeaseInv'
  BY <1>2, <1>4 DEF DeliverNow
<1>5. ASSUME NEW w \in Workers, ClaimSiblings(w) PROVE LeaseInv'
  <2>1. PICK S \in SUBSET {j \in DigestIds \ {worker[w].job} : Claimable(row[j])} :
          /\ row' = [j \in Ids |-> IF j \in S THEN Claimed(row[j]) ELSE row[j]]
          /\ worker' = [worker EXCEPT ![w].pc = "deliver", ![w].siblings = S]
    BY <1>5, Zenon DEF ClaimSiblings
  <2> DEFINE u == [worker[w] EXCEPT !.pc = "deliver", !.siblings = S]
  <2>2. worker[w] \in Worker /\ worker[w].pc = "siblings" /\ S \in SUBSET Ids
    BY <1>5, <1>r, <2>1, IdsAssumption DEF ClaimSiblings
  <2>3. u.job = worker[w].job /\ u.siblings = S /\ u.hold = worker[w].hold
    BY <2>2, Zenon DEF Worker
  <2>4. worker' = [worker EXCEPT ![w] = u]
    BY <2>1
  <2> HIDE DEF u
  <2>5. \A i \in S : /\ row[i].status # "processing"
                     /\ row'[i].status = "processing" /\ row'[i].idle = 0
    <3> TAKE i \in S
    <3>1. i \in Ids /\ row[i] \in Row /\ row'[i] = Claimed(row[i]) /\ Claimable(row[i])
      BY <1>r, <2>1, <2>2
    <3> QED
      BY <3>1, RowOps, 0 \in Nat DEF Claimable
  <2>6. Held(u) \subseteq Held(worker[w]) \cup S
    BY <2>2, <2>3 DEF Held
  <2>7. worker'[w] = u /\ \A v \in Workers : v # w => worker'[v] = worker[v]
    BY <1>r, <2>4
  <2>8. \A v \in Workers : \A j \in Held(worker'[v]) \ S :
           row'[j] = row[j] /\ worker'[v].hold = worker[v].hold
    BY <2>1, <2>3, <2>7 DEF Held
  <2>9. \A v \in Workers : Held(worker'[v]) \subseteq
                             Held(worker[v]) \cup (IF v = w THEN S ELSE {})
    BY <2>6, <2>7
  <2> QED
    BY <2>2, <2>5, <2>8, <2>9, LeaseStep
<1>6. ASSUME NEW w \in Workers, Deliver(w) PROVE LeaseInv'
  <2>1. PICK x \in Results :
          worker' = [worker EXCEPT ![w].result = x,
                       ![w].pc = IF IsForwardSuccess(x) THEN "sentLeader" ELSE "failRead"]
    BY <1>6 DEF Deliver
  <2> DEFINE p == IF IsForwardSuccess(x) THEN "sentLeader" ELSE "failRead"
             u == [worker[w] EXCEPT !.result = x, !.pc = p]
  <2>2. worker[w] \in Worker /\ worker[w].pc = "deliver" /\ row' = row
    BY <1>6, <1>r DEF Deliver
  <2>3. /\ u.job = worker[w].job /\ u.siblings = worker[w].siblings
        /\ u.hold = worker[w].hold
    BY <2>2, Zenon DEF Worker
  <2>4. worker' = [worker EXCEPT ![w] = u]
    BY <2>1
  <2> HIDE DEF u
  <2>5. Held(u) \subseteq Held(worker[w])
    BY <2>2, <2>3 DEF Held
  <2> QED
    BY <2>2, <2>3, <2>4, <2>5, LeaseShrink
<1>7. ASSUME NEW w \in Workers, FinalizeLeader(w) PROVE LeaseInv'
  <2>1. /\ worker[w] \in Worker /\ worker[w].pc = "sentLeader"
        /\ worker[w].job \in Ids /\ worker[w].job \notin worker[w].siblings
    BY <1>7, <1>r DEF FinalizeLeader, TypeInv, JobOK
  <2>2. \A j \in Ids : row'[j] # row[j] => j = worker[w].job
    BY <1>7, <1>r DEF FinalizeLeader, MarkSent
  <2>3. CASE worker[w].siblings = {}
    BY <1>7, <2>1, <2>2, <2>3, LeaseFinish DEF FinalizeLeader, Held
  <2>4. CASE worker[w].siblings # {}
    <3> DEFINE u == [worker[w] EXCEPT !.pc = "sentSiblings"]
    <3>1. "sentSiblings" \in PC /\ Goto(w, "sentSiblings")
      BY <1>7, <2>4 DEF FinalizeLeader, PC
    <3>2. u.pc = "sentSiblings" /\ u.job = worker[w].job /\ u.siblings = worker[w].siblings
      BY <2>1, <3>1, PcUpdate
    <3> HIDE DEF u
    <3>3. /\ Held(u) \subseteq Held(worker[w])
          /\ worker[w].job \in Held(worker[w]) \ Held(u)
      BY <2>1, <3>2 DEF Held
    <3> QED
      BY <2>2, <3>1, <3>3, LeaseGoto DEF u
  <2> QED
    BY <2>3, <2>4
<1>8. ASSUME NEW w \in Workers, FinalizeSibling(w) PROVE LeaseInv'
  <2>1. PICK s \in worker[w].siblings :
          /\ MarkSent(w, s)
          /\ IF worker[w].siblings = {s} THEN Finish(w)
             ELSE worker' = [worker EXCEPT ![w].siblings = @ \ {s}]
    BY <1>8 DEF FinalizeSibling
  <2>2. worker[w] \in Worker /\ worker[w].pc = "sentSiblings" /\ s \in Ids
    BY <1>8, <1>r DEF FinalizeSibling, Worker
  <2>3. \A j \in Ids : row'[j] # row[j] => j = s
    BY <1>r, <2>1 DEF MarkSent
  <2>4. s \in Held(worker[w])
    BY <2>2 DEF Held
  <2> DEFINE u == [worker[w] EXCEPT !.siblings = worker[w].siblings \ {s}]
  <2>5. /\ u.pc = "sentSiblings" /\ u.siblings = worker[w].siblings \ {s}
        /\ u.hold = worker[w].hold
    BY <2>2, Zenon DEF Worker
  <2>6. CASE worker' = [worker EXCEPT ![w] = u]
    <3> HIDE DEF u
    <3>1. Held(u) \subseteq Held(worker[w]) /\ s \notin Held(u)
      BY <2>2, <2>5 DEF Held
    <3> QED
      BY <2>3, <2>4, <2>5, <2>6, <3>1, LeaseShrink
  <2>7. CASE Finish(w)
    BY <2>3, <2>4, <2>7, LeaseFinish
  <2> QED
    BY <2>1, <2>6, <2>7
<1>9. ASSUME NEW w \in Workers, FailureRead(w) PROVE LeaseInv'
  <2> DEFINE r == row[worker[w].job]
             u == [worker[w] EXCEPT !.pc = "failWrite", !.seen = r.status,
                                    !.seenAttempts = r.attempts]
  <2>1. worker[w] \in Worker /\ worker[w].pc = "failRead" /\ row' = row
    BY <1>9, <1>r DEF FailureRead
  <2>2. /\ u.job = worker[w].job /\ u.siblings = worker[w].siblings
        /\ u.hold = worker[w].hold
    BY <2>1, Zenon DEF Worker
  <2>3. CASE worker' = [worker EXCEPT ![w] = u]
    <3> HIDE DEF u
    <3>1. Held(u) \subseteq Held(worker[w])
      BY <2>1, <2>2 DEF Held
    <3> QED
      BY <2>1, <2>2, <2>3, <3>1, LeaseShrink
  <2>4. CASE AfterFailure(w)
    BY <2>1, <2>4, LeaseAfterFailure
  <2> QED
    BY <1>9, <2>3, <2>4 DEF FailureRead
<1>10. ASSUME NEW w \in Workers, FailureWrite(w) PROVE LeaseInv'
  <2>1. /\ worker[w] \in Worker /\ worker[w].pc = "failWrite"
        /\ worker[w].job \in Ids /\ worker[w].job \notin worker[w].siblings
    BY <1>10, <1>r DEF FailureWrite, TypeInv, JobOK
  <2>2. \A j \in Ids : row'[j] # row[j] => j = worker[w].job
    BY <1>10, <1>r DEF FailureWrite
  <2>3. CASE GivesUp(w)
    <3> DEFINE u == [worker[w] EXCEPT !.pc = "notify"]
    <3>1. "notify" \in PC /\ Goto(w, "notify")
      BY <1>10, <2>3 DEF FailureWrite, PC
    <3>2. u.pc = "notify" /\ u.job = worker[w].job /\ u.siblings = worker[w].siblings
      BY <2>1, <3>1, PcUpdate
    <3> HIDE DEF u
    <3>3. /\ Held(u) \subseteq Held(worker[w])
          /\ worker[w].job \in Held(worker[w]) \ Held(u)
      BY <2>1, <3>2 DEF Held
    <3> QED
      BY <2>2, <3>1, <3>3, LeaseGoto DEF u
  <2>4. CASE ~ GivesUp(w)
    BY <1>10, <2>1, <2>2, <2>4, LeaseAfterFailure DEF FailureWrite
  <2> QED
    BY <2>3, <2>4
<1>11. ASSUME NEW w \in Workers, NotifyExhausted(w) PROVE LeaseInv'
  <2>1. \A j \in Ids : row'[j] # row[j] => row[j].status = "none"
    BY <1>11 DEF NotifyExhausted, Created
  <2> QED
    BY <1>11, <2>1, LeaseAfterFailure DEF NotifyExhausted
<1>12. ASSUME NEW w \in Workers, ParkSiblings(w) PROVE LeaseInv'
  <2>1. \A j \in Ids : row'[j] # row[j] => j \in worker[w].siblings
    BY <1>12 DEF ParkSiblings
  <2> QED
    BY <1>12, <2>1, LeaseFinish DEF ParkSiblings, Held
<1>13. CASE RunForwardOutboxScan
  <2>1. PICK E \in SUBSET {i \in Ids : row[i].status \in Active /\ TooOld(row[i])} :
          row' = [i \in Ids |-> IF i \in E THEN Expired(row[i])
                                ELSE IF Stale(row[i]) THEN RecoveredStale(row[i])
                                ELSE row[i]]
    BY <1>13, Zenon DEF RunForwardOutboxScan, ScanStep
  <2>2. \A i \in Ids : row'[i] # row[i] => Stale(row[i])
    BY <1>m, <2>1
  <2>3. ASSUME NEW i \in Ids, Stale(row[i]), NEW v \in Workers PROVE i \notin Holds(v)
    <3>1. SUFFICES ASSUME i \in Holds(v) PROVE FALSE
      OBVIOUS
    <3>2. row[i].idle <= worker[v].hold
      BY <3>1 DEF LeaseInv
    <3>3. row[i].idle > StaleAfter /\ row[i].idle \in Nat
      BY <1>r, <2>3, PolicyAssumption DEF Stale, Row
    <3>4. worker[v].hold \in 0 .. MaxHold
      BY <1>r DEF Worker
    <3> QED
      BY <1>m, <3>2, <3>3, <3>4, PolicyAssumption
  <2> QED
    BY <1>13, <2>2, <2>3, LeaseRows DEF RunForwardOutboxScan, ScanStep
<1>14. ASSUME NEW i \in Ids, RequeueForwardOutbox(i) PROVE LeaseInv'
  <2>1. \A j \in Ids : row'[j] # row[j] => row[j].status # "processing"
    BY <1>14, <1>r DEF RequeueForwardOutbox
  <2> QED
    BY <1>14, <1>n, <2>1, LeaseRows DEF RequeueForwardOutbox
<1>15. ASSUME NEW w \in Workers, Redeliver(w) PROVE LeaseInv'
  BY <1>15, LeaseRows DEF Redeliver
<1>16. ASSUME NEW w \in Workers, Crash(w) PROVE LeaseInv'
  BY <1>16, LeaseFinish DEF Crash
<1>17. CASE Tick
  <2>1. ASSUME NEW v \in Workers PROVE Held(worker'[v]) = Held(worker[v])
    <3>0. worker[v] \in Worker
      BY <1>r
    <3>1. CASE worker[v].pc = "idle"
      BY <1>17, <3>1 DEF Tick
    <3>2. CASE worker[v].pc # "idle"
      <4>1. worker'[v] = [worker[v] EXCEPT !.hold = worker[v].hold + 1]
        BY <1>17, <3>2 DEF Tick
      <4>2. /\ worker'[v].pc = worker[v].pc /\ worker'[v].job = worker[v].job
            /\ worker'[v].siblings = worker[v].siblings
        BY <3>0, <4>1, Zenon DEF Worker
      <4> QED
        BY <4>2 DEF Held
    <3> QED
      BY <3>1, <3>2
  <2>2. ASSUME NEW v \in Workers, NEW i \in Held(worker[v])
        PROVE  row'[i].status = "processing" /\ row'[i].idle <= worker'[v].hold
    <3>1. i \in Ids /\ worker[v].pc # "idle" /\ worker[v] \in Worker /\ row[i] \in Row
      BY <1>r DEF Held
    <3>2. row[i].status = "processing" /\ row[i].idle <= worker[v].hold
      BY DEF LeaseInv, Holds
    <3>3. worker'[v] = [worker[v] EXCEPT !.hold = worker[v].hold + 1]
      BY <1>17, <3>1 DEF Tick
    <3>4. worker'[v].hold = worker[v].hold + 1
      BY <3>1, <3>3, Zenon DEF Worker
    <3>5. /\ row'[i].status = row[i].status
          /\ row'[i].idle = IF row[i].status = "processing" /\ row[i].idle <= StaleAfter
                              THEN row[i].idle + 1 ELSE row[i].idle
      <4> DEFINE a == IF row[i].wait > 0 THEN row[i].wait - 1 ELSE row[i].wait
                 b == IF row[i].status = "processing" /\ row[i].idle <= StaleAfter
                        THEN row[i].idle + 1 ELSE row[i].idle
                 c == IF row[i].status # "none" /\ row[i].age <= MaxAge
                        THEN row[i].age + 1 ELSE row[i].age
      <4>1. row'[i] = [row[i] EXCEPT !.wait = a, !.idle = b, !.age = c]
        BY <1>17, <3>1, Zenon DEF Tick
      <4> HIDE DEF a, b, c
      <4>2. row'[i].status = row[i].status /\ row'[i].idle = b
        BY <3>1, <4>1, TickRow
      <4> QED
        BY <4>2 DEF b
    <3>6. row[i].idle \in Nat /\ worker[v].hold \in 0 .. MaxHold
      BY <3>1, PolicyAssumption DEF Row, Worker
    <3>7. MaxHold \in Nat /\ StaleAfter \in Nat /\ MaxHold <= StaleAfter
      BY <1>m, PolicyAssumption
    <3>8. row[i].idle <= StaleAfter
      BY <3>2, <3>6, <3>7
    <3>9. row'[i].idle = row[i].idle + 1
      BY <3>2, <3>5, <3>8
    <3> QED
      BY <3>2, <3>4, <3>5, <3>6, <3>9
  <2> QED
    BY <2>1, <2>2 DEF LeaseInv, Holds
<1>18. CASE UNCHANGED vars
  BY <1>18, LeaseRows DEF vars
<1> QED
  BY <1>1, <1>3, <1>4, <1>5, <1>6, <1>7, <1>8, <1>9, <1>10, <1>11, <1>12, <1>13, <1>14,
     <1>15, <1>16, <1>17, <1>18 DEF Next, WorkerStep

\* Nobody holds a row at the start.
LEMMA LeaseInit == Init => LeaseInv
<1> SUFFICES ASSUME Init PROVE LeaseInv
  OBVIOUS
<1>1. \A w \in Workers : Holds(w) = {}
  BY IdleType, IdleHoldsNothing DEF Init, Holds
<1> QED
  BY <1>1 DEF LeaseInv

\* With deliveries shorter than the stale threshold and no maximum age, no two
\* live workers ever hold one row, whatever crashes, lost or redelivered kicks
\* and operator requeues happen.
THEOREM LeaseIsExclusive ==
    ASSUME ShortDeliveries
    PROVE  Spec => []ExclusiveHolder
<1>1. Init => TypeInv /\ LeaseInv
  BY TypeInit, LeaseInit
<1>2. TypeInv /\ LeaseInv /\ [Next]_vars => (TypeInv /\ LeaseInv)'
  BY TypeNext, LeaseNext
<1>3. LeaseInv => ExclusiveHolder
  BY DEF LeaseInv, ExclusiveHolder
<1> QED
  BY <1>1, <1>2, <1>3, PTL DEF Spec

-----------------------------------------------------------------------------
(* What a step may do to an intent *)

\* The moves of a row's status that keep its intent what the abstract
\* specification says it is.
StatusStep(i) ==
    LET s == row[i].status
        t == row'[i].status
    IN \/ /\ followUps'[i] = followUps[i]
          /\ \/ s = t
             \/ s = "none" /\ t = "pending"
             \/ s \in Active /\ t \in Active \cup {"expired", "exhausted"}
             \/ s \in {"expired", "exhausted"} /\ t \in Active
       \/ /\ s \in Active /\ t = "sent"
          /\ followUps'[i] \in {followUps[i], followUps[i] + 1}

\* The success finalizer of a row that its worker holds.
LEMMA MarkSentStep ==
    ASSUME TypeInv, NEW w \in Workers, NEW i \in Ids, MarkSent(w, i),
           row[i].status = "processing"
    PROVE  \A j \in Ids : StatusStep(j)
<1>r. row \in [Ids -> Row] /\ followUps \in [Ids -> Nat]
  BY DEF TypeInv, TypeOK
<1>1. row[i].status \notin Terminal
  BY DEF Terminal
<1>2. /\ row' = [row EXCEPT ![i] = Sent(row[i])]
      /\ followUps' = [followUps EXCEPT ![i] =
                         IF worker[w].result = "pending" THEN @ + 1 ELSE @]
  BY <1>1 DEF MarkSent
<1>3. row'[i].status = "sent" /\ followUps'[i] \in {followUps[i], followUps[i] + 1}
  BY <1>r, <1>2, RowOps, 0 \in Nat
<1>4. \A j \in Ids \ {i} : row'[j] = row[j] /\ followUps'[j] = followUps[j]
  BY <1>r, <1>2
<1> QED
  BY <1>3, <1>4 DEF StatusStep, Active

\* Under the lease every step moves every row along StatusStep.
LEMMA EveryStep ==
    ASSUME TypeInv, TypeInv', LeaseInv, [Next]_vars
    PROVE  \A i \in Ids : StatusStep(i)
<1>r. /\ row \in [Ids -> Row] /\ worker \in [Workers -> Worker]
      /\ \A j \in Ids : row[j] \in Row /\ row[j].status \in Status
  BY DEF TypeInv, TypeOK, Row
<1>h. \A w \in Workers : \A i \in Held(worker[w]) : row[i].status = "processing"
  BY DEF LeaseInv, Holds
<1>a. /\ "processing" \in Active /\ "retrying" \in Active /\ "pending" \in Active
      /\ Active \cap Terminal = {}
  BY DEF Active, Terminal
<1>c. ASSUME NEW S \in SUBSET Ids, row' = Created(S), UNCHANGED followUps
      PROVE  \A i \in Ids : StatusStep(i)
  BY <1>c, NewRowType DEF Created, StatusStep
<1>1. ASSUME NEW i \in Ids, Create(i) PROVE \A j \in Ids : StatusStep(j)
  BY <1>1, <1>c, {i} \in SUBSET Ids DEF Create
<1>2. ASSUME NEW w \in Workers, NEW i \in Ids, ClaimOutbox(w, i)
      PROVE  \A j \in Ids : StatusStep(j)
  <2>1. \A j \in Ids \ {i} : row'[j] = row[j] /\ followUps'[j] = followUps[j]
    BY <1>2, <1>r DEF ClaimOutbox
  <2>2. \/ row'[i] = row[i]
        \/ /\ row[i].status \in {"pending", "retrying"}
           /\ row'[i] \in {Claimed(row[i]), Expired(row[i])}
    BY <1>2, <1>r DEF ClaimOutbox, Claimable
  <2>3. Claimed(row[i]).status = "processing" /\ Expired(row[i]).status = "expired"
    BY <1>r, RowOps, 0 \in Nat
  <2>4. StatusStep(i)
    BY <1>2, <1>a, <2>2, <2>3 DEF StatusStep, ClaimOutbox
  <2> QED
    BY <2>1, <2>4 DEF StatusStep
<1>3. ASSUME NEW w \in Workers, NEW i \in Ids, TakeKick(w, i) PROVE \A j \in Ids : StatusStep(j)
  BY <1>2, <1>3 DEF TakeKick
<1>4. ASSUME NEW w \in Workers, NEW i \in Ids, DeliverNow(w, i) PROVE \A j \in Ids : StatusStep(j)
  BY <1>2, <1>4 DEF DeliverNow
<1>5. ASSUME NEW w \in Workers, ClaimSiblings(w) PROVE \A j \in Ids : StatusStep(j)
  <2>1. PICK S \in SUBSET {j \in DigestIds \ {worker[w].job} : Claimable(row[j])} :
          row' = [j \in Ids |-> IF j \in S THEN Claimed(row[j]) ELSE row[j]]
    BY <1>5, Zenon DEF ClaimSiblings
  <2>2. \A j \in Ids : Claimed(row[j]).status = "processing"
    BY <1>r, RowOps, 0 \in Nat
  <2>3. \A j \in S : row[j].status \in Active
    BY <2>1, <1>a DEF Claimable
  <2> QED
    BY <1>5, <1>a, <2>1, <2>2, <2>3 DEF ClaimSiblings, StatusStep
<1>6. ASSUME NEW w \in Workers, Deliver(w) PROVE \A j \in Ids : StatusStep(j)
  BY <1>6 DEF Deliver, StatusStep
<1>7. ASSUME NEW w \in Workers, FinalizeLeader(w) PROVE \A j \in Ids : StatusStep(j)
  <2>1. worker[w].job \in Ids /\ worker[w].job \in Held(worker[w])
    BY <1>7 DEF FinalizeLeader, TypeInv, JobOK, Held
  <2> QED
    BY <1>7, <1>h, <2>1, MarkSentStep DEF FinalizeLeader
<1>8. ASSUME NEW w \in Workers, FinalizeSibling(w) PROVE \A j \in Ids : StatusStep(j)
  <2>1. PICK s \in worker[w].siblings : MarkSent(w, s)
    BY <1>8 DEF FinalizeSibling
  <2>2. s \in Ids /\ s \in Held(worker[w])
    BY <1>8, <1>r DEF FinalizeSibling, Worker, Held
  <2> QED
    BY <1>h, <2>1, <2>2, MarkSentStep
<1>9. ASSUME NEW w \in Workers, FailureRead(w) PROVE \A j \in Ids : StatusStep(j)
  BY <1>9 DEF FailureRead, StatusStep
<1>10. ASSUME NEW w \in Workers, FailureWrite(w) PROVE \A j \in Ids : StatusStep(j)
  <2> DEFINE i == worker[w].job
  <2>1. i \in Ids /\ i \in Held(worker[w])
    BY <1>10 DEF FailureWrite, TypeInv, JobOK, Held
  <2>2. row[i].status = "processing" /\ row[i] \in Row
    BY <1>h, <1>r, <2>1
  <2>3. \A j \in Ids \ {i} : row'[j] = row[j]
    BY <1>10, <1>r DEF FailureWrite
  <2>4. row'[i].status \in Active \cup {"exhausted"}
    <3>1. CASE GivesUp(w)
      BY <1>10, <1>r, <2>1, <2>2, <3>1, RowOps, 0 \in Nat DEF FailureWrite
    <3>2. CASE ~ GivesUp(w)
      <4> DEFINE st == IF worker[w].seen = "retrying" THEN row[i].status ELSE "retrying"
                 u == [row[i] EXCEPT !.wait = RetryDelay[worker[w].seenAttempts],
                                     !.idle = 0, !.status = st]
      <4>1. row' = [row EXCEPT ![i] = u]
        BY <1>10, <3>2 DEF FailureWrite
      <4>2. u.status = st
        BY <2>2, Zenon DEF Row
      <4>3. row'[i] = u
        BY <1>r, <2>1, <4>1
      <4> HIDE DEF u
      <4> QED
        BY <1>a, <2>2, <4>2, <4>3
    <3> QED
      BY <3>1, <3>2
  <2>5. UNCHANGED followUps
    BY <1>10 DEF FailureWrite
  <2> QED
    BY <1>a, <2>2, <2>3, <2>4, <2>5 DEF StatusStep
<1>11. ASSUME NEW w \in Workers, NotifyExhausted(w) PROVE \A j \in Ids : StatusStep(j)
  <2>1. NoticeFor[worker[w].job] \in SUBSET Ids /\ UNCHANGED followUps
    BY <1>11, IdsAssumption DEF NotifyExhausted, TypeInv, JobOK
  <2>2. row' = Created(NoticeFor[worker[w].job]) \/ row' = row
    BY <1>11 DEF NotifyExhausted
  <2> QED
    BY <1>c, <2>1, <2>2 DEF StatusStep
<1>12. ASSUME NEW w \in Workers, ParkSiblings(w) PROVE \A j \in Ids : StatusStep(j)
  <2>1. row[worker[w].job].wait \in Nat
    BY <1>12, <1>r DEF ParkSiblings, TypeInv, JobOK, Row
  <2>2. \A j \in Ids : /\ Exhausted(row[j]).status = "exhausted"
                       /\ Parked(row[j], row[worker[w].job].wait).status = "pending"
    BY <1>r, <2>1, RowOps
  <2>3. \A j \in Ids : \/ row'[j] = row[j]
                       \/ /\ row[j].status = "processing"
                          /\ row'[j].status \in {"pending", "exhausted"}
    BY <1>12, <2>2 DEF ParkSiblings
  <2> QED
    BY <1>12, <1>a, <2>3 DEF ParkSiblings, StatusStep
<1>13. CASE RunForwardOutboxScan
  <2>1. PICK E \in SUBSET {i \in Ids : row[i].status \in Active /\ TooOld(row[i])} :
          row' = [i \in Ids |-> IF i \in E THEN Expired(row[i])
                                ELSE IF Stale(row[i]) THEN RecoveredStale(row[i])
                                ELSE row[i]]
    BY <1>13, Zenon DEF RunForwardOutboxScan, ScanStep
  <2>2. \A j \in Ids : /\ Expired(row[j]).status = "expired"
                       /\ RecoveredStale(row[j]).status = "retrying"
    BY <1>r, RowOps, 0 \in Nat
  <2>3. \A j \in Ids : \/ row'[j] = row[j]
                       \/ row[j].status \in Active /\ row'[j].status \in {"expired", "retrying"}
    BY <1>a, <2>1, <2>2 DEF Stale
  <2>4. UNCHANGED followUps
    BY <1>13 DEF RunForwardOutboxScan, ScanStep
  <2> QED
    BY <1>a, <2>3, <2>4 DEF StatusStep
<1>14. ASSUME NEW i \in Ids, RequeueForwardOutbox(i) PROVE \A j \in Ids : StatusStep(j)
  <2>1. /\ row[i].status \in {"exhausted", "expired", "retrying", "pending"}
        /\ row' = [row EXCEPT ![i] = Requeued(row[i])] /\ UNCHANGED followUps
    BY <1>14 DEF RequeueForwardOutbox
  <2>2. row'[i].status = "retrying" /\ \A j \in Ids \ {i} : row'[j] = row[j]
    BY <1>r, <2>1, RowOps, 0 \in Nat
  <2> QED
    BY <1>a, <2>1, <2>2 DEF StatusStep
<1>15. ASSUME NEW w \in Workers, Redeliver(w) PROVE \A j \in Ids : StatusStep(j)
  BY <1>15 DEF Redeliver, StatusStep
<1>16. ASSUME NEW w \in Workers, Crash(w) PROVE \A j \in Ids : StatusStep(j)
  BY <1>16 DEF Crash, StatusStep
<1>17. CASE Tick
  <2>1. ASSUME NEW i \in Ids PROVE row'[i].status = row[i].status
    <3> DEFINE a == IF row[i].wait > 0 THEN row[i].wait - 1 ELSE row[i].wait
               b == IF row[i].status = "processing" /\ row[i].idle <= StaleAfter
                      THEN row[i].idle + 1 ELSE row[i].idle
               c == IF row[i].status # "none" /\ row[i].age <= MaxAge
                      THEN row[i].age + 1 ELSE row[i].age
    <3>1. row'[i] = [row[i] EXCEPT !.wait = a, !.idle = b, !.age = c]
      BY <1>17, Zenon DEF Tick
    <3> HIDE DEF a, b, c
    <3> QED
      BY <1>r, <3>1, TickRow
  <2> QED
    BY <1>17, <2>1 DEF Tick, StatusStep
<1>18. CASE UNCHANGED vars
  BY <1>18 DEF vars, StatusStep
<1> QED
  BY <1>1, <1>3, <1>4, <1>5, <1>6, <1>7, <1>8, <1>9, <1>10, <1>11, <1>12, <1>13, <1>14,
     <1>15, <1>16, <1>17, <1>18 DEF Next, WorkerStep

\* The follow-up count along StatusStep.
LEMMA FollowUpStep ==
    ASSUME TypeInv, OneFollowUp, \A i \in Ids : StatusStep(i), TypeInv'
    PROVE  OneFollowUp'
<1> SUFFICES ASSUME NEW i \in Ids
             PROVE  followUps'[i] <= 1 /\ (followUps'[i] = 1 => row'[i].status = "sent")
  BY DEF OneFollowUp
<1>1. followUps[i] \in Nat /\ followUps[i] <= 1 /\ (followUps[i] = 1 => row[i].status = "sent")
  BY DEF OneFollowUp, TypeInv, TypeOK
<1> QED
  BY <1>1 DEF StatusStep, Active

\* The abstract specification allows what StatusStep does.
LEMMA AbstractStep ==
    ASSUME TypeInv, TypeInv', OneFollowUp, \A i \in Ids : StatusStep(i)
    PROVE  Abstract!Next
<1>1. ASSUME NEW i \in Ids
      PROVE  Abstract!Keep(i) \/ Abstract!Open(i) \/ Abstract!Send(i) \/ Abstract!GiveUp(i)
  <2>1. StatusStep(i) /\ followUps[i] \in Nat /\ followUps[i] <= 1
        /\ (followUps[i] = 1 => row[i].status = "sent")
    BY DEF OneFollowUp, TypeInv, TypeOK
  <2>2. row[i].status \in Status /\ row'[i].status \in Status
    BY DEF TypeInv, TypeOK, Row
  <2> QED
    BY <2>1, <2>2 DEF StatusStep, Intent, Active, Terminal, Status,
       Abstract!Keep, Abstract!Open, Abstract!Send, Abstract!GiveUp
<1>2. [i \in Ids |-> Intent(row[i].status)]' \in [Ids -> Abstract!States]
  BY DEF Intent, Abstract!States
<1>3. followUps' \in [Ids -> Nat]
  BY DEF TypeInv, TypeOK
<1> QED
  BY <1>1, <1>2, <1>3 DEF Abstract!Next

\* With short deliveries the outbox table implements the delivery intent: an
\* intent is sent once and for good, and its DeepAnalysis record is created in
\* the step that marks it sent.
THEOREM OutboxImplementsIntent ==
    ASSUME ShortDeliveries
    PROVE  Spec => ImplementsIntent
<1> DEFINE Inv == TypeInv /\ LeaseInv /\ OneFollowUp
<1>1. Init => Inv /\ Abstract!Init
  <2> SUFFICES ASSUME Init PROVE Inv /\ Abstract!Init
    OBVIOUS
  <2>1. OneFollowUp /\ followUps = [i \in Ids |-> 0]
    BY DEF Init, OneFollowUp
  <2>2. \A i \in Ids : row[i].status = "none"
    BY DEF Init, NoRow
  <2>3. \A i \in Ids : Intent(row[i].status) = "absent"
    BY <2>2 DEF Intent, Active
  <2>4. [i \in Ids |-> Intent(row[i].status)] = [i \in Ids |-> "absent"]
    BY <2>3
  <2>5. Abstract!Init
    BY <2>1, <2>4 DEF Abstract!Init
  <2> QED
    BY <2>1, <2>5, TypeInit, LeaseInit
<1>2. Inv /\ [Next]_vars => Inv'
  BY TypeNext, LeaseNext, EveryStep, FollowUpStep
<1>3. Inv /\ Inv' /\ [Next]_vars => [Abstract!Next]_<<[i \in Ids |-> Intent(row[i].status)], followUps>>
  BY EveryStep, AbstractStep
<1> QED
  BY <1>1, <1>2, <1>3, PTL DEF Spec, ImplementsIntent, Abstract!Spec

\* With short deliveries a sent row stays sent: the unlocked read-then-write of
\* _finalize_outbox_failure never meets a row another finalizer has settled.
THEOREM SentStaysSent ==
    ASSUME ShortDeliveries
    PROVE  Spec => SentIsFinal
<1>1. Init => TypeInv /\ LeaseInv
  BY TypeInit, LeaseInit
<1>2. TypeInv /\ LeaseInv /\ [Next]_vars => (TypeInv /\ LeaseInv)'
  BY TypeNext, LeaseNext
<1>3. TypeInv /\ TypeInv' /\ LeaseInv /\ [Next]_vars =>
        [\A i \in Ids : row[i].status = "sent" => row'[i].status = "sent"]_vars
  BY EveryStep DEF StatusStep, Active
<1> QED
  BY <1>1, <1>2, <1>3, PTL DEF Spec, SentIsFinal

\* With short deliveries a row spawns at most one DeepAnalysis record.
THEOREM FollowUpOnce ==
    ASSUME ShortDeliveries
    PROVE  Spec => []OneFollowUp
<1>1. Init => TypeInv /\ LeaseInv /\ OneFollowUp
  BY TypeInit, LeaseInit DEF Init, OneFollowUp
<1>2. TypeInv /\ LeaseInv /\ OneFollowUp /\ [Next]_vars => (TypeInv /\ LeaseInv /\ OneFollowUp)'
  BY TypeNext, LeaseNext, EveryStep, FollowUpStep
<1> QED
  BY <1>1, <1>2, PTL DEF Spec

-----------------------------------------------------------------------------
(* What a step may do to a row, whatever the lease *)

\* FailureWrite's update of a row that is to be retried.
Retried(r, s, n) == [r EXCEPT !.wait = n, !.idle = 0, !.status = s]

\* Tick's update of a row.
Aged(r) ==
    [r EXCEPT !.wait = IF @ > 0 THEN @ - 1 ELSE @,
              !.idle = IF r.status = "processing" /\ @ <= StaleAfter THEN @ + 1 ELSE @,
              !.age = IF r.status # "none" /\ @ <= MaxAge THEN @ + 1 ELSE @]

\* Worker w is about to mark row i sent, or to park it as a sibling.
Marks(w, i) ==
    \/ worker[w].pc = "sentLeader" /\ worker[w].job = i
    \/ worker[w].pc = "sentSiblings" /\ i \in worker[w].siblings
Parks(w, i) == worker[w].pc = "park" /\ i \in worker[w].siblings

\* The ways a row may change in a step in which the operator requeues nothing, and
\* who changes it.
RowMove(i) ==
    \/ row'[i] = row[i]
    \/ row[i].status = "none" /\ row'[i] = NewRow(i)
    \/ Claimable(row[i]) /\ row'[i] = Claimed(row[i])
    \/ row[i].status \in Active /\ TooOld(row[i]) /\ row'[i] = Expired(row[i])
    \/ /\ row[i].status \notin Terminal /\ row'[i] = Sent(row[i])
       /\ \E w \in Workers : Marks(w, i)
    \/ /\ row'[i] = Exhausted(row[i])
       /\ \E w \in Workers : \/ worker[w].pc = "failWrite" /\ worker[w].job = i
                             \/ row[i].status = "processing" /\ Parks(w, i)
    \/ Stale(row[i]) /\ row'[i] = RecoveredStale(row[i])
    \/ /\ row[i].status = "processing" /\ \E n \in Nat : row'[i] = Parked(row[i], n)
       /\ \E w \in Workers : Parks(w, i)
    \/ \E w \in Workers, s \in {"retrying", row[i].status}, n \in Nat :
          /\ worker[w].pc = "failWrite" /\ worker[w].job = i /\ ~ GivesUp(w)
          /\ s = (IF worker[w].seen = "retrying" THEN row[i].status ELSE "retrying")
          /\ row'[i] = Retried(row[i], s, n)
    \/ row'[i] = Aged(row[i])

LEMMA MarkSentMove ==
    ASSUME row \in [Ids -> Row], NEW w \in Workers, NEW i \in Ids, MarkSent(w, i),
           Marks(w, i)
    PROVE  \A j \in Ids : RowMove(j)
BY DEF MarkSent, RowMove

LEMMA CreatedMove ==
    ASSUME NEW S \in SUBSET Ids, row' = Created(S)
    PROVE  \A j \in Ids : RowMove(j)
BY DEF Created, RowMove

LEMMA ClaimMove ==
    ASSUME row \in [Ids -> Row], NEW w \in Workers, NEW i \in Ids, ClaimOutbox(w, i)
    PROVE  \A j \in Ids : RowMove(j)
<1>1. \A j \in Ids \ {i} : row'[j] = row[j]
  BY DEF ClaimOutbox
<1>2. \/ row'[i] = row[i]
      \/ Claimable(row[i]) /\ row'[i] = Claimed(row[i])
      \/ /\ row[i].status \in {"pending", "retrying"} /\ TooOld(row[i])
         /\ row'[i] = Expired(row[i])
  BY DEF ClaimOutbox
<1> QED BY <1>1, <1>2 DEF RowMove, Active

\* Every step changes every row in one of these ways, or is a requeue.
LEMMA EveryMove ==
    ASSUME TypeInv, [Next]_vars
    PROVE  \/ (\A i \in Ids : RowMove(i)) /\ requeues' = requeues
           \/ requeues' = requeues + 1 /\ \E i \in Ids : RequeueForwardOutbox(i)
<1>r. /\ row \in [Ids -> Row] /\ worker \in [Workers -> Worker]
      /\ \A j \in Ids : row[j] \in Row
  BY DEF TypeInv, TypeOK
<1> DEFINE G == (\A i \in Ids : RowMove(i)) /\ requeues' = requeues
           R == requeues' = requeues + 1 /\ \E i \in Ids : RequeueForwardOutbox(i)
<1>k. ASSUME UNCHANGED <<row, requeues>> PROVE G
  BY <1>k DEF RowMove
<1>1. ASSUME NEW i \in Ids, Create(i) PROVE G
  BY <1>1, CreatedMove, {i} \in SUBSET Ids DEF Create
<1>2. ASSUME NEW w \in Workers, NEW i \in Ids, TakeKick(w, i) \/ DeliverNow(w, i) PROVE G
  BY <1>2, <1>r, ClaimMove DEF TakeKick, DeliverNow, ClaimOutbox
<1>3. ASSUME NEW w \in Workers, ClaimSiblings(w) PROVE G
  <2>1. PICK S \in SUBSET {j \in DigestIds \ {worker[w].job} : Claimable(row[j])} :
          row' = [j \in Ids |-> IF j \in S THEN Claimed(row[j]) ELSE row[j]]
    BY <1>3, Zenon DEF ClaimSiblings
  <2> QED BY <1>3, <2>1 DEF RowMove, ClaimSiblings
<1>4. ASSUME NEW w \in Workers, Deliver(w) \/ FailureRead(w) \/ Redeliver(w) \/ Crash(w) PROVE G
  BY <1>4, <1>k DEF Deliver, FailureRead, Redeliver, Crash
<1>5. ASSUME NEW w \in Workers, FinalizeLeader(w) PROVE G
  <2>1. worker[w].job \in Ids
    BY <1>5 DEF FinalizeLeader, TypeInv, JobOK
  <2> QED BY <1>5, <1>r, <2>1, MarkSentMove DEF FinalizeLeader, Marks
<1>6. ASSUME NEW w \in Workers, FinalizeSibling(w) PROVE G
  <2>1. PICK s \in worker[w].siblings : MarkSent(w, s)
    BY <1>6 DEF FinalizeSibling
  <2>2. s \in Ids
    BY <1>r DEF Worker
  <2> QED BY <1>6, <1>r, <2>1, <2>2, MarkSentMove DEF FinalizeSibling, Marks
<1>7. ASSUME NEW w \in Workers, FailureWrite(w) PROVE G
  <2> DEFINE i == worker[w].job
             n == RetryDelay[worker[w].seenAttempts]
             st == IF worker[w].seen = "retrying" THEN row[i].status ELSE "retrying"
  <2>1. i \in Ids /\ worker[w].pc = "failWrite" /\ requeues' = requeues
    BY <1>7 DEF FailureWrite, TypeInv, JobOK
  <2>2. CASE GivesUp(w)
    <3>1. row' = [row EXCEPT ![i] = Exhausted(row[i])]
      BY <1>7, <2>2 DEF FailureWrite
    <3>2. row'[i] = Exhausted(row[i]) /\ \A j \in Ids \ {i} : row'[j] = row[j]
      BY <1>r, <2>1, <3>1
    <3>3. RowMove(i)
      <4>0. worker[w].pc = "failWrite" /\ worker[w].job = i
        BY <2>1
      <4> HIDE DEF i
      <4>1. \E v \in Workers : \/ worker[v].pc = "failWrite" /\ worker[v].job = i
                               \/ row[i].status = "processing" /\ Parks(v, i)
        BY <4>0
      <4> QED BY <3>2, <4>1 DEF RowMove
    <3>4. ASSUME NEW j \in Ids, j # i PROVE RowMove(j)
      <4>1. row'[j] = row[j]
        BY <3>2, <3>4
      <4> QED BY <4>1, Zenon DEF RowMove
    <3> QED BY <2>1, <3>3, <3>4
  <2>3. CASE ~ GivesUp(w)
    <3>1. n \in Nat
      <4>1. worker[w].seenAttempts \in 0 .. MaxAttempts + 1
        BY <1>r DEF Worker, AttemptsCap
      <4> QED BY <4>1, PolicyAssumption
    <3>2. row' = [row EXCEPT ![i] = Retried(row[i], st, n)]
      BY <1>7, <2>3 DEF FailureWrite, Retried
    <3>3. /\ st \in {"retrying", row[i].status}
          /\ st = (IF worker[w].seen = "retrying" THEN row[i].status ELSE "retrying")
      OBVIOUS
    <3> HIDE DEF n, st
    <3>4. row'[i] = Retried(row[i], st, n) /\ \A j \in Ids \ {i} : row'[j] = row[j]
      BY <1>r, <2>1, <3>2
    <3> QED BY <2>1, <2>3, <3>1, <3>3, <3>4 DEF RowMove
  <2> QED BY <2>2, <2>3
<1>8. ASSUME NEW w \in Workers, NotifyExhausted(w) PROVE G
  <2>1. NoticeFor[worker[w].job] \in SUBSET Ids
    BY <1>8, IdsAssumption DEF NotifyExhausted, TypeInv, JobOK
  <2> QED BY <1>8, <1>k, <2>1, CreatedMove DEF NotifyExhausted
<1>9. ASSUME NEW w \in Workers, ParkSiblings(w) PROVE G
  <2>1. row[worker[w].job].wait \in Nat
    BY <1>9, <1>r DEF ParkSiblings, TypeInv, JobOK, Row
  <2>2. \A j \in Ids :
           \/ row'[j] = row[j]
           \/ /\ row[j].status = "processing" /\ Parks(w, j)
              /\ row'[j] \in {Exhausted(row[j]), Parked(row[j], row[worker[w].job].wait)}
    BY <1>9 DEF ParkSiblings, Parks
  <2> QED BY <1>9, <2>1, <2>2 DEF ParkSiblings, RowMove
<1>10. ASSUME RunForwardOutboxScan PROVE G
  <2>1. PICK E \in SUBSET {i \in Ids : row[i].status \in Active /\ TooOld(row[i])} :
          row' = [i \in Ids |-> IF i \in E THEN Expired(row[i])
                                ELSE IF Stale(row[i]) THEN RecoveredStale(row[i])
                                ELSE row[i]]
    BY <1>10, Zenon DEF RunForwardOutboxScan, ScanStep
  <2>2. requeues' = requeues
    BY <1>10 DEF RunForwardOutboxScan, ScanStep
  <2> QED BY <2>1, <2>2 DEF RowMove, Stale
<1>11. ASSUME Tick PROVE G
  <2>1. row' = [i \in Ids |-> Aged(row[i])] /\ requeues' = requeues
    BY <1>11, Zenon DEF Tick, Aged
  <2> QED BY <2>1 DEF RowMove
<1>12. ASSUME NEW i \in Ids, RequeueForwardOutbox(i) PROVE R
  BY <1>12 DEF RequeueForwardOutbox
<1>13. ASSUME UNCHANGED vars PROVE G
  BY <1>13, <1>k DEF vars
<1> HIDE DEF G, R
<1>14. G \/ R
  BY <1>1, <1>2, <1>3, <1>4, <1>5, <1>6, <1>7, <1>8, <1>9, <1>10, <1>11, <1>12, <1>13
     DEF Next, WorkerStep
<1> QED BY <1>14 DEF G, R

\* The columns that each of these updates sets.
LEMMA RowFields ==
    ASSUME NEW r \in Row, NEW n \in Nat, NEW s \in Status
    PROVE  /\ Claimed(r).attempts = (IF r.attempts < AttemptsCap THEN r.attempts + 1
                                     ELSE r.attempts)
           /\ Expired(r).attempts = r.attempts /\ Expired(r).wait = 0
           /\ Sent(r).attempts = r.attempts /\ Sent(r).wait = r.wait /\ Sent(r).age = r.age
           /\ Exhausted(r).attempts = r.attempts /\ Exhausted(r).wait = 0
           /\ RecoveredStale(r).attempts = r.attempts /\ RecoveredStale(r).wait = 0
           /\ Parked(r, n).attempts = r.attempts
           /\ Retried(r, s, n).attempts = r.attempts /\ Retried(r, s, n).status = s
<1>1. Claimed(r).attempts = (IF r.attempts < AttemptsCap THEN r.attempts + 1 ELSE r.attempts)
  BY Zenon DEF Claimed, Row
<1>2. Expired(r).attempts = r.attempts /\ Expired(r).wait = 0
  BY Zenon DEF Expired, Row
<1>3. Sent(r).attempts = r.attempts /\ Sent(r).wait = r.wait /\ Sent(r).age = r.age
  BY Zenon DEF Sent, Row
<1>4. Exhausted(r).attempts = r.attempts /\ Exhausted(r).wait = 0
  BY Zenon DEF Exhausted, Row
<1>5. RecoveredStale(r).attempts = r.attempts /\ RecoveredStale(r).wait = 0
  BY Zenon DEF RecoveredStale, Row
<1>6. Parked(r, n).attempts = r.attempts
  BY Zenon DEF Parked, Row
<1>7. Retried(r, s, n).attempts = r.attempts /\ Retried(r, s, n).status = s
  BY Zenon DEF Retried, Row
<1> QED BY <1>1, <1>2, <1>3, <1>4, <1>5, <1>6, <1>7

LEMMA AgedFields ==
    ASSUME NEW r \in Row
    PROVE  /\ Aged(r).status = r.status /\ Aged(r).attempts = r.attempts
           /\ Aged(r).wait = (IF r.wait > 0 THEN r.wait - 1 ELSE r.wait)
           /\ Aged(r).age = (IF r.status # "none" /\ r.age <= MaxAge THEN r.age + 1 ELSE r.age)
BY Zenon DEF Aged, Row

-----------------------------------------------------------------------------
(* Expiry *)

\* Until the operator's requeue resets a count of attempts, a row that was claimed
\* has one, and the age of a row without one is behind its wait.
Untried ==
    requeues = 0 =>
        /\ \A i \in Ids : row[i].status = "none" => row[i].attempts = 0
        /\ \A i \in Ids : row[i].status = "processing" => row[i].attempts > 0
        /\ \A w \in Workers : worker[w].pc # "idle" => row[worker[w].job].attempts > 0
        /\ \A i \in Ids : row[i].attempts = 0 /\ row[i].wait > 0 => row[i].age + row[i].wait <= 0

\* What a step may do to the job of a worker.
JobMove(w) ==
    \/ worker'[w].pc = "idle"
    \/ worker[w].pc # "idle" /\ worker'[w].job = worker[w].job
    \/ \E i \in Ids : /\ worker'[w].job = i
                      /\ Claimable(row[i]) /\ row'[i] = Claimed(row[i])

\* A worker's update that keeps its job.
LEMMA JobOps ==
    ASSUME NEW u \in Worker, NEW p, NEW S, NEW x, NEW s, NEW a
    PROVE  /\ [u EXCEPT !.pc = p].job = u.job
           /\ [u EXCEPT !.siblings = S].job = u.job
           /\ [u EXCEPT !.pc = p, !.siblings = S].job = u.job
           /\ [u EXCEPT !.result = x, !.pc = p].job = u.job
           /\ [u EXCEPT !.pc = p, !.seen = s, !.seenAttempts = a].job = u.job
           /\ [u EXCEPT !.hold = x].job = u.job
           /\ [u EXCEPT !.hold = x].pc = u.pc
BY Zenon DEF Worker

LEMMA EveryJob ==
    ASSUME TypeInv, [Next]_vars, NEW w \in Workers
    PROVE  JobMove(w)
<1>t. /\ row \in [Ids -> Row]
      /\ worker \in [Workers -> Worker]
      /\ \A x \in Workers : worker[x] \in Worker
  BY DEF TypeInv, TypeOK
<1>k. ASSUME worker' = worker PROVE JobMove(w)
  BY <1>k DEF JobMove
\* Steps of one worker that keep its job.
<1>s. ASSUME NEW v \in Workers, NEW u, worker' = [worker EXCEPT ![v] = u],
             worker[v].pc # "idle", u.job = worker[v].job
      PROVE  JobMove(w)
  BY <1>s, <1>t DEF JobMove
<1>f. ASSUME NEW v \in Workers, Finish(v) PROVE JobMove(w)
  BY <1>f, <1>t, IdleType DEF Finish, JobMove
<1>g. ASSUME NEW v \in Workers, NEW p, worker[v].pc # "idle", Goto(v, p) PROVE JobMove(w)
  <2>1. [worker[v] EXCEPT !.pc = p].job = worker[v].job
    BY <1>t, JobOps
  <2>2. worker' = [worker EXCEPT ![v] = [worker[v] EXCEPT !.pc = p]]
    BY <1>g DEF Goto
  <2> QED BY <1>g, <1>s, <2>1, <2>2
<1>a. ASSUME NEW v \in Workers, worker[v].pc # "idle", AfterFailure(v) PROVE JobMove(w)
  BY <1>a, <1>f, <1>g DEF AfterFailure
<1>1. ASSUME NEW v \in Workers, NEW i \in Ids, ClaimOutbox(v, i) PROVE JobMove(w)
  <2>1. CASE ~ TooOld(row[i]) /\ Claimable(row[i])
    <3> DEFINE u == [Idle EXCEPT !.job = i, !.pc = IF i \in DigestIds THEN "siblings" ELSE "deliver"]
    <3>1. worker' = [worker EXCEPT ![v] = u] /\ row'[i] = Claimed(row[i])
      BY <1>1, <1>t, <2>1 DEF ClaimOutbox
    <3>2. u.job = i
      BY IdleType, Zenon DEF Worker
    <3> HIDE DEF u
    <3> QED BY <1>t, <2>1, <3>1, <3>2 DEF JobMove
  <2>2. CASE ~ (~ TooOld(row[i]) /\ Claimable(row[i]))
    BY <1>1, <1>k, <2>2 DEF ClaimOutbox
  <2> QED BY <2>1, <2>2
<1>2. ASSUME NEW v \in Workers, ClaimSiblings(v) PROVE JobMove(w)
  <2>1. PICK S : worker' = [worker EXCEPT ![v].pc = "deliver", ![v].siblings = S]
    BY <1>2, Zenon DEF ClaimSiblings
  <2> DEFINE u == [worker[v] EXCEPT !.pc = "deliver", !.siblings = S]
  <2>2. u.job = worker[v].job
    BY <1>t, JobOps
  <2>3. worker' = [worker EXCEPT ![v] = u]
    BY <2>1
  <2> HIDE DEF u
  <2> QED BY <1>2, <1>s, <2>2, <2>3 DEF ClaimSiblings
<1>3. ASSUME NEW v \in Workers, Deliver(v) PROVE JobMove(w)
  <2>1. PICK r \in Results :
           worker' = [worker EXCEPT ![v] =
                        [worker[v] EXCEPT !.result = r,
                                          !.pc = IF IsForwardSuccess(r) THEN "sentLeader"
                                                 ELSE "failRead"]]
    BY <1>3 DEF Deliver
  <2>2. [worker[v] EXCEPT !.result = r,
                          !.pc = IF IsForwardSuccess(r) THEN "sentLeader" ELSE "failRead"].job
           = worker[v].job
    BY <1>t, JobOps
  <2> QED BY <1>3, <1>s, <2>1, <2>2 DEF Deliver
<1>4. ASSUME NEW v \in Workers, FinalizeLeader(v) PROVE JobMove(w)
  BY <1>4, <1>f, <1>g DEF FinalizeLeader
<1>5. ASSUME NEW v \in Workers, FinalizeSibling(v) PROVE JobMove(w)
  <2>1. PICK S : \/ Finish(v)
                 \/ worker' = [worker EXCEPT ![v] = [worker[v] EXCEPT !.siblings = S]]
    BY <1>5 DEF FinalizeSibling
  <2>2. [worker[v] EXCEPT !.siblings = S].job = worker[v].job
    BY <1>t, JobOps
  <2> QED BY <1>5, <1>f, <1>s, <2>1, <2>2 DEF FinalizeSibling
<1>6. ASSUME NEW v \in Workers, FailureRead(v) PROVE JobMove(w)
  <2> DEFINE r == row[worker[v].job]
             u == [worker[v] EXCEPT !.pc = "failWrite", !.seen = r.status, !.seenAttempts = r.attempts]
  <2>1. AfterFailure(v) \/ worker' = [worker EXCEPT ![v] = u]
    BY <1>6 DEF FailureRead
  <2>2. u.job = worker[v].job
    BY <1>t, JobOps
  <2> HIDE DEF u
  <2> QED BY <1>6, <1>a, <1>s, <2>1, <2>2 DEF FailureRead
<1>7. ASSUME NEW v \in Workers, FailureWrite(v) PROVE JobMove(w)
  BY <1>7, <1>a, <1>g DEF FailureWrite
<1>8. ASSUME NEW v \in Workers, NotifyExhausted(v) PROVE JobMove(w)
  BY <1>8, <1>a DEF NotifyExhausted
<1>9. ASSUME NEW v \in Workers, ParkSiblings(v) \/ Crash(v) PROVE JobMove(w)
  BY <1>9, <1>f DEF ParkSiblings, Crash
<1>10. ASSUME Tick PROVE JobMove(w)
  <2>1. worker'[w] = worker[w] \/ worker'[w] = [worker[w] EXCEPT !.hold = worker[w].hold + 1]
    BY <1>10 DEF Tick
  <2>2. /\ [worker[w] EXCEPT !.hold = worker[w].hold + 1].job = worker[w].job
        /\ [worker[w] EXCEPT !.hold = worker[w].hold + 1].pc = worker[w].pc
    BY <1>t, JobOps
  <2> QED BY <2>1, <2>2, Zenon DEF JobMove
<1> QED
  BY <1>k, <1>1, <1>2, <1>3, <1>4, <1>5, <1>6, <1>7, <1>8, <1>9, <1>10
     DEF Next, WorkerStep, vars, Create, TakeKick, DeliverNow, RunForwardOutboxScan, ScanStep,
         RequeueForwardOutbox, Redeliver

\* The rows of a step that leaves the operator's counter at zero.
LEMMA UntriedNext == TypeInv /\ Untried /\ [Next]_vars => Untried'
<1> SUFFICES ASSUME TypeInv, Untried, [Next]_vars, requeues' = 0 PROVE Untried'
  BY DEF Untried
<1>t. /\ row \in [Ids -> Row] /\ requeues \in Nat
      /\ \A i \in Ids : /\ row[i] \in Row /\ row[i].status \in Status
                        /\ row[i].attempts \in Nat /\ row[i].wait \in Nat /\ row[i].age \in Int
      /\ AttemptsCap \in Nat \ {0} /\ MaxAge \in Nat
  BY PolicyAssumption DEF TypeInv, TypeOK, Row, AttemptsCap
<1>1. requeues = 0 /\ \A i \in Ids : RowMove(i)
  BY <1>t, EveryMove
<1>u. /\ \A i \in Ids : row[i].status = "none" => row[i].attempts = 0
      /\ \A i \in Ids : row[i].status = "processing" => row[i].attempts > 0
      /\ \A w \in Workers : worker[w].pc # "idle" => row[worker[w].job].attempts > 0
      /\ \A i \in Ids : row[i].attempts = 0 /\ row[i].wait > 0 => row[i].age + row[i].wait <= 0
  BY <1>1 DEF Untried
\* Counts do not fall, and a claim makes one positive.
<1>2. ASSUME NEW i \in Ids
      PROVE  /\ row'[i].status = "none" => row'[i].attempts = 0
             /\ row[i].attempts > 0 => row'[i].attempts > 0
             /\ row'[i].status = "processing" => row'[i].attempts > 0
             /\ row'[i].attempts = 0 /\ row'[i].wait > 0 => row'[i].age + row'[i].wait <= 0
             /\ row'[i] = Claimed(row[i]) => row'[i].attempts > 0
  <2> DEFINE r == row[i]
             Good(q) == /\ q.status = "none" => q.attempts = 0
                        /\ r.attempts > 0 => q.attempts > 0
                        /\ q.status = "processing" => q.attempts > 0
                        /\ q.attempts = 0 /\ q.wait > 0 => q.age + q.wait <= 0
  <2>t. r \in Row /\ r.attempts \in Nat /\ r.status \in Status /\ r.wait \in Nat /\ r.age \in Int
    BY <1>t
  <2>u. /\ r.status = "none" => r.attempts = 0
        /\ r.status = "processing" => r.attempts > 0
        /\ r.attempts = 0 /\ r.wait > 0 => r.age + r.wait <= 0
    BY <1>u
  <2>1. Claimed(r).attempts > 0 /\ Good(Claimed(r))
    <3>1. /\ Claimed(r).status = "processing"
          /\ Claimed(r).attempts = (IF r.attempts < AttemptsCap THEN r.attempts + 1 ELSE r.attempts)
      BY <2>t, RowOps, RowFields, 0 \in Nat
    <3>2. Claimed(r).attempts > 0
      BY <1>t, <2>t, <3>1
    <3> QED BY <3>1, <3>2
  <2>2. Good(r)
    BY <2>u
  <2>3. r.status = "none" => Good(NewRow(i))
    <3>1. NewRow(i).status = "pending" /\ NewRow(i).age + NewRow(i).wait <= 0
      BY PolicyAssumption DEF NewRow
    <3> QED BY <2>t, <2>u, <3>1
  <2>4. Good(Expired(r)) /\ Good(Sent(r)) /\ Good(Exhausted(r)) /\ Good(RecoveredStale(r))
    <3>1. /\ Expired(r).status = "expired" /\ Sent(r).status = "sent"
          /\ Exhausted(r).status = "exhausted" /\ RecoveredStale(r).status = "retrying"
      BY <2>t, RowOps, 0 \in Nat
    <3>2. /\ Expired(r).attempts = r.attempts /\ Expired(r).wait = 0
          /\ Sent(r).attempts = r.attempts /\ Sent(r).wait = r.wait /\ Sent(r).age = r.age
          /\ Exhausted(r).attempts = r.attempts /\ Exhausted(r).wait = 0
          /\ RecoveredStale(r).attempts = r.attempts /\ RecoveredStale(r).wait = 0
      BY <2>t, RowFields, 0 \in Nat
    <3> QED BY <2>u, <3>1, <3>2
  <2>5. r.status = "processing" => \A n \in Nat : Good(Parked(r, n))
    BY <2>t, <2>u, RowOps, RowFields
  <2>6. ASSUME NEW w \in Workers, NEW s \in {"retrying", r.status}, NEW n \in Nat,
               worker[w].pc = "failWrite", worker[w].job = i
        PROVE  Good(Retried(r, s, n))
    <3>1. r.attempts > 0 /\ r.status # "none"
      BY <1>u, <2>6, <2>u
    <3>2. s \in Status /\ s # "none"
      BY <3>1, <2>t DEF Status, Active
    <3> QED BY <2>t, <3>1, <3>2, RowFields
  <2>7. Good(Aged(r))
    <3> DEFINE q == Aged(r)
    <3>1. /\ q.status = r.status /\ q.attempts = r.attempts
          /\ q.wait = (IF r.wait > 0 THEN r.wait - 1 ELSE r.wait)
          /\ q.age = (IF r.status # "none" /\ r.age <= MaxAge THEN r.age + 1 ELSE r.age)
      BY <2>t, AgedFields
    <3> HIDE DEF q
    <3>2. ASSUME q.attempts = 0, q.wait > 0 PROVE q.age + q.wait <= 0
      <4>1. r.age + r.wait <= 0 /\ q.wait = r.wait - 1 /\ q.age <= r.age + 1
        BY <2>t, <2>u, <3>1, <3>2, <1>t
      <4>2. r.age \in Int /\ r.wait \in Int
        BY <2>t
      <4>3. q.age \in Int /\ q.wait \in Int
        BY <3>1, <4>1, <4>2
      <4>4. \A a, b, c, d \in Int : a + b <= 0 /\ c <= a + 1 /\ d = b - 1 => c + d <= 0
        OBVIOUS
      <4> QED BY <4>1, <4>2, <4>3, <4>4, Zenon
    <3> QED BY <2>u, <3>1, <3>2 DEF q
  <2> HIDE DEF r, Good
  <2>8. Good(row'[i])
    BY <1>1, <2>1, <2>2, <2>3, <2>4, <2>5, <2>6, <2>7 DEF RowMove, r
  <2> QED BY <2>1, <2>8 DEF Good, r
<1>3. ASSUME NEW w \in Workers, worker'[w].pc # "idle" PROVE row'[worker'[w].job].attempts > 0
  <2>1. worker'[w].job \in Ids
    BY <1>3, TypeNext DEF TypeInv, JobOK
  <2>2. CASE worker[w].pc # "idle" /\ worker'[w].job = worker[w].job
    BY <1>2, <1>u, <2>1, <2>2
  <2>3. CASE \E i \in Ids : worker'[w].job = i /\ Claimable(row[i]) /\ row'[i] = Claimed(row[i])
    BY <1>2, <2>3
  <2> QED BY <1>3, <2>2, <2>3, EveryJob DEF JobMove
<1> QED BY <1>2, <1>3 DEF Untried

\* A row that was never tried is not expired while it waits for the end of its
\* digest window, whatever the workers, the scan and the crashes do: its age counts
\* from the end of that window.
THEOREM UndueNotExpired == Spec => NeverExpiredUndue
<1>1. Init => TypeInv /\ Untried
  <2>1. Init => Untried
    BY IdleType DEF Init, Untried, NoRow
  <2> QED BY <2>1, TypeInit
<1>2. TypeInv /\ Untried /\ [Next]_vars => (TypeInv /\ Untried)'
  BY TypeNext, UntriedNext
<1>3. ASSUME TypeInv, Untried, [Next]_vars, NEW i \in Ids, row[i].status # "expired",
             row'[i].status = "expired", row[i].attempts = 0, requeues = 0
      PROVE  row[i].wait = 0
  <2>t. /\ row[i] \in Row /\ row[i].wait \in Nat /\ row[i].age \in Int /\ MaxAge \in Nat
        /\ row[i].status \in Status
    BY <1>3, PolicyAssumption DEF TypeInv, TypeOK, Row
  <2>1. TooOld(row[i])
    <3>1. CASE RowMove(i)
      <4>1. /\ \A n \in Nat : Parked(row[i], n).status = "pending"
            /\ Claimed(row[i]).status = "processing" /\ Sent(row[i]).status = "sent"
            /\ Exhausted(row[i]).status = "exhausted"
            /\ RecoveredStale(row[i]).status = "retrying"
            /\ NewRow(i).status = "pending" /\ Aged(row[i]).status = row[i].status
        BY <2>t, RowOps, NewRowType, AgedFields, 0 \in Nat
      <4>2. \A n \in Nat, s \in {"retrying", row[i].status} : Retried(row[i], s, n).status # "expired"
        <5>1. \A s \in {"retrying", row[i].status} : s \in Status /\ s # "expired"
          BY <1>3, <2>t DEF Status, Active
        <5> QED BY <2>t, <5>1, RowFields
      <4> QED BY <1>3, <3>1, <4>1, <4>2 DEF RowMove
    <3>2. CASE \E j \in Ids : RequeueForwardOutbox(j)
      <4>1. PICK j \in Ids : row' = [row EXCEPT ![j] = Requeued(row[j])]
        BY <3>2 DEF RequeueForwardOutbox
      <4>2. \A k \in Ids : row[k] \in Row
        BY <1>3 DEF TypeInv, TypeOK
      <4>3. row'[i] = row[i] \/ row'[i].status = "retrying"
        BY <4>1, <4>2, RowOps, 0 \in Nat, <1>3 DEF TypeInv, TypeOK
      <4> QED BY <1>3, <4>3
    <3> QED BY <1>3, <3>1, <3>2, EveryMove
  <2>2. row[i].wait > 0 => row[i].age + row[i].wait <= 0
    BY <1>3 DEF Untried
  <2> QED BY <2>t, <2>1, <2>2 DEF TooOld
<1>4. TypeInv /\ Untried /\ [Next]_vars =>
        [\A i \in Ids : row[i].status # "expired" /\ row'[i].status = "expired"
                        /\ row[i].attempts = 0 /\ requeues = 0 => row[i].wait = 0]_vars
  BY <1>3
<1> QED BY <1>1, <1>2, <1>4, PTL DEF Spec, NeverExpiredUndue

-----------------------------------------------------------------------------
(* A sent row was accepted *)

\* A worker on the success path has had its whole message accepted.
Confirmed ==
    \A w \in Workers :
        /\ worker[w].pc = "sentLeader" => worker[w].job \in accepted
        /\ worker[w].pc \in {"sentLeader", "sentSiblings"} => worker[w].siblings \subseteq accepted

\* A step that puts one worker in a state that needs no confirmation, or has it.
LEMMA ConfirmedSet ==
    ASSUME TypeInv, Confirmed, accepted \subseteq accepted', NEW w \in Workers, NEW u,
           worker' = [worker EXCEPT ![w] = u],
           \/ u.pc \notin {"sentLeader", "sentSiblings"}
           \/ u.pc = "sentLeader" /\ {u.job} \cup u.siblings \subseteq accepted'
           \/ u.pc = "sentSiblings" /\ u.siblings \subseteq accepted'
    PROVE  Confirmed'
<1>1. worker'[w] = u /\ \A v \in Workers : v # w => worker'[v] = worker[v]
  BY DEF TypeInv, TypeOK
<1>2. ASSUME NEW v \in Workers
      PROVE  /\ worker'[v].pc = "sentLeader" => worker'[v].job \in accepted'
             /\ worker'[v].pc \in {"sentLeader", "sentSiblings"} =>
                   worker'[v].siblings \subseteq accepted'
  <2>1. CASE v = w
    BY <1>1, <2>1
  <2>2. CASE v # w
    BY <1>1, <2>2 DEF Confirmed
  <2> QED BY <2>1, <2>2
<1> QED BY <1>2 DEF Confirmed

\* A worker that finishes, parks, notifies or dies has nothing to confirm.
LEMMA ConfirmedEnd ==
    ASSUME TypeInv, Confirmed, accepted \subseteq accepted', NEW w \in Workers,
           \/ Finish(w) \/ AfterFailure(w)
           \/ \E p \in {"park", "notify", "failWrite"} : Goto(w, p)
    PROVE  Confirmed'
<1>1. CASE Finish(w)
  BY <1>1, ConfirmedSet, IdleType DEF Finish
<1>2. ASSUME NEW p \in {"park", "notify", "failWrite"}, Goto(w, p) PROVE Confirmed'
  <2> DEFINE u == [worker[w] EXCEPT !.pc = p]
  <2>1. worker[w] \in Worker /\ p \in PC
    BY DEF TypeInv, TypeOK, PC
  <2>2. u.pc = p
    BY <2>1, PcUpdate
  <2>3. worker' = [worker EXCEPT ![w] = u]
    BY <1>2 DEF Goto
  <2> HIDE DEF u
  <2> QED BY <2>2, <2>3, ConfirmedSet
<1> QED BY <1>1, <1>2 DEF AfterFailure

\* Every step keeps what is confirmed.
LEMMA ConfirmedNext == TypeInv /\ Confirmed /\ [Next]_vars => Confirmed'
<1> SUFFICES ASSUME TypeInv, Confirmed, [Next]_vars PROVE Confirmed'
  OBVIOUS
<1>r. /\ worker \in [Workers -> Worker]
      /\ \A v \in Workers : worker[v] \in Worker
  BY DEF TypeInv, TypeOK
<1>k. ASSUME UNCHANGED <<worker, accepted>> PROVE Confirmed'
  BY <1>k DEF Confirmed
<1>1. ASSUME NEW w \in Workers, NEW i \in Ids, ClaimOutbox(w, i) PROVE Confirmed'
  <2>1. CASE ~ TooOld(row[i]) /\ Claimable(row[i])
    <3> DEFINE p == IF i \in DigestIds THEN "siblings" ELSE "deliver"
               u == [Idle EXCEPT !.job = i, !.pc = p]
    <3>1. worker' = [worker EXCEPT ![w] = u] /\ accepted' = accepted
      BY <1>1, <2>1 DEF ClaimOutbox
    <3>2. u.pc = p
      BY IdleType, Zenon DEF Worker
    <3> HIDE DEF u
    <3> QED BY <3>1, <3>2, ConfirmedSet
  <2>2. CASE ~ (~ TooOld(row[i]) /\ Claimable(row[i]))
    BY <1>1, <1>k, <2>2 DEF ClaimOutbox
  <2> QED BY <2>1, <2>2
<1>2. ASSUME NEW w \in Workers, ClaimSiblings(w) PROVE Confirmed'
  <2>1. PICK S : worker' = [worker EXCEPT ![w].pc = "deliver", ![w].siblings = S]
    BY <1>2, Zenon DEF ClaimSiblings
  <2> DEFINE u == [worker[w] EXCEPT !.pc = "deliver", !.siblings = S]
  <2>2. u.pc = "deliver"
    <3>1. worker[w] \in Worker
      BY <1>r
    <3> QED BY <3>1, Zenon DEF Worker
  <2>3. worker' = [worker EXCEPT ![w] = u]
    BY <2>1
  <2>4. accepted' = accepted
    BY <1>2 DEF ClaimSiblings
  <2> HIDE DEF u
  <2> QED BY <2>2, <2>3, <2>4, ConfirmedSet
<1>3. ASSUME NEW w \in Workers, Deliver(w) PROVE Confirmed'
  <2>1. PICK x \in Results :
          /\ accepted' = IF x \in {"success", "pending"}
                           THEN accepted \cup ({worker[w].job} \cup worker[w].siblings)
                           ELSE accepted
          /\ worker' = [worker EXCEPT ![w].result = x,
                          ![w].pc = IF IsForwardSuccess(x) THEN "sentLeader" ELSE "failRead"]
    BY <1>3 DEF Deliver
  <2> DEFINE p == IF IsForwardSuccess(x) THEN "sentLeader" ELSE "failRead"
             u == [worker[w] EXCEPT !.result = x, !.pc = p]
  <2>2. u.pc = p /\ u.job = worker[w].job /\ u.siblings = worker[w].siblings
    BY <1>r, Zenon DEF Worker
  <2>3. worker' = [worker EXCEPT ![w] = u]
    BY <2>1
  <2> HIDE DEF u
  <2>4. \/ p = "failRead" /\ accepted \subseteq accepted'
        \/ /\ p = "sentLeader" /\ accepted \subseteq accepted'
           /\ {worker[w].job} \cup worker[w].siblings \subseteq accepted'
    BY <2>1 DEF IsForwardSuccess
  <2> QED BY <2>2, <2>3, <2>4, ConfirmedSet
<1>4. ASSUME NEW w \in Workers, FinalizeLeader(w) PROVE Confirmed'
  <2>1. CASE Finish(w)
    BY <1>4, <2>1, ConfirmedEnd DEF FinalizeLeader
  <2>2. CASE Goto(w, "sentSiblings")
    <3> DEFINE u == [worker[w] EXCEPT !.pc = "sentSiblings"]
    <3>1. u.pc = "sentSiblings" /\ u.siblings = worker[w].siblings
      BY <1>r, PcUpdate, "sentSiblings" \in PC DEF PC
    <3>2. worker' = [worker EXCEPT ![w] = u] /\ accepted' = accepted
      BY <1>4, <2>2 DEF Goto, FinalizeLeader
    <3>3. worker[w].siblings \subseteq accepted
      BY <1>4 DEF FinalizeLeader, Confirmed
    <3> HIDE DEF u
    <3> QED BY <3>1, <3>2, <3>3, ConfirmedSet
  <2> QED BY <1>4, <2>1, <2>2 DEF FinalizeLeader
<1>5. ASSUME NEW w \in Workers, FinalizeSibling(w) PROVE Confirmed'
  <2>1. PICK s \in worker[w].siblings :
          Finish(w) \/ worker' = [worker EXCEPT ![w] =
                                    [worker[w] EXCEPT !.siblings = worker[w].siblings \ {s}]]
    BY <1>5 DEF FinalizeSibling
  <2> DEFINE u == [worker[w] EXCEPT !.siblings = worker[w].siblings \ {s}]
  <2>2. u.pc = "sentSiblings" /\ u.siblings = worker[w].siblings \ {s}
    <3>1. worker[w].pc = "sentSiblings"
      BY <1>5 DEF FinalizeSibling
    <3> QED BY <1>r, <3>1, Zenon DEF Worker
  <2>3. worker[w].siblings \subseteq accepted /\ accepted' = accepted
    BY <1>5 DEF FinalizeSibling, Confirmed
  <2>4. CASE worker' = [worker EXCEPT ![w] = u]
    <3> HIDE DEF u
    <3> QED BY <2>2, <2>3, <2>4, ConfirmedSet
  <2> QED BY <2>1, <2>3, <2>4, ConfirmedEnd
<1>6. ASSUME NEW w \in Workers, FailureRead(w) PROVE Confirmed'
  <2> DEFINE r == row[worker[w].job]
             u == [worker[w] EXCEPT !.pc = "failWrite", !.seen = r.status,
                                    !.seenAttempts = r.attempts]
  <2>1. /\ accepted' = accepted
        /\ AfterFailure(w) \/ worker' = [worker EXCEPT ![w] = u]
    BY <1>6 DEF FailureRead
  <2>2. u.pc = "failWrite"
    BY <1>r, Zenon DEF Worker
  <2> HIDE DEF u
  <2> QED BY <2>1, <2>2, ConfirmedSet, ConfirmedEnd
<1>7. ASSUME NEW w \in Workers,
             FailureWrite(w) \/ NotifyExhausted(w) \/ ParkSiblings(w) \/ Crash(w)
      PROVE  Confirmed'
  BY <1>7, ConfirmedEnd DEF FailureWrite, NotifyExhausted, ParkSiblings, Crash
<1>8. ASSUME Tick PROVE Confirmed'
  <2>1. ASSUME NEW v \in Workers
        PROVE  /\ worker'[v].pc = worker[v].pc /\ worker'[v].job = worker[v].job
               /\ worker'[v].siblings = worker[v].siblings
    <3>1. \/ worker'[v] = worker[v]
          \/ worker'[v] = [worker[v] EXCEPT !.hold = worker[v].hold + 1]
      BY <1>8 DEF Tick
    <3>2. worker[v] \in Worker
      BY <1>r
    <3>3. /\ [worker[v] EXCEPT !.hold = worker[v].hold + 1].pc = worker[v].pc
          /\ [worker[v] EXCEPT !.hold = worker[v].hold + 1].job = worker[v].job
          /\ [worker[v] EXCEPT !.hold = worker[v].hold + 1].siblings = worker[v].siblings
      BY <3>2, Zenon DEF Worker
    <3> QED BY <3>1, <3>3, Zenon
  <2>2. accepted' = accepted
    BY <1>8 DEF Tick
  <2> QED BY <2>1, <2>2 DEF Confirmed
<1> QED
  BY <1>k, <1>1, <1>2, <1>3, <1>4, <1>5, <1>6, <1>7, <1>8
     DEF Next, WorkerStep, vars, Create, TakeKick, DeliverNow, RunForwardOutboxScan, ScanStep,
         RequeueForwardOutbox, Redeliver

\* What the remote end has accepted stays accepted.
LEMMA AcceptedGrows ==
    ASSUME TypeInv, [Next]_vars
    PROVE  accepted \subseteq accepted'
BY DEF Next, WorkerStep, vars, Create, TakeKick, DeliverNow, ClaimOutbox, ClaimSiblings, Deliver,
       FinalizeLeader, FinalizeSibling, FailureRead, FailureWrite, NotifyExhausted, ParkSiblings,
       RunForwardOutboxScan, ScanStep, RequeueForwardOutbox, Redeliver, Crash, Tick

\* The status of a row after each update that does not mark it sent.
LEMMA MoveStatus ==
    ASSUME NEW i \in Ids, row[i] \in Row
    PROVE  /\ NewRow(i).status = "pending"
           /\ Claimed(row[i]).status = "processing"
           /\ Expired(row[i]).status = "expired"
           /\ Sent(row[i]).status = "sent"
           /\ Exhausted(row[i]).status = "exhausted"
           /\ RecoveredStale(row[i]).status = "retrying"
           /\ Requeued(row[i]).status = "retrying"
           /\ Aged(row[i]).status = row[i].status
           /\ \A n \in Nat : Parked(row[i], n).status = "pending"
           /\ \A n \in Nat, s \in {"retrying", row[i].status} : Retried(row[i], s, n).status = s
<1>1. \A n \in Nat, s \in {"retrying", row[i].status} : Retried(row[i], s, n).status = s
  <2>1. {"retrying", row[i].status} \subseteq Status
    BY DEF Row, Status, Active
  <2> QED BY <2>1, RowFields
<1>2. \A n \in Nat : Parked(row[i], n).status = "pending"
  BY RowOps
<1> QED BY <1>1, <1>2, NewRowType, RowOps, AgedFields, 0 \in Nat

\* Only the success finalizer of a worker that has the row makes it "sent".
LEMMA BecomesSent ==
    ASSUME TypeInv, [Next]_vars, NEW i \in Ids, row'[i].status = "sent", row[i].status # "sent"
    PROVE  \E w \in Workers : Marks(w, i)
<1>t. row \in [Ids -> Row] /\ row[i] \in Row
  BY DEF TypeInv, TypeOK
<1>1. CASE RowMove(i)
  BY <1>t, <1>1, MoveStatus DEF RowMove
<1>2. CASE \E j \in Ids : RequeueForwardOutbox(j)
  <2>1. PICK j \in Ids : row' = [row EXCEPT ![j] = Requeued(row[j])]
    BY <1>2 DEF RequeueForwardOutbox
  <2>2. row'[i] = row[i] \/ row'[i] = Requeued(row[i])
    BY <1>t, <2>1
  <2> QED BY <1>t, <2>2, MoveStatus
<1> QED BY <1>1, <1>2, EveryMove

\* A row that is marked sent was accepted by the remote end, for any rows, workers
\* and faults: no hypothesis.
THEOREM SentMeansAccepted == Spec => []SentWasAccepted
<1>1. Init => TypeInv /\ Confirmed /\ SentWasAccepted
  <2>1. Init => Confirmed /\ SentWasAccepted
    BY IdleType DEF Init, Confirmed, SentWasAccepted, NoRow
  <2> QED BY <2>1, TypeInit
<1>2. TypeInv /\ Confirmed /\ SentWasAccepted /\ [Next]_vars =>
        (TypeInv /\ Confirmed /\ SentWasAccepted)'
  <2> SUFFICES ASSUME TypeInv, Confirmed, SentWasAccepted, [Next]_vars
               PROVE  (TypeInv /\ Confirmed /\ SentWasAccepted)'
    OBVIOUS
  <2>1. ASSUME NEW i \in Ids, row'[i].status = "sent" PROVE i \in accepted'
    <3>1. CASE row[i].status = "sent"
      BY <3>1, AcceptedGrows DEF SentWasAccepted
    <3>2. CASE row[i].status # "sent"
      <4>1. PICK w \in Workers : Marks(w, i)
        BY <2>1, <3>2, BecomesSent
      <4>2. i \in accepted
        BY <4>1 DEF Marks, Confirmed
      <4> QED BY <4>2, AcceptedGrows
    <3> QED BY <3>1, <3>2
  <2> QED BY <2>1, TypeNext, ConfirmedNext DEF SentWasAccepted
<1> QED BY <1>1, <1>2, PTL DEF Spec

-----------------------------------------------------------------------------
(* The events of a row tell what became of it *)

\* A step that settles no row and writes no event.
LEMMA EventKeep ==
    ASSUME EventAgrees, forwardStatus' = forwardStatus,
           \A i \in Ids : row'[i].status \in {"sent", "exhausted"} =>
                            row[i].status = row'[i].status
    PROVE  EventAgrees'
BY DEF EventAgrees

\* A step that settles the rows S and writes their events.
LEMMA EventMark ==
    ASSUME TypeInv, EventAgrees, NEW S \in SUBSET Ids, NEW x \in {"sent", "failed"},
           forwardStatus' = Marked(S, x),
           \A i \in S : row'[i].status = (IF x = "sent" THEN "sent" ELSE "exhausted"),
           \A i \in Ids \ S : row'[i].status \in {"sent", "exhausted"} =>
                                row[i].status = row'[i].status
    PROVE  EventAgrees'
<1> SUFFICES ASSUME NEW i \in Ids, NEW e \in EventsOf[i],
                    \A j \in Ids \ {i} : e \notin EventsOf[j]
             PROVE  /\ row'[i].status = "sent" => forwardStatus'[e] = "sent"
                    /\ row'[i].status = "exhausted" => forwardStatus'[e] = "failed"
  BY DEF EventAgrees
<1>1. e \in Events
  BY IdsAssumption
<1>2. forwardStatus'[e] = IF \E k \in S : e \in EventsOf[k] THEN x ELSE forwardStatus[e]
  BY <1>1 DEF Marked
<1>3. CASE i \in S
  <2>1. forwardStatus'[e] = x
    BY <1>2, <1>3
  <2>2. row'[i].status = (IF x = "sent" THEN "sent" ELSE "exhausted")
    BY <1>3
  <2> QED BY <2>1, <2>2
<1>4. CASE i \notin S
  <2>1. forwardStatus'[e] = forwardStatus[e]
    BY <1>2, <1>4
  <2>2. /\ row[i].status = "sent" => forwardStatus[e] = "sent"
        /\ row[i].status = "exhausted" => forwardStatus[e] = "failed"
    BY DEF EventAgrees
  <2> QED BY <1>4, <2>1, <2>2
<1> QED BY <1>3, <1>4

\* The success finalizer of a row that its worker holds.
LEMMA EventMarkSent ==
    ASSUME TypeInv, EventAgrees, NEW w \in Workers, NEW i \in Ids, MarkSent(w, i),
           row[i].status = "processing"
    PROVE  EventAgrees'
<1>r. row \in [Ids -> Row] /\ row[i] \in Row
  BY DEF TypeInv, TypeOK
<1>1. row' = [row EXCEPT ![i] = Sent(row[i])] /\ forwardStatus' = Marked({i}, "sent")
  BY DEF MarkSent, Terminal
<1>2. row'[i].status = "sent" /\ \A j \in Ids \ {i} : row'[j] = row[j]
  BY <1>r, <1>1, MoveStatus
<1> QED BY <1>1, <1>2, EventMark, {i} \in SUBSET Ids

\* Under the lease every step keeps rows and events in agreement.
LEMMA EventNext ==
    ASSUME TypeInv, LeaseInv, EventAgrees, [Next]_vars
    PROVE  EventAgrees'
<1>r. /\ row \in [Ids -> Row] /\ worker \in [Workers -> Worker]
      /\ \A j \in Ids : row[j] \in Row
      /\ \A w \in Workers : worker[w].pc # "idle" => worker[w].job \in Ids
  BY DEF TypeInv, TypeOK, JobOK
<1>h. \A w \in Workers : \A i \in Held(worker[w]) : row[i].status = "processing"
  BY DEF LeaseInv, Holds
<1>s. /\ \A i \in Ids : /\ NewRow(i).status = "pending"
                        /\ Claimed(row[i]).status = "processing"
                        /\ Expired(row[i]).status = "expired"
                        /\ Exhausted(row[i]).status = "exhausted"
                        /\ RecoveredStale(row[i]).status = "retrying"
                        /\ Requeued(row[i]).status = "retrying"
                        /\ Aged(row[i]).status = row[i].status
      /\ \A i \in Ids, n \in Nat : Parked(row[i], n).status = "pending"
      /\ \A i \in Ids : \A n \in Nat, s \in {"retrying", row[i].status} :
            Retried(row[i], s, n).status = s
  BY <1>r, MoveStatus
<1>k. ASSUME UNCHANGED <<row, forwardStatus>> PROVE EventAgrees'
  BY <1>k, EventKeep
<1>1. ASSUME NEW S \in SUBSET Ids, row' = Created(S), forwardStatus' = forwardStatus
      PROVE  EventAgrees'
  <2>1. \A i \in Ids : row'[i] = row[i] \/ row'[i] = NewRow(i)
    BY <1>1 DEF Created
  <2> QED BY <1>1, <1>s, <2>1, EventKeep
<1>2. ASSUME NEW w \in Workers, NEW i \in Ids, ClaimOutbox(w, i) PROVE EventAgrees'
  <2>1. \A j \in Ids : row'[j] = row[j] \/ row'[j] \in {Claimed(row[j]), Expired(row[j])}
    BY <1>2, <1>r DEF ClaimOutbox
  <2>2. forwardStatus' = forwardStatus
    BY <1>2 DEF ClaimOutbox
  <2> QED BY <1>s, <2>1, <2>2, EventKeep
<1>3. ASSUME NEW w \in Workers, ClaimSiblings(w) PROVE EventAgrees'
  <2>1. \A j \in Ids : row'[j] = row[j] \/ row'[j] = Claimed(row[j])
    BY <1>3 DEF ClaimSiblings
  <2>2. forwardStatus' = forwardStatus
    BY <1>3 DEF ClaimSiblings
  <2> QED BY <1>s, <2>1, <2>2, EventKeep
<1>4. ASSUME NEW w \in Workers, FinalizeLeader(w) PROVE EventAgrees'
  <2>1. worker[w].job \in Ids /\ worker[w].job \in Held(worker[w])
    BY <1>4, <1>r DEF FinalizeLeader, Held
  <2> QED BY <1>4, <1>h, <2>1, EventMarkSent DEF FinalizeLeader
<1>5. ASSUME NEW w \in Workers, FinalizeSibling(w) PROVE EventAgrees'
  <2>1. PICK s \in worker[w].siblings : MarkSent(w, s)
    BY <1>5 DEF FinalizeSibling
  <2>2. s \in Ids /\ s \in Held(worker[w])
    BY <1>5, <1>r DEF FinalizeSibling, Worker, Held
  <2> QED BY <1>h, <2>1, <2>2, EventMarkSent
<1>6. ASSUME NEW w \in Workers, FailureWrite(w) PROVE EventAgrees'
  <2> DEFINE i == worker[w].job
  <2>1. i \in Ids
    BY <1>6, <1>r DEF FailureWrite
  <2>2. CASE GivesUp(w)
    <3>1. row' = [row EXCEPT ![i] = Exhausted(row[i])] /\ forwardStatus' = Marked({i}, "failed")
      BY <1>6, <2>2 DEF FailureWrite
    <3> HIDE DEF i
    <3>2. row'[i].status = "exhausted" /\ \A j \in Ids \ {i} : row'[j] = row[j]
      BY <1>r, <1>s, <2>1, <3>1
    <3> QED BY <2>1, <3>1, <3>2, EventMark, {i} \in SUBSET Ids
  <2>3. CASE ~ GivesUp(w)
    <3> DEFINE st == IF worker[w].seen = "retrying" THEN row[i].status ELSE "retrying"
               n == RetryDelay[worker[w].seenAttempts]
    <3>1. row' = [row EXCEPT ![i] = Retried(row[i], st, n)] /\ forwardStatus' = forwardStatus
      BY <1>6, <2>3 DEF FailureWrite, Retried
    <3>2. n \in Nat /\ st \in {"retrying", row[i].status}
      <4>1. worker[w].seenAttempts \in 0 .. MaxAttempts + 1
        BY <1>r DEF Worker, AttemptsCap
      <4> QED BY <4>1, PolicyAssumption
    <3> HIDE DEF i, st, n
    <3>3. row'[i].status = st /\ \A j \in Ids \ {i} : row'[j] = row[j]
      BY <1>r, <1>s, <2>1, <3>1, <3>2
    <3>4. \A j \in Ids : row'[j].status \in {"sent", "exhausted"} => row[j].status = row'[j].status
      BY <3>2, <3>3
    <3> QED BY <3>1, <3>4, EventKeep
  <2> QED BY <2>2, <2>3
<1>7. ASSUME NEW w \in Workers, NotifyExhausted(w) PROVE EventAgrees'
  <2>1. NoticeFor[worker[w].job] \in SUBSET Ids
    BY <1>7, <1>r, IdsAssumption DEF NotifyExhausted
  <2> QED BY <1>7, <1>1, <1>k, <2>1 DEF NotifyExhausted
<1>8. ASSUME NEW w \in Workers, ParkSiblings(w) PROVE EventAgrees'
  <2> DEFINE S == worker[w].siblings
  <2>1. S \in SUBSET Ids /\ \A j \in S : row[j].status = "processing"
    <3>1. S \in SUBSET Ids
      BY <1>r DEF Worker
    <3> QED BY <1>8, <1>h, <3>1 DEF ParkSiblings, Held
  <2>2. CASE row[worker[w].job].status = "retrying"
    <3>1. row[worker[w].job].wait \in Nat
      BY <1>8, <1>r DEF ParkSiblings, Row
    <3>2. \A j \in Ids : row'[j] = row[j] \/ row'[j] = Parked(row[j], row[worker[w].job].wait)
      BY <1>8, <2>2 DEF ParkSiblings
    <3>3. forwardStatus' = forwardStatus
      BY <1>8, <2>2 DEF ParkSiblings
    <3> QED BY <1>s, <3>1, <3>2, <3>3, EventKeep
  <2>3. CASE row[worker[w].job].status # "retrying"
    <3>1. /\ \A j \in S : row'[j] = Exhausted(row[j])
          /\ \A j \in Ids \ S : row'[j] = row[j]
      BY <1>8, <2>1, <2>3 DEF ParkSiblings
    <3>2. forwardStatus' = Marked(S, "failed")
      BY <1>8, <2>3 DEF ParkSiblings
    <3> HIDE DEF S
    <3>3. \A j \in S : row'[j].status = "exhausted"
      BY <1>s, <2>1, <3>1
    <3> QED BY <2>1, <3>1, <3>2, <3>3, EventMark
  <2> QED BY <2>2, <2>3
<1>9. ASSUME RunForwardOutboxScan PROVE EventAgrees'
  <2>1. \A j \in Ids : row'[j] = row[j] \/ row'[j] \in {Expired(row[j]), RecoveredStale(row[j])}
    BY <1>9 DEF RunForwardOutboxScan, ScanStep
  <2>2. forwardStatus' = forwardStatus
    BY <1>9 DEF RunForwardOutboxScan, ScanStep
  <2> QED BY <1>s, <2>1, <2>2, EventKeep
<1>10. ASSUME NEW i \in Ids, RequeueForwardOutbox(i) PROVE EventAgrees'
  <2>1. \A j \in Ids : row'[j] = row[j] \/ row'[j] = Requeued(row[j])
    BY <1>10, <1>r DEF RequeueForwardOutbox
  <2>2. forwardStatus' = forwardStatus
    BY <1>10 DEF RequeueForwardOutbox
  <2> QED BY <1>s, <2>1, <2>2, EventKeep
<1>11. ASSUME Tick PROVE EventAgrees'
  <2>1. row' = [i \in Ids |-> Aged(row[i])] /\ forwardStatus' = forwardStatus
    BY <1>11, Zenon DEF Tick, Aged
  <2> QED BY <1>s, <2>1, EventKeep
<1>12. ASSUME NEW i \in Ids, Create(i) PROVE EventAgrees'
  BY <1>1, <1>12, {i} \in SUBSET Ids DEF Create
<1> QED
  BY <1>k, <1>2, <1>3, <1>4, <1>5, <1>6, <1>7, <1>8, <1>9, <1>10, <1>11, <1>12
     DEF Next, WorkerStep, vars, TakeKick, DeliverNow, Deliver, FailureRead, Redeliver, Crash

\* With short deliveries the events of a row tell what became of it, for every
\* assignment of events to rows: the row and its events are written in one
\* transaction, and only by the worker that holds the row.
THEOREM EventsAgree ==
    ASSUME ShortDeliveries
    PROVE  Spec => []EventAgrees
<1>1. Init => TypeInv /\ LeaseInv /\ EventAgrees
  <2>1. Init => EventAgrees
    BY DEF Init, EventAgrees, NoRow
  <2> QED BY <2>1, TypeInit, LeaseInit
<1>2. TypeInv /\ LeaseInv /\ EventAgrees /\ [Next]_vars => (TypeInv /\ LeaseInv /\ EventAgrees)'
  BY TypeNext, LeaseNext, EventNext
<1> QED BY <1>1, <1>2, PTL DEF Spec

-----------------------------------------------------------------------------
(* No claimed row is left behind *)

\* Every row in "processing" is in somebody's hands.
Handled == \A i \in Ids : row[i].status = "processing" => \E w \in Workers : i \in Held(worker[w])

\* A step of worker w after which a row is "processing" only if w has it, or if it
\* was before and w had not.
LEMMA HandledSet ==
    ASSUME TypeInv, Handled, NEW w \in Workers, NEW u, worker' = [worker EXCEPT ![w] = u],
           \A i \in Ids : row'[i].status = "processing" =>
              \/ i \in Held(u)
              \/ row[i].status = "processing" /\ i \notin Held(worker[w])
    PROVE  Handled'
<1>1. worker'[w] = u /\ \A v \in Workers : v # w => worker'[v] = worker[v]
  BY DEF TypeInv, TypeOK
<1>2. ASSUME NEW i \in Ids, row'[i].status = "processing"
      PROVE  \E v \in Workers : i \in Held(worker'[v])
  <2>1. CASE i \in Held(u)
    BY <1>1, <2>1
  <2>2. CASE row[i].status = "processing" /\ i \notin Held(worker[w])
    <3>1. PICK v \in Workers : i \in Held(worker[v])
      BY <2>2 DEF Handled
    <3> QED BY <1>1, <2>2, <3>1
  <2> QED BY <1>2, <2>1, <2>2
<1> QED BY <1>2 DEF Handled, Held

\* A step of no worker.
LEMMA HandledRows ==
    ASSUME Handled, worker' = worker,
           \A i \in Ids : row'[i].status = "processing" => row[i].status = "processing"
    PROVE  Handled'
BY DEF Handled, Held

\* The worker is done, and all it held is settled or parked.
LEMMA HandledFinish ==
    ASSUME TypeInv, Handled, NEW w \in Workers, Finish(w),
           \A i \in Ids : row'[i].status = "processing" =>
              row[i].status = "processing" /\ i \notin Held(worker[w])
    PROVE  Handled'
BY HandledSet DEF Finish

\* A worker moves on.
LEMMA HandledGoto ==
    ASSUME TypeInv, Handled, NEW w \in Workers, NEW p \in PC, Goto(w, p),
           \A i \in Ids : row'[i].status = "processing" =>
              \/ i \in Held([worker[w] EXCEPT !.pc = p])
              \/ row[i].status = "processing" /\ i \notin Held(worker[w])
    PROVE  Handled'
<1> DEFINE u == [worker[w] EXCEPT !.pc = p]
<1>1. worker' = [worker EXCEPT ![w] = u]
  BY DEF Goto
<1> QED BY <1>1, HandledSet

\* The tail of a failed delivery: the job is settled, the siblings are parked next.
LEMMA HandledAfterFailure ==
    ASSUME TypeInv, Handled, NEW w \in Workers, AfterFailure(w),
           worker[w].pc \in {"failWrite", "notify"},
           \A i \in Ids : row'[i].status = "processing" =>
              /\ row[i].status = "processing"
              /\ worker[w].pc = "failWrite" => i # worker[w].job
    PROVE  Handled'
<1>0. worker[w] \in Worker /\ worker[w].siblings \subseteq Ids
  BY DEF TypeInv, TypeOK, Worker
<1>1. CASE worker[w].siblings = {}
  <2>1. Finish(w)
    BY <1>1 DEF AfterFailure
  <2>2. \A i \in Ids : row'[i].status = "processing" => i \notin Held(worker[w])
    BY <1>1 DEF Held
  <2> QED BY <2>1, <2>2, HandledFinish
<1>2. CASE worker[w].siblings # {}
  <2> DEFINE u == [worker[w] EXCEPT !.pc = "park"]
  <2>1. "park" \in PC /\ Goto(w, "park")
    BY <1>2 DEF AfterFailure, PC
  <2>2. u.pc = "park" /\ u.job = worker[w].job /\ u.siblings = worker[w].siblings
    BY <1>0, <2>1, PcUpdate
  <2> HIDE DEF u
  <2>3. \A i \in Ids : i \in Held(worker[w]) /\ i \notin Held(u) =>
                         worker[w].pc = "failWrite" /\ i = worker[w].job
    BY <2>2 DEF Held
  <2>4. \A i \in Ids : row'[i].status = "processing" =>
           i \in Held(u) \/ (row[i].status = "processing" /\ i \notin Held(worker[w]))
    BY <2>3
  <2> QED BY <2>1, <2>4, HandledGoto DEF u
<1> QED BY <1>1, <1>2

\* What a worker about to write back a failure has read is still so.
Reading ==
    \A w \in Workers : worker[w].pc = "failWrite" =>
        worker[w].seen = "processing" /\ worker[w].seenAttempts = row[worker[w].job].attempts

\* Under the lease every step but a crash keeps claimed rows in hand.
LEMMA HandledNext ==
    ASSUME TypeInv, LeaseInv, Reading, Handled, [Next]_vars, crashes' = crashes, MaxAge = 0
    PROVE  Handled'
<1>r. /\ row \in [Ids -> Row] /\ worker \in [Workers -> Worker]
      /\ \A j \in Ids : row[j] \in Row
      /\ \A w \in Workers : worker[w] \in Worker /\ worker[w].siblings \subseteq Ids
      /\ \A w \in Workers : worker[w].pc # "idle" =>
            worker[w].job \in Ids /\ worker[w].job \notin worker[w].siblings
  BY DEF TypeInv, TypeOK, JobOK, Worker
<1>h. \A w \in Workers : \A i \in Held(worker[w]) : row[i].status = "processing"
  BY DEF LeaseInv, Holds
<1>s. \A i \in Ids : /\ NewRow(i).status = "pending"
                     /\ Sent(row[i]).status = "sent"
                     /\ Exhausted(row[i]).status = "exhausted"
                     /\ RecoveredStale(row[i]).status = "retrying"
                     /\ Requeued(row[i]).status = "retrying"
                     /\ Aged(row[i]).status = row[i].status
                     /\ \A n \in Nat : Parked(row[i], n).status = "pending"
                     /\ \A n \in Nat : Retried(row[i], "retrying", n).status = "retrying"
  BY <1>r, MoveStatus
<1>k. ASSUME UNCHANGED <<row, worker>> PROVE Handled'
  BY <1>k, HandledRows
<1>c. ASSUME NEW S \in SUBSET Ids, row' = Created(S)
      PROVE  \A i \in Ids : row'[i].status = "processing" => row[i].status = "processing"
  <2>1. \A i \in Ids : row'[i] = row[i] \/ row'[i] = NewRow(i)
    BY <1>c DEF Created
  <2> QED BY <1>s, <2>1
<1>m. ASSUME NEW w \in Workers, NEW i \in Ids, MarkSent(w, i), row[i].status = "processing"
      PROVE  row'[i].status = "sent" /\ \A j \in Ids \ {i} : row'[j] = row[j]
  <2>1. row' = [row EXCEPT ![i] = Sent(row[i])]
    BY <1>m DEF MarkSent, Terminal
  <2> QED BY <1>r, <1>s, <2>1
<1>1. ASSUME NEW w \in Workers, NEW i \in Ids, worker[w].pc = "idle", ClaimOutbox(w, i)
      PROVE  Handled'
  <2>0. ~ TooOld(row[i])
    BY DEF TooOld
  <2>1. CASE Claimable(row[i])
    <3> DEFINE p == IF i \in DigestIds THEN "siblings" ELSE "deliver"
               u == [Idle EXCEPT !.job = i, !.pc = p]
    <3>1. /\ row' = [row EXCEPT ![i] = Claimed(row[i])]
          /\ worker' = [worker EXCEPT ![w] = u]
      BY <1>1, <2>0, <2>1 DEF ClaimOutbox
    <3>2. u.job = i /\ u.pc = p
      BY IdleType, Zenon DEF Worker
    <3> HIDE DEF u
    <3>3. i \in Held(u) /\ Held(worker[w]) = {}
      BY <1>1, <3>2, IdleHoldsNothing DEF Held
    <3>4. \A j \in Ids \ {i} : row'[j] = row[j]
      BY <1>r, <3>1
    <3>5. \A j \in Ids : row'[j].status = "processing" =>
             j \in Held(u) \/ (row[j].status = "processing" /\ j \notin Held(worker[w]))
      BY <3>3, <3>4
    <3> QED BY <3>1, <3>5, HandledSet
  <2>2. CASE ~ Claimable(row[i])
    BY <1>1, <1>k, <1>r, <2>0, <2>2 DEF ClaimOutbox
  <2> QED BY <2>1, <2>2
<1>2. ASSUME NEW w \in Workers, ClaimSiblings(w) PROVE Handled'
  <2>1. PICK S \in SUBSET {j \in DigestIds \ {worker[w].job} : Claimable(row[j])} :
          /\ row' = [j \in Ids |-> IF j \in S THEN Claimed(row[j]) ELSE row[j]]
          /\ worker' = [worker EXCEPT ![w].pc = "deliver", ![w].siblings = S]
    BY <1>2, Zenon DEF ClaimSiblings
  <2> DEFINE u == [worker[w] EXCEPT !.pc = "deliver", !.siblings = S]
  <2>2. u.pc = "deliver" /\ u.job = worker[w].job /\ u.siblings = S
    <3>1. worker[w] \in Worker
      BY <1>r
    <3> QED BY <3>1, Zenon DEF Worker
  <2>3. worker' = [worker EXCEPT ![w] = u]
    BY <2>1
  <2> HIDE DEF u
  <2>4. worker[w].pc = "siblings"
    BY <1>2 DEF ClaimSiblings
  <2>5. ASSUME NEW i \in Ids, row'[i].status = "processing", i \notin Held(u)
        PROVE  row[i].status = "processing" /\ i \notin Held(worker[w])
    BY <2>1, <2>2, <2>4, <2>5 DEF Held
  <2> QED BY <2>3, <2>5, HandledSet
<1>3. ASSUME NEW w \in Workers, Deliver(w) PROVE Handled'
  <2>1. PICK x \in Results :
          worker' = [worker EXCEPT ![w].result = x,
                       ![w].pc = IF IsForwardSuccess(x) THEN "sentLeader" ELSE "failRead"]
    BY <1>3 DEF Deliver
  <2> DEFINE p == IF IsForwardSuccess(x) THEN "sentLeader" ELSE "failRead"
             u == [worker[w] EXCEPT !.result = x, !.pc = p]
  <2>2. u.pc = p /\ u.job = worker[w].job /\ u.siblings = worker[w].siblings
    BY <1>r, Zenon DEF Worker
  <2>3. worker' = [worker EXCEPT ![w] = u]
    BY <2>1
  <2> HIDE DEF u
  <2>4. worker[w].pc = "deliver" /\ row' = row
    BY <1>3 DEF Deliver
  <2>5. Held(worker[w]) \subseteq Held(u)
    BY <2>2, <2>4 DEF Held
  <2> QED BY <2>3, <2>4, <2>5, HandledSet
<1>4. ASSUME NEW w \in Workers, FinalizeLeader(w) PROVE Handled'
  <2> DEFINE i == worker[w].job
  <2>1. i \in Ids /\ i \in Held(worker[w]) /\ worker[w].pc = "sentLeader"
    BY <1>4, <1>r DEF FinalizeLeader, Held
  <2>2. row'[i].status = "sent" /\ \A j \in Ids \ {i} : row'[j] = row[j]
    BY <1>4, <1>h, <1>m, <2>1 DEF FinalizeLeader
  <2>3. CASE worker[w].siblings = {}
    <3>1. Finish(w)
      BY <1>4, <2>3 DEF FinalizeLeader
    <3>2. \A j \in Ids : j \in Held(worker[w]) => j = i
      BY <2>1, <2>3 DEF Held
    <3> QED BY <2>2, <3>1, <3>2, HandledFinish
  <2>4. CASE worker[w].siblings # {}
    <3> DEFINE u == [worker[w] EXCEPT !.pc = "sentSiblings"]
    <3>1. "sentSiblings" \in PC /\ Goto(w, "sentSiblings")
      BY <1>4, <2>4 DEF FinalizeLeader, PC
    <3>2. u.pc = "sentSiblings" /\ u.siblings = worker[w].siblings
      BY <1>r, <3>1, PcUpdate
    <3> HIDE DEF u
    <3>3. \A j \in Ids : j \in Held(worker[w]) => j = i \/ j \in Held(u)
      BY <2>1, <3>2 DEF Held
    <3>4. \A j \in Ids : row'[j].status = "processing" =>
             j \in Held(u) \/ (row[j].status = "processing" /\ j \notin Held(worker[w]))
      BY <2>2, <3>3
    <3> QED BY <3>1, <3>4, HandledGoto DEF u
  <2> QED BY <2>3, <2>4
<1>5. ASSUME NEW w \in Workers, FinalizeSibling(w) PROVE Handled'
  <2>1. PICK s \in worker[w].siblings :
          /\ MarkSent(w, s)
          /\ IF worker[w].siblings = {s} THEN Finish(w)
             ELSE worker' = [worker EXCEPT ![w].siblings = @ \ {s}]
    BY <1>5 DEF FinalizeSibling
  <2>2. worker[w].pc = "sentSiblings" /\ s \in Ids
    BY <1>5, <1>r DEF FinalizeSibling
  <2>3. s \in Held(worker[w]) /\ Held(worker[w]) = worker[w].siblings
    BY <1>r, <2>2 DEF Held
  <2>4. row'[s].status = "sent" /\ \A j \in Ids \ {s} : row'[j] = row[j]
    BY <1>h, <1>m, <2>1, <2>2, <2>3
  <2> DEFINE u == [worker[w] EXCEPT !.siblings = worker[w].siblings \ {s}]
  <2>5. u.pc = "sentSiblings" /\ u.siblings = worker[w].siblings \ {s}
    BY <1>r, <2>2, Zenon DEF Worker
  <2>6. CASE worker[w].siblings = {s}
    <3>1. Finish(w)
      BY <2>1, <2>6
    <3> QED BY <2>3, <2>4, <2>6, <3>1, HandledFinish
  <2>7. CASE worker[w].siblings # {s}
    <3>1. worker' = [worker EXCEPT ![w] = u]
      BY <2>1, <2>7
    <3> HIDE DEF u
    <3>2. \A j \in Ids : j \in Held(worker[w]) => j = s \/ j \in Held(u)
      BY <2>3, <2>5 DEF Held
    <3>3. \A j \in Ids : row'[j].status = "processing" =>
             j \in Held(u) \/ (row[j].status = "processing" /\ j \notin Held(worker[w]))
      BY <2>4, <3>2
    <3> QED BY <3>1, <3>3, HandledSet
  <2> QED BY <2>6, <2>7
<1>6. ASSUME NEW w \in Workers, FailureRead(w) PROVE Handled'
  <2> DEFINE i == worker[w].job
             u == [worker[w] EXCEPT !.pc = "failWrite", !.seen = row[i].status,
                                    !.seenAttempts = row[i].attempts]
  <2>1. i \in Ids /\ i \in Held(worker[w]) /\ worker[w].pc = "failRead" /\ row' = row
    BY <1>6, <1>r DEF FailureRead, Held
  <2>2. row[i].status \notin Terminal
    BY <1>h, <2>1 DEF Terminal
  <2>3. worker' = [worker EXCEPT ![w] = u]
    BY <1>6, <2>2 DEF FailureRead
  <2>4. u.pc = "failWrite" /\ u.job = worker[w].job /\ u.siblings = worker[w].siblings
    BY <1>r, Zenon DEF Worker
  <2> HIDE DEF u
  <2>5. Held(worker[w]) \subseteq Held(u)
    BY <2>1, <2>4 DEF Held
  <2> QED BY <2>1, <2>3, <2>5, HandledSet
<1>7. ASSUME NEW w \in Workers, FailureWrite(w) PROVE Handled'
  <2> DEFINE i == worker[w].job
  <2>1. i \in Ids /\ worker[w].pc = "failWrite" /\ i \notin worker[w].siblings
    BY <1>7, <1>r DEF FailureWrite
  <2>2. CASE GivesUp(w)
    <3>1. row' = [row EXCEPT ![i] = Exhausted(row[i])] /\ Goto(w, "notify")
      BY <1>7, <2>2 DEF FailureWrite
    <3>2. row'[i].status = "exhausted" /\ \A j \in Ids \ {i} : row'[j] = row[j]
      BY <1>r, <1>s, <2>1, <3>1
    <3> DEFINE u == [worker[w] EXCEPT !.pc = "notify"]
    <3>3. u.pc = "notify" /\ u.siblings = worker[w].siblings
      BY <1>r, PcUpdate, "notify" \in PC DEF PC
    <3> HIDE DEF u
    <3>4. \A j \in Ids : j \in Held(worker[w]) => j = i \/ j \in Held(u)
      BY <2>1, <3>3 DEF Held
    <3>5. \A j \in Ids : row'[j].status = "processing" =>
             j \in Held(u) \/ (row[j].status = "processing" /\ j \notin Held(worker[w]))
      BY <3>2, <3>4
    <3> QED BY <3>1, <3>5, HandledGoto, "notify" \in PC DEF u, PC
  <2>3. CASE ~ GivesUp(w)
    <3> DEFINE n == RetryDelay[worker[w].seenAttempts]
    <3>1. worker[w].seen # "retrying"
      BY <2>1 DEF Reading
    <3>2. row' = [row EXCEPT ![i] = Retried(row[i], "retrying", n)] /\ AfterFailure(w)
      BY <1>7, <2>3, <3>1 DEF FailureWrite, Retried
    <3>3. n \in Nat
      <4>1. worker[w].seenAttempts \in 0 .. MaxAttempts + 1
        BY <1>r DEF Worker, AttemptsCap
      <4> QED BY <4>1, PolicyAssumption
    <3> HIDE DEF n
    <3>4. row'[i].status = "retrying" /\ \A j \in Ids \ {i} : row'[j] = row[j]
      BY <1>r, <1>s, <2>1, <3>2, <3>3
    <3>5. \A j \in Ids : row'[j].status = "processing" => row[j].status = "processing" /\ j # i
      BY <3>4
    <3> QED BY <2>1, <3>2, <3>5, HandledAfterFailure
  <2> QED BY <2>2, <2>3
<1>8. ASSUME NEW w \in Workers, NotifyExhausted(w) PROVE Handled'
  <2>1. worker[w].pc = "notify" /\ AfterFailure(w) /\ NoticeFor[worker[w].job] \in SUBSET Ids
    BY <1>8, <1>r, IdsAssumption DEF NotifyExhausted
  <2>2. \A i \in Ids : row'[i].status = "processing" => row[i].status = "processing"
    BY <1>8, <1>c, <2>1 DEF NotifyExhausted
  <2> QED BY <2>1, <2>2, HandledAfterFailure
<1>9. ASSUME NEW w \in Workers, ParkSiblings(w) PROVE Handled'
  <2>1. Finish(w) /\ worker[w].pc = "park"
    BY <1>9 DEF ParkSiblings
  <2>2. Held(worker[w]) = worker[w].siblings
    BY <1>r, <2>1 DEF Held
  <2>3. row[worker[w].job].wait \in Nat
    BY <1>r, <2>1 DEF Row
  <2>4. \A j \in Ids : IF j \in worker[w].siblings /\ row[j].status = "processing"
                         THEN row'[j] \in {Exhausted(row[j]),
                                           Parked(row[j], row[worker[w].job].wait)}
                         ELSE row'[j] = row[j]
    BY <1>9 DEF ParkSiblings
  <2>5. \A j \in Ids : row'[j].status = "processing" =>
                         row[j].status = "processing" /\ j \notin Held(worker[w])
    BY <1>h, <1>s, <2>2, <2>3, <2>4
  <2> QED BY <2>1, <2>5, HandledFinish
<1>10. ASSUME RunForwardOutboxScan PROVE Handled'
  <2>1. \A j \in Ids : ~ TooOld(row[j])
    BY DEF TooOld
  <2>2. \A j \in Ids : row'[j] = row[j] \/ row'[j] = RecoveredStale(row[j])
    BY <1>10, <2>1 DEF RunForwardOutboxScan, ScanStep
  <2>3. worker' = worker
    BY <1>10 DEF RunForwardOutboxScan, ScanStep
  <2> QED BY <1>s, <2>2, <2>3, HandledRows
<1>11. ASSUME NEW i \in Ids, RequeueForwardOutbox(i) PROVE Handled'
  <2>1. \A j \in Ids : row'[j] = row[j] \/ row'[j] = Requeued(row[j])
    BY <1>11, <1>r DEF RequeueForwardOutbox
  <2>2. worker' = worker
    BY <1>11 DEF RequeueForwardOutbox
  <2> QED BY <1>s, <2>1, <2>2, HandledRows
<1>12. ASSUME Tick PROVE Handled'
  <2>1. row' = [i \in Ids |-> Aged(row[i])]
    BY <1>12, Zenon DEF Tick, Aged
  <2>2. ASSUME NEW v \in Workers PROVE Held(worker'[v]) = Held(worker[v])
    <3>1. \/ worker'[v] = worker[v]
          \/ worker'[v] = [worker[v] EXCEPT !.hold = worker[v].hold + 1]
      BY <1>12 DEF Tick
    <3>2. worker[v] \in Worker
      BY <1>r
    <3>3. /\ [worker[v] EXCEPT !.hold = worker[v].hold + 1].pc = worker[v].pc
          /\ [worker[v] EXCEPT !.hold = worker[v].hold + 1].job = worker[v].job
          /\ [worker[v] EXCEPT !.hold = worker[v].hold + 1].siblings = worker[v].siblings
      BY <3>2, Zenon DEF Worker
    <3> QED BY <3>1, <3>3, Zenon DEF Held
  <2> QED BY <1>s, <2>1, <2>2 DEF Handled
<1>13. ASSUME NEW w \in Workers, Crash(w) PROVE FALSE
  BY <1>13 DEF Crash, TypeInv, TypeOK
<1>14. ASSUME NEW i \in Ids, Create(i) PROVE Handled'
  BY <1>14, <1>c, {i} \in SUBSET Ids, HandledRows DEF Create
<1>15. ASSUME NEW w \in Workers, NEW i \in Ids, TakeKick(w, i) \/ DeliverNow(w, i)
       PROVE  Handled'
  BY <1>1, <1>15 DEF TakeKick, DeliverNow
<1>16. ASSUME NEW w \in Workers, Redeliver(w) PROVE Handled'
  BY <1>16, <1>k DEF Redeliver
<1> QED
  BY <1>k, <1>2, <1>3, <1>4, <1>5, <1>6, <1>7, <1>8, <1>9, <1>10, <1>11, <1>12, <1>13, <1>14,
     <1>15, <1>16 DEF Next, WorkerStep, vars

\* Only digest rows are claimed as siblings.
Grouped == \A w \in Workers : worker[w].siblings \subseteq DigestIds

\* What a step may do to a worker's siblings, and how it comes to write a failure.
Follows(w) ==
    /\ worker'[w].siblings \subseteq worker[w].siblings \cup DigestIds
    /\ worker'[w].pc = "failWrite" =>
         /\ worker'[w].job = worker[w].job
         /\ \/ /\ worker[w].pc = "failWrite"
               /\ worker'[w].seen = worker[w].seen
               /\ worker'[w].seenAttempts = worker[w].seenAttempts
            \/ /\ worker[w].pc = "failRead" /\ row' = row
               /\ worker'[w].seen = row[worker[w].job].status
               /\ worker'[w].seenAttempts = row[worker[w].job].attempts

LEMMA EveryFollows ==
    ASSUME TypeInv, [Next]_vars, NEW w \in Workers
    PROVE  Follows(w)
<1>t. /\ worker \in [Workers -> Worker]
      /\ \A x \in Workers : worker[x] \in Worker
  BY DEF TypeInv, TypeOK
<1>k. ASSUME worker' = worker PROVE Follows(w)
  BY <1>k DEF Follows
\* Steps of one worker that do not lead to the write of a failure.
<1>s. ASSUME NEW v \in Workers, NEW u, worker' = [worker EXCEPT ![v] = u],
             u.pc # "failWrite", u.siblings \subseteq worker[v].siblings \cup DigestIds
      PROVE  Follows(w)
  BY <1>s, <1>t DEF Follows
<1>f. ASSUME NEW v \in Workers, Finish(v) PROVE Follows(w)
  BY <1>f, <1>s, IdleType DEF Finish
<1>g. ASSUME NEW v \in Workers, NEW p \in PC \ {"failWrite"}, Goto(v, p) PROVE Follows(w)
  <2> DEFINE u == [worker[v] EXCEPT !.pc = p]
  <2>1. u.pc = p /\ u.siblings = worker[v].siblings
    BY <1>t, PcUpdate
  <2>2. worker' = [worker EXCEPT ![v] = u]
    BY <1>g DEF Goto
  <2> HIDE DEF u
  <2> QED BY <1>s, <2>1, <2>2
<1>a. ASSUME NEW v \in Workers, AfterFailure(v) PROVE Follows(w)
  BY <1>a, <1>f, <1>g, "park" \in PC \ {"failWrite"} DEF AfterFailure, PC
<1>1. ASSUME NEW v \in Workers, NEW i \in Ids, ClaimOutbox(v, i) PROVE Follows(w)
  <2>1. CASE ~ TooOld(row[i]) /\ Claimable(row[i])
    <3> DEFINE p == IF i \in DigestIds THEN "siblings" ELSE "deliver"
               u == [Idle EXCEPT !.job = i, !.pc = p]
    <3>1. worker' = [worker EXCEPT ![v] = u]
      BY <1>1, <2>1 DEF ClaimOutbox
    <3>2. u.pc = p /\ u.siblings = {}
      BY IdleType, Zenon DEF Worker
    <3> HIDE DEF u
    <3> QED BY <1>s, <3>1, <3>2
  <2>2. CASE ~ (~ TooOld(row[i]) /\ Claimable(row[i]))
    BY <1>1, <1>k, <2>2 DEF ClaimOutbox
  <2> QED BY <2>1, <2>2
<1>2. ASSUME NEW v \in Workers, ClaimSiblings(v) PROVE Follows(w)
  <2>1. PICK S \in SUBSET (DigestIds \ {worker[v].job}) :
          worker' = [worker EXCEPT ![v].pc = "deliver", ![v].siblings = S]
    BY <1>2, Zenon DEF ClaimSiblings
  <2> DEFINE u == [worker[v] EXCEPT !.pc = "deliver", !.siblings = S]
  <2>2. u.pc = "deliver" /\ u.siblings = S
    <3>1. worker[v] \in Worker
      BY <1>t
    <3> QED BY <3>1, Zenon DEF Worker
  <2>3. worker' = [worker EXCEPT ![v] = u]
    BY <2>1
  <2> HIDE DEF u
  <2> QED BY <1>s, <2>2, <2>3
<1>3. ASSUME NEW v \in Workers, Deliver(v) PROVE Follows(w)
  <2>1. PICK x \in Results :
          worker' = [worker EXCEPT ![v].result = x,
                       ![v].pc = IF IsForwardSuccess(x) THEN "sentLeader" ELSE "failRead"]
    BY <1>3 DEF Deliver
  <2> DEFINE p == IF IsForwardSuccess(x) THEN "sentLeader" ELSE "failRead"
             u == [worker[v] EXCEPT !.result = x, !.pc = p]
  <2>2. u.pc = p /\ u.siblings = worker[v].siblings
    BY <1>t, Zenon DEF Worker
  <2>3. worker' = [worker EXCEPT ![v] = u]
    BY <2>1
  <2> HIDE DEF u
  <2> QED BY <1>s, <2>2, <2>3
<1>4. ASSUME NEW v \in Workers, FinalizeLeader(v) PROVE Follows(w)
  BY <1>4, <1>f, <1>g, "sentSiblings" \in PC \ {"failWrite"} DEF FinalizeLeader, PC
<1>5. ASSUME NEW v \in Workers, FinalizeSibling(v) PROVE Follows(w)
  <2>1. PICK s \in worker[v].siblings :
          \/ Finish(v)
          \/ worker' = [worker EXCEPT ![v] =
                          [worker[v] EXCEPT !.siblings = worker[v].siblings \ {s}]]
    BY <1>5 DEF FinalizeSibling
  <2> DEFINE u == [worker[v] EXCEPT !.siblings = worker[v].siblings \ {s}]
  <2>2. u.pc = "sentSiblings" /\ u.siblings = worker[v].siblings \ {s}
    <3>1. worker[v].pc = "sentSiblings"
      BY <1>5 DEF FinalizeSibling
    <3> QED BY <1>t, <3>1, Zenon DEF Worker
  <2>3. CASE worker' = [worker EXCEPT ![v] = u]
    <3> HIDE DEF u
    <3> QED BY <1>s, <2>2, <2>3
  <2> QED BY <1>f, <2>1, <2>3
<1>6. ASSUME NEW v \in Workers, FailureRead(v) PROVE Follows(w)
  <2> DEFINE st == row[worker[v].job].status
             n == row[worker[v].job].attempts
             u == [worker[v] EXCEPT !.pc = "failWrite", !.seen = st, !.seenAttempts = n]
  <2>1. /\ worker[v].pc = "failRead" /\ row' = row
        /\ AfterFailure(v) \/ worker' = [worker EXCEPT ![v] = u]
    BY <1>6 DEF FailureRead
  <2>2. /\ u.pc = "failWrite" /\ u.job = worker[v].job /\ u.siblings = worker[v].siblings
        /\ u.seen = st /\ u.seenAttempts = n
    <3>1. worker[v] \in Worker
      BY <1>t
    <3> QED BY <3>1, Zenon DEF Worker
  <2>3. CASE worker' = [worker EXCEPT ![v] = u]
    <3> HIDE DEF u
    <3>1. worker'[v] = u /\ \A x \in Workers : x # v => worker'[x] = worker[x]
      BY <1>t, <2>3
    <3>2. CASE w = v
      BY <2>1, <2>2, <3>1, <3>2 DEF Follows
    <3>3. CASE w # v
      BY <3>1, <3>3 DEF Follows
    <3> QED BY <3>2, <3>3
  <2> QED BY <1>a, <2>1, <2>3
<1>7. ASSUME NEW v \in Workers, FailureWrite(v) PROVE Follows(w)
  BY <1>7, <1>a, <1>g, "notify" \in PC \ {"failWrite"} DEF FailureWrite, PC
<1>8. ASSUME NEW v \in Workers, NotifyExhausted(v) PROVE Follows(w)
  BY <1>8, <1>a DEF NotifyExhausted
<1>9. ASSUME NEW v \in Workers, ParkSiblings(v) \/ Crash(v) PROVE Follows(w)
  BY <1>9, <1>f DEF ParkSiblings, Crash
<1>10. ASSUME Tick PROVE Follows(w)
  <2>1. worker'[w] = worker[w] \/ worker'[w] = [worker[w] EXCEPT !.hold = worker[w].hold + 1]
    BY <1>10 DEF Tick
  <2> DEFINE u == [worker[w] EXCEPT !.hold = worker[w].hold + 1]
  <2>2. /\ u.pc = worker[w].pc /\ u.job = worker[w].job /\ u.siblings = worker[w].siblings
        /\ u.seen = worker[w].seen /\ u.seenAttempts = worker[w].seenAttempts
    BY <1>t, Zenon DEF Worker
  <2> HIDE DEF u
  <2> QED BY <2>1, <2>2 DEF Follows, u
<1> QED
  BY <1>k, <1>1, <1>2, <1>3, <1>4, <1>5, <1>6, <1>7, <1>8, <1>9, <1>10
     DEF Next, WorkerStep, vars, Create, TakeKick, DeliverNow, RunForwardOutboxScan, ScanStep,
         RequeueForwardOutbox, Redeliver

\* Nobody counts an attempt of a row in "processing".
LEMMA AttemptsKept ==
    ASSUME TypeInv, [Next]_vars, NEW i \in Ids, row[i].status = "processing"
    PROVE  row'[i].attempts = row[i].attempts
<1>t. row \in [Ids -> Row] /\ row[i] \in Row
  BY DEF TypeInv, TypeOK
<1>1. CASE RowMove(i)
  <2>1. /\ Expired(row[i]).attempts = row[i].attempts
        /\ Sent(row[i]).attempts = row[i].attempts
        /\ Exhausted(row[i]).attempts = row[i].attempts
        /\ RecoveredStale(row[i]).attempts = row[i].attempts
        /\ Aged(row[i]).attempts = row[i].attempts
    BY <1>t, RowFields, AgedFields, 0 \in Nat, "sent" \in Status DEF Status, Terminal
  <2>2. \A n \in Nat : Parked(row[i], n).attempts = row[i].attempts
    BY <1>t, RowFields, "sent" \in Status DEF Status, Terminal
  <2>3. \A n \in Nat, s \in {"retrying", row[i].status} :
           Retried(row[i], s, n).attempts = row[i].attempts
    <3>1. {"retrying", row[i].status} \subseteq Status
      BY <1>t DEF Row, Status, Active
    <3> QED BY <1>t, <3>1, RowFields
  <2> QED BY <1>1, <2>1, <2>2, <2>3 DEF RowMove, Claimable
<1>2. CASE \E j \in Ids : RequeueForwardOutbox(j)
  <2>1. PICK j \in Ids : /\ row' = [row EXCEPT ![j] = Requeued(row[j])]
                         /\ row[j].status # "processing"
    BY <1>2 DEF RequeueForwardOutbox
  <2> QED BY <1>t, <2>1
<1> QED BY <1>1, <1>2, EveryMove

LEMMA ReadingNext ==
    ASSUME TypeInv, LeaseInv, Reading, Grouped, [Next]_vars
    PROVE  Reading' /\ Grouped'
<1>1. Grouped'
  BY EveryFollows DEF Grouped, Follows
<1>2. ASSUME NEW w \in Workers, worker'[w].pc = "failWrite"
      PROVE  worker'[w].seen = "processing" /\ worker'[w].seenAttempts = row'[worker'[w].job].attempts
  <2>1. worker'[w].job = worker[w].job /\ worker[w].pc \in {"failRead", "failWrite"}
    BY <1>2, EveryFollows DEF Follows
  <2>2. worker[w].job \in Ids /\ worker[w].job \in Holds(w)
    BY <2>1 DEF Holds, Held, TypeInv, JobOK
  <2>3. row[worker[w].job].status = "processing"
    BY <2>2 DEF LeaseInv
  <2>4. row'[worker[w].job].attempts = row[worker[w].job].attempts
    BY <2>2, <2>3, AttemptsKept
  <2>5. CASE /\ worker[w].pc = "failWrite"
             /\ worker'[w].seen = worker[w].seen
             /\ worker'[w].seenAttempts = worker[w].seenAttempts
    BY <2>1, <2>4, <2>5 DEF Reading
  <2>6. CASE /\ worker'[w].seen = row[worker[w].job].status
             /\ worker'[w].seenAttempts = row[worker[w].job].attempts
    BY <2>1, <2>3, <2>4, <2>6
  <2> QED BY <1>2, <2>5, <2>6, EveryFollows DEF Follows
<1> QED BY <1>1, <1>2 DEF Reading

\* The inductive form of NoOrphan.
HandInv == Reading /\ Grouped /\ (crashes = 0 => Handled)

LEMMA HandInit == Init => HandInv
BY IdleType DEF Init, HandInv, Reading, Grouped, Handled, NoRow

LEMMA HandNext ==
    ASSUME TypeInv, LeaseInv, HandInv, [Next]_vars, ShortDeliveries
    PROVE  HandInv'
<1>1. Reading' /\ Grouped'
  BY ReadingNext DEF HandInv
<1>2. ASSUME crashes' = 0 PROVE crashes = 0 /\ crashes' = crashes
  <2>1. crashes \in Nat
    BY PolicyAssumption DEF TypeInv, TypeOK
  <2>2. crashes' = crashes \/ crashes' = crashes + 1
    BY DEF Next, WorkerStep, vars, Create, TakeKick, DeliverNow, ClaimOutbox, ClaimSiblings,
           Deliver, FinalizeLeader, FinalizeSibling, FailureRead, FailureWrite, NotifyExhausted,
           ParkSiblings, RunForwardOutboxScan, ScanStep, RequeueForwardOutbox, Redeliver, Crash,
           Tick
  <2> QED BY <1>2, <2>1, <2>2
<1>3. ASSUME crashes' = 0 PROVE Handled'
  BY <1>2, <1>3, HandledNext DEF HandInv, ShortDeliveries
<1> QED BY <1>1, <1>3 DEF HandInv

\* With short deliveries, unless a worker has crashed, every row in "processing" is
\* in somebody's hands: no path of a delivery leaves a claimed row behind.
THEOREM NobodyLeftBehind ==
    ASSUME ShortDeliveries
    PROVE  Spec => []NoOrphan
<1>1. Init => TypeInv /\ LeaseInv /\ HandInv
  BY TypeInit, LeaseInit, HandInit
<1>2. TypeInv /\ LeaseInv /\ HandInv /\ [Next]_vars => (TypeInv /\ LeaseInv /\ HandInv)'
  BY TypeNext, LeaseNext, HandNext
<1>3. HandInv => NoOrphan
  BY DEF HandInv, Handled, NoOrphan, Holds
<1> QED BY <1>1, <1>2, <1>3, PTL DEF Spec

-----------------------------------------------------------------------------
(* The attempts of a row *)

\* A row outside a digest that waits to be tried has an attempt left.
AttemptLeft ==
    crashes = 0 => \A i \in Ids \ DigestIds :
        /\ row[i].attempts <= MaxAttempts
        /\ row[i].status \in {"pending", "retrying"} => row[i].attempts < MaxAttempts

LEMMA AttemptNext ==
    ASSUME TypeInv, LeaseInv, HandInv, AttemptLeft, [Next]_vars, ShortDeliveries
    PROVE  AttemptLeft'
<1> SUFFICES ASSUME crashes' = 0, NEW i \in Ids \ DigestIds
             PROVE  /\ row'[i].attempts <= MaxAttempts
                    /\ row'[i].status \in {"pending", "retrying"} => row'[i].attempts < MaxAttempts
  BY DEF AttemptLeft
<1> DEFINE r == row[i]
           Good(q) == /\ q.attempts <= MaxAttempts
                      /\ q.status \in {"pending", "retrying"} => q.attempts < MaxAttempts
<1>t. /\ row \in [Ids -> Row] /\ r \in Row /\ r.attempts \in Nat /\ r.status \in Status
      /\ MaxAttempts \in Nat \ {0}
  BY PolicyAssumption DEF TypeInv, TypeOK, Row, AttemptsCap
<1>c. crashes = 0
  <2>1. crashes \in Nat
    BY PolicyAssumption DEF TypeInv, TypeOK
  <2>2. crashes' = crashes \/ crashes' = crashes + 1
    BY DEF Next, WorkerStep, vars, Create, TakeKick, DeliverNow, ClaimOutbox, ClaimSiblings,
           Deliver, FinalizeLeader, FinalizeSibling, FailureRead, FailureWrite, NotifyExhausted,
           ParkSiblings, RunForwardOutboxScan, ScanStep, RequeueForwardOutbox, Redeliver, Crash,
           Tick
  <2> QED BY <2>1, <2>2
<1>g. Good(r)
  BY <1>c DEF AttemptLeft
<1>s. /\ Claimed(r).status = "processing" /\ Expired(r).status = "expired"
      /\ Sent(r).status = "sent" /\ Exhausted(r).status = "exhausted"
      /\ Aged(r).status = r.status /\ Requeued(r).status = "retrying"
  BY <1>t, MoveStatus
<1>a. /\ Claimed(r).attempts = (IF r.attempts < AttemptsCap THEN r.attempts + 1 ELSE r.attempts)
      /\ Expired(r).attempts = r.attempts /\ Sent(r).attempts = r.attempts
      /\ Exhausted(r).attempts = r.attempts /\ Aged(r).attempts = r.attempts
  BY <1>t, RowFields, AgedFields, 0 \in Nat
<1>1. Good(Claimed(r)) \/ ~ Claimable(r)
  BY <1>t, <1>g, <1>s, <1>a DEF Claimable
<1>2. Good(Expired(r)) /\ Good(Sent(r)) /\ Good(Exhausted(r)) /\ Good(Aged(r))
  BY <1>g, <1>s, <1>a
<1>3. Good(NewRow(i))
  BY <1>t, NewRowType
\* A stale row would be in the hands of a worker busy for longer than it may be.
<1>4. ~ Stale(r)
  <2> SUFFICES ASSUME Stale(r) PROVE FALSE
    OBVIOUS
  <2>1. PICK w \in Workers : i \in Holds(w)
    BY <1>c DEF HandInv, Handled, Holds, Stale
  <2>2. r.idle <= worker[w].hold
    BY <2>1 DEF LeaseInv
  <2>3. worker[w].hold \in 0 .. MaxHold
    BY DEF TypeInv, TypeOK, Worker
  <2>4. r.idle \in Nat /\ r.idle > StaleAfter
    BY <1>t, PolicyAssumption DEF Stale, Row
  <2> QED BY <2>2, <2>3, <2>4, PolicyAssumption DEF ShortDeliveries
\* Siblings are rows of a digest.
<1>5. \A w \in Workers : ~ Parks(w, i)
  BY DEF HandInv, Grouped, Parks
<1>6. ASSUME NEW w \in Workers, NEW s \in {"retrying", r.status}, NEW n \in Nat,
             worker[w].pc = "failWrite", worker[w].job = i, ~ GivesUp(w)
      PROVE  Good(Retried(r, s, n))
  <2>1. worker[w].seenAttempts = r.attempts
    BY <1>6 DEF HandInv, Reading
  <2>2. r.attempts < MaxAttempts
    BY <1>t, <1>6, <2>1 DEF GivesUp
  <2>3. Retried(r, s, n).attempts = r.attempts
    <3>1. s \in Status
      BY <1>t DEF Status, Active
    <3> QED BY <1>t, <3>1, RowFields
  <2> QED BY <1>t, <2>2, <2>3
<1>7. CASE RowMove(i)
  <2> HIDE DEF r, Good
  <2>1. Good(row'[i])
    BY <1>7, <1>g, <1>1, <1>2, <1>3, <1>4, <1>5, <1>6 DEF RowMove, r
  <2> QED BY <2>1 DEF Good
<1>8. CASE \E j \in Ids : RequeueForwardOutbox(j)
  <2>1. PICK j \in Ids : row' = [row EXCEPT ![j] = Requeued(row[j])]
    BY <1>8 DEF RequeueForwardOutbox
  <2>2. row'[i] = r \/ row'[i] = Requeued(r)
    BY <1>t, <2>1
  <2>3. Requeued(r).attempts = 0
    BY <1>t, Zenon DEF Requeued, Row
  <2> QED BY <1>t, <1>g, <1>s, <2>2, <2>3
<1> QED BY <1>7, <1>8, EveryMove

\* With short deliveries and without a crash, a row outside a digest is claimed at
\* most max_attempts times before it is sent, exhausted or requeued: a retry is
\* scheduled only by a worker that read the count as it still is.
THEOREM AttemptsBounded ==
    ASSUME ShortDeliveries
    PROVE  Spec => []AttemptBudget
<1>1. Init => TypeInv /\ LeaseInv /\ HandInv /\ AttemptLeft
  <2>1. Init => AttemptLeft
    BY PolicyAssumption DEF Init, AttemptLeft, NoRow
  <2> QED BY <2>1, TypeInit, LeaseInit, HandInit
<1>2. TypeInv /\ LeaseInv /\ HandInv /\ AttemptLeft /\ [Next]_vars =>
        (TypeInv /\ LeaseInv /\ HandInv /\ AttemptLeft)'
  BY TypeNext, LeaseNext, HandNext, AttemptNext
<1>3. AttemptLeft => AttemptBudget
  BY DEF AttemptLeft, AttemptBudget
<1> QED BY <1>1, <1>2, <1>3, PTL DEF Spec

-----------------------------------------------------------------------------
(* The accounts of the outbox *)

\* With deliveries no longer than the stale threshold the accounts hold for any
\* rows, digests, events, workers and policy: the finalizers of outbox.py and
\* _park_digest_siblings leave no row claimed, none sent that was not accepted,
\* and no event in disagreement with its row.
THEOREM AccountsHold ==
    ASSUME ShortDeliveries
    PROVE  Spec => []OutboxAccounts
<1>1. Spec => []TypeOK /\ []SentWasAccepted
  BY TypeCorrect, SentMeansAccepted
<1>2. Spec => []EventAgrees /\ []AttemptBudget
  BY EventsAgree, AttemptsBounded
<1>3. Spec => []NoOrphan
  BY NobodyLeftBehind
<1> QED
  BY <1>1, <1>2, <1>3, PTL DEF OutboxAccounts
=============================================================================
