------------------------- MODULE RawIngest_proofs -------------------------
(***************************************************************************)
(* What RawIngest promises for any requests, workers, scanners and retry   *)
(* budget, and AlertGate for any processes, thresholds and times to live.  *)
(* NeverLost rests on Backed: whoever is about to depend on the schedule   *)
(* has left a row behind first.  The gate rests on its lock being its      *)
(* holder's for as long as its renewals keep up.                           *)
(***************************************************************************)
EXTENDS RawIngest, AlertGate, FiniteSetTheorems, TLAPS

-----------------------------------------------------------------------------
(* The raw ingest *)

Worker == [pc : PC, msg : Msg \cup {NoMsg}]

UsedType == [{"faults", "duplicates", "sheds", "replays"} -> Nat]

\* A row is on record, unless the database refused it or the failure handler was passed by.
Kept(r) == event[r].status # "none" \/ r \in unwritten \cup unhandled

\* The same after the step.
KeptNext(r) == event'[r].status # "none" \/ r \in unwritten' \cup unhandled'

\* Every schedule, and every worker about to make one, is backed by a row.
Backed ==
    /\ \A m \in delayed : Kept(m.req)
    /\ \A w \in Workers : worker[w].pc = "schedule" => Kept(worker[w].msg.req)

IInv == TypeOK /\ Backed /\ NotLost

-----------------------------------------------------------------------------
(* The operators *)

LEMMA SpendType ==
    ASSUME used \in UsedType, NEW k \in {"faults", "duplicates", "sheds", "replays"}, Spend(k)
    PROVE  used' \in UsedType
BY DEF Spend, UsedType

LEMMA FaultType ==
    ASSUME used \in UsedType, NEW k, Fault(k)
    PROVE  used' \in UsedType
BY SpendType DEF Fault

LEMMA CompletedType ==
    ASSUME NEW e \in Event
    PROVE  Completed(e) \in Event /\ Completed(e).status = "completed"
<1>1. 0 \in 0 .. MaxRetries
  BY IngestAssumption
<1> QED BY <1>1 DEF Completed, Event

LEMMA RetryingType ==
    ASSUME NEW e \in Event, NEW n \in 0 .. MaxRetries
    PROVE  Retrying(e, n) \in Event /\ Retrying(e, n).status \in {"completed", "retry"}
BY DEF Retrying, Event

LEMMA IdleType == Idle \in Worker /\ Idle.pc = "idle"
BY DEF Idle, Worker, PC

LEMMA AsMsgType ==
    ASSUME TypeOK, NEW r \in Requests
    PROVE  AsMsg(r) \in Msg /\ AsMsg(r).req = r
BY DEF TypeOK, AsMsg, Msg, Event

\* What a task knows of its message.
LEMMA HeldMsg ==
    ASSUME TypeOK, NEW w \in Workers, worker[w].pc # "idle"
    PROVE  /\ worker[w].msg \in Msg
           /\ worker[w].msg.req \in Requests
           /\ worker[w].msg.n \in 0 .. MaxRetries
           /\ worker[w].pc \in {"record", "schedule"} =>
                 worker[w].msg.n + 1 \in 0 .. MaxRetries
<1>1. worker[w].msg \in Msg
  BY DEF TypeOK
<1>2. worker[w].msg.req \in Requests /\ worker[w].msg.n \in 0 .. MaxRetries
  BY <1>1 DEF Msg
<1>3. ASSUME worker[w].pc \in {"record", "schedule"} PROVE worker[w].msg.n + 1 \in 0 .. MaxRetries
  <2>1. worker[w].msg.n < MaxRetries
    BY <1>3 DEF TypeOK
  <2> QED BY <2>1, <1>2, IngestAssumption
<1> QED BY <1>1, <1>2, <1>3

\* The part of TypeOK about the workers.
WorkersOK(wk) ==
    /\ wk \in [Workers -> Worker]
    /\ \A w \in Workers : wk[w].pc # "idle" => wk[w].msg \in Msg
    /\ \A w \in Workers : wk[w].pc \in {"record", "schedule"} => wk[w].msg.n < MaxRetries

LEMMA FinishType ==
    ASSUME WorkersOK(worker), NEW w \in Workers, Finish(w)
    PROVE  WorkersOK(worker')
BY IdleType DEF WorkersOK, Finish

LEMMA GotoType ==
    ASSUME WorkersOK(worker), NEW w \in Workers, worker[w].pc # "idle", NEW pc \in PC,
           pc \in {"record", "schedule"} => worker[w].msg.n < MaxRetries, Goto(w, pc)
    PROVE  /\ WorkersOK(worker')
           /\ worker'[w].pc = pc /\ worker'[w].msg = worker[w].msg
           /\ \A x \in Workers \ {w} : worker'[x] = worker[x]
<1>1. worker[w] \in Worker
  BY DEF WorkersOK
<1>2. [worker[w] EXCEPT !.pc = pc] \in Worker
  BY <1>1 DEF Worker
<1>3. worker' = [worker EXCEPT ![w] = [worker[w] EXCEPT !.pc = pc]]
  BY DEF Goto
<1>4. [worker[w] EXCEPT !.pc = pc].pc = pc /\ [worker[w] EXCEPT !.pc = pc].msg = worker[w].msg
  BY <1>1 DEF Worker
<1> DEFINE v == [worker[w] EXCEPT !.pc = pc]
<1>5. v \in Worker /\ v.pc = pc /\ v.msg = worker[w].msg /\ worker' = [worker EXCEPT ![w] = v]
  BY <1>2, <1>3, <1>4
<1> HIDE DEF v
<1> QED BY <1>5 DEF WorkersOK

LEMMA HandleFailureType ==
    ASSUME WorkersOK(worker), NEW w \in Workers, worker[w].pc # "idle", HandleFailure(w)
    PROVE  /\ WorkersOK(worker')
           /\ worker'[w].pc \in {"record", "dead"} /\ worker'[w].msg = worker[w].msg
           /\ \A x \in Workers \ {w} : worker'[x] = worker[x]
<1> PICK retryable \in BOOLEAN :
       Goto(w, IF retryable /\ RetriesLeft(worker[w].msg.n) THEN "record" ELSE "dead")
  BY DEF HandleFailure
<1>1. CASE retryable /\ RetriesLeft(worker[w].msg.n)
  <2>1. Goto(w, "record") /\ worker[w].msg.n < MaxRetries
    BY <1>1 DEF RetriesLeft
  <2> QED BY <2>1, GotoType DEF PC
<1>2. CASE ~ (retryable /\ RetriesLeft(worker[w].msg.n))
  <2>1. Goto(w, "dead")
    BY <1>2
  <2> QED BY <2>1, GotoType DEF PC
<1> QED BY <1>1, <1>2

LEMMA TypeOKParts ==
    TypeOK <=> /\ event \in [Requests -> Event]
               /\ queue \in SUBSET Msg
               /\ delayed \in SUBSET Msg
               /\ WorkersOK(worker)
               /\ scan \in [Scanners -> SUBSET [m : Msg, leased : BOOLEAN]]
               /\ accepted \in SUBSET Requests
               /\ shed \in SUBSET Requests
               /\ unwritten \in SUBSET Requests
               /\ unhandled \in SUBSET Requests
               /\ rearmed \in [Requests -> Nat]
               /\ used \in UsedType
BY DEF TypeOK, WorkersOK, Worker, UsedType
-----------------------------------------------------------------------------
(* Types *)

\* What a scan may hold.
Selected == [m : Msg, leased : BOOLEAN]

LEMMA TypeInit == Init => TypeOK
<1> SUFFICES ASSUME Init PROVE TypeOK
  OBVIOUS
<1>1. NoEvent \in Event
  BY IngestAssumption DEF NoEvent, Event
<1>2. WorkersOK(worker)
  BY IdleType DEF Init, WorkersOK
<1>3. used \in UsedType
  BY DEF Init, UsedType
<1> QED BY <1>1, <1>2, <1>3, TypeOKParts DEF Init

LEMMA TypeNext == TypeOK /\ [Next]_vars => TypeOK'
<1> SUFFICES ASSUME TypeOK, [Next]_vars PROVE TypeOK'
  OBVIOUS
<1>t. /\ event \in [Requests -> Event]
      /\ queue \in SUBSET Msg
      /\ delayed \in SUBSET Msg
      /\ WorkersOK(worker)
      /\ scan \in [Scanners -> SUBSET Selected]
      /\ accepted \in SUBSET Requests
      /\ shed \in SUBSET Requests
      /\ unwritten \in SUBSET Requests
      /\ unhandled \in SUBSET Requests
      /\ rearmed \in [Requests -> Nat]
      /\ used \in UsedType
  BY TypeOKParts DEF Selected
<1>g. (        /\ event' \in [Requests -> Event]
               /\ queue' \in SUBSET Msg
               /\ delayed' \in SUBSET Msg
               /\ WorkersOK(worker')
               /\ scan' \in [Scanners -> SUBSET Selected]
               /\ accepted' \in SUBSET Requests
               /\ shed' \in SUBSET Requests
               /\ unwritten' \in SUBSET Requests
               /\ unhandled' \in SUBSET Requests
               /\ rearmed' \in [Requests -> Nat]
               /\ used' \in UsedType ) => TypeOK'
  BY DEF Selected, TypeOK, WorkersOK, Worker, UsedType
<1>1. ASSUME NEW r \in Requests, Receive(r) PROVE TypeOK'
  <2>1. [req |-> r, n |-> 0] \in Msg
    BY IngestAssumption DEF Msg
  <2> QED BY <1>1, <1>t, <1>g, <2>1 DEF Receive
<1>2. ASSUME NEW w \in Workers, NEW m \in queue, TakeMessage(w, m) PROVE TypeOK'
  <2> DEFINE v == [pc |-> "process", msg |-> m]
  <2>1. v \in Worker /\ v.pc = "process" /\ v.msg \in Msg
    BY <1>t DEF Worker, PC
  <2>2. worker' = [worker EXCEPT ![w] = v]
    BY <1>2 DEF TakeMessage
  <2> HIDE DEF v
  <2>3. WorkersOK(worker')
    BY <1>t, <2>1, <2>2 DEF WorkersOK
  <2> QED BY <1>2, <1>t, <1>g, <2>3 DEF TakeMessage
<1>3. ASSUME NEW w \in Workers, Succeed(w) PROVE TypeOK'
  <2>1. worker[w].msg.req \in Requests
    BY <1>3, HeldMsg DEF Succeed
  <2>2. event' \in [Requests -> Event]
    BY <1>3, <1>t, <2>1, CompletedType DEF Succeed
  <2>3. WorkersOK(worker') /\ used' \in UsedType
    BY <1>3, <1>t, FinishType, HandleFailureType, FaultType DEF Succeed
  <2> QED BY <1>3, <1>t, <1>g, <2>2, <2>3 DEF Succeed
<1>4. ASSUME NEW w \in Workers, Suppress(w) PROVE TypeOK'
  <2>1. worker[w].msg.req \in Requests
    BY <1>4, HeldMsg DEF Suppress
  <2>2. WorkersOK(worker') /\ used' \in UsedType
    BY <1>4, <1>t, FinishType, SpendType DEF Suppress
  <2> QED BY <1>4, <1>t, <1>g, <2>1, <2>2 DEF Suppress
<1>5. ASSUME NEW w \in Workers, Fail(w) PROVE TypeOK'
  <2>1. WorkersOK(worker')
    BY <1>5, <1>t, HandleFailureType DEF Fail
  <2> QED BY <1>5, <1>t, <1>g, <2>1 DEF Fail
<1>6. ASSUME NEW w \in Workers, RecordRetry(w) PROVE TypeOK'
  <2>1. /\ worker[w].pc = "record" /\ worker[w].msg.req \in Requests
        /\ worker[w].msg.n + 1 \in 0 .. MaxRetries
    BY <1>6, HeldMsg DEF RecordRetry
  <2>2. /\ event' \in [Requests -> Event] /\ rearmed' \in [Requests -> Nat]
        /\ used' \in UsedType /\ unwritten' \in SUBSET Requests
    BY <1>6, <1>t, <2>1, RetryingType, FaultType DEF RecordRetry
  <2>3. worker[w].msg.n < MaxRetries
    BY <1>t, <2>1 DEF WorkersOK
  <2>4. WorkersOK(worker')
    BY <1>6, <1>t, <2>1, <2>3, GotoType DEF RecordRetry, PC
  <2> QED BY <1>6, <1>t, <1>g, <2>2, <2>4 DEF RecordRetry
<1>7. ASSUME NEW w \in Workers, ScheduleRetry(w) PROVE TypeOK'
  <2>1. /\ worker[w].pc = "schedule" /\ worker[w].msg.req \in Requests
        /\ worker[w].msg.n + 1 \in 0 .. MaxRetries
    BY <1>7, HeldMsg DEF ScheduleRetry
  <2>2. delayed' \in SUBSET Msg
    BY <1>7, <1>t, <2>1 DEF ScheduleRetry, Msg
  <2>3. WorkersOK(worker') /\ used' \in UsedType
    BY <1>7, <1>t, <2>1, FinishType, GotoType, FaultType DEF ScheduleRetry, PC
  <2> QED BY <1>7, <1>t, <1>g, <2>2, <2>3 DEF ScheduleRetry
<1>8. ASSUME NEW w \in Workers, DeadLetter(w) PROVE TypeOK'
  <2>1. worker[w].msg.req \in Requests /\ worker[w].msg.n \in 0 .. MaxRetries
    BY <1>8, HeldMsg DEF DeadLetter
  <2>2. [status |-> "dead_letter", retryCount |-> worker[w].msg.n, due |-> FALSE] \in Event
    BY <2>1 DEF Event
  <2>3. event' \in [Requests -> Event] /\ used' \in UsedType /\ unwritten' \in SUBSET Requests
    BY <1>8, <1>t, <2>1, <2>2, FaultType DEF DeadLetter
  <2>4. WorkersOK(worker')
    BY <1>8, <1>t, FinishType DEF DeadLetter
  <2> QED BY <1>8, <1>t, <1>g, <2>3, <2>4 DEF DeadLetter
<1>9. ASSUME NEW w \in Workers, Redeliver(w) PROVE TypeOK'
  <2>1. worker[w].msg \in Msg
    BY <1>9, HeldMsg DEF Redeliver
  <2>2. used' \in UsedType
    BY <1>9, <1>t, SpendType DEF Redeliver
  <2> QED BY <1>9, <1>t, <1>g, <2>1, <2>2 DEF Redeliver
<1>10. ASSUME NEW w \in Workers, Crash(w) PROVE TypeOK'
  <2>1. worker[w].msg \in Msg
    BY <1>10, HeldMsg DEF Crash
  <2>2. used' \in UsedType /\ WorkersOK(worker')
    BY <1>10, <1>t, FaultType, FinishType DEF Crash
  <2> QED BY <1>10, <1>t, <1>g, <2>1, <2>2 DEF Crash
<1>11. ASSUME NEW m \in delayed, Fire(m) PROVE TypeOK'
  BY <1>11, <1>t, <1>g DEF Fire
<1>12. ASSUME NEW m \in delayed, LoseSchedule(m) PROVE TypeOK'
  <2>1. used' \in UsedType
    BY <1>12, <1>t, FaultType DEF LoseSchedule
  <2> QED BY <1>12, <1>t, <1>g, <2>1 DEF LoseSchedule
<1>13. ASSUME NEW r \in Requests, FallDue(r) PROVE TypeOK'
  <2>1. [event[r] EXCEPT !.due = TRUE] \in Event
    BY <1>t, Zenon DEF Event
  <2>2. event' = [event EXCEPT ![r] = [event[r] EXCEPT !.due = TRUE]]
    BY <1>13 DEF FallDue
  <2>3. event' \in [Requests -> Event]
    BY <1>t, <2>1, <2>2
  <2> QED BY <1>13, <1>t, <1>g, <2>3 DEF FallDue
<1>14. ASSUME NEW s \in Scanners, ScanSelect(s) PROVE TypeOK'
  <2>1. \A r \in Requests : [m |-> AsMsg(r), leased |-> FALSE] \in Selected
    BY AsMsgType DEF Selected
  <2>2. scan' \in [Scanners -> SUBSET Selected]
    BY <1>14, <1>t, <2>1 DEF ScanSelect
  <2> QED BY <1>14, <1>t, <1>g, <2>2 DEF ScanSelect
<1>15. ASSUME NEW s \in Scanners, ScanLease(s) PROVE TypeOK'
  <2>1. \A x \in Selected : [x EXCEPT !.leased = TRUE] \in Selected
    BY Zenon DEF Selected
  <2>2. scan' \in [Scanners -> SUBSET Selected]
    BY <1>15, <1>t, <2>1 DEF ScanLease
  <2>3. \A e \in Event : [e EXCEPT !.due = FALSE] \in Event
    BY Zenon DEF Event
  <2>4. event' \in [Requests -> Event]
    BY <1>15, <1>t, <2>3 DEF ScanLease
  <2> QED BY <1>15, <1>t, <1>g, <2>2, <2>4 DEF ScanLease
<1>16. ASSUME NEW s \in Scanners, NEW x \in scan[s], ScanEnqueue(s, x) PROVE TypeOK'
  <2>1. x.m \in Msg /\ x.m.req \in Requests
    BY <1>t DEF Selected, Msg
  <2>2. queue' \in SUBSET Msg /\ rearmed' \in [Requests -> Nat] /\ used' \in UsedType
    BY <1>16, <1>t, <2>1, FaultType DEF ScanEnqueue
  <2>3. scan' \in [Scanners -> SUBSET Selected]
    BY <1>16, <1>t DEF ScanEnqueue
  <2> QED BY <1>16, <1>t, <1>g, <2>2, <2>3 DEF ScanEnqueue
<1>17. ASSUME NEW r \in Requests, Replay(r) PROVE TypeOK'
  <2>1. AsMsg(r) \in Msg
    BY AsMsgType
  <2>2. used' \in UsedType
    BY <1>17, <1>t, SpendType DEF Replay
  <2> QED BY <1>17, <1>t, <1>g, <2>1, <2>2 DEF Replay
<1>18. ASSUME UNCHANGED vars PROVE TypeOK'
  BY <1>18, <1>t, <1>g DEF vars, WorkersOK
<1>19. ASSUME NEW w \in Workers, Escape(w) PROVE TypeOK'
  <2>1. worker[w].msg.req \in Requests
    BY <1>19, HeldMsg DEF Escape
  <2>2. WorkersOK(worker') /\ used' \in UsedType /\ unhandled' \in SUBSET Requests
    BY <1>19, <1>t, <2>1, FinishType, FaultType DEF Escape
  <2> QED BY <1>19, <1>t, <1>g, <2>2 DEF Escape
<1> QED BY <1>1, <1>2, <1>3, <1>4, <1>5, <1>6, <1>7, <1>8, <1>9, <1>10, <1>11, <1>12,
           <1>13, <1>14, <1>15, <1>16, <1>17, <1>18, <1>19 DEF Next, WorkerStep, ScanStep

\* Every variable keeps its type; no message counts more than policy.max_retries.
THEOREM IngestTypeCorrect == Spec => []TypeOK
BY TypeInit, TypeNext, PTL DEF Spec
-----------------------------------------------------------------------------
(* No webhook is lost *)

\* No step removes a row.
LEMMA RowsStay ==
    ASSUME TypeOK, [Next]_vars, NEW r \in Requests, event[r].status # "none"
    PROVE  event'[r].status # "none"
<1>e. event \in [Requests -> Event]
  BY DEF TypeOK
<1>1. ASSUME NEW w \in Workers, Succeed(w) PROVE event'[r].status # "none"
  BY <1>1, <1>e, HeldMsg, CompletedType DEF Succeed
<1>2. ASSUME NEW w \in Workers, RecordRetry(w) PROVE event'[r].status # "none"
  <2>1. worker[w].msg.req \in Requests /\ worker[w].msg.n + 1 \in 0 .. MaxRetries
    BY <1>2, HeldMsg DEF RecordRetry
  <2>2. Retrying(event[r], worker[w].msg.n + 1).status # "none"
    BY <1>e, <2>1, RetryingType
  <2> QED BY <1>2, <1>e, <2>1, <2>2 DEF RecordRetry
<1>3. ASSUME NEW w \in Workers, DeadLetter(w) PROVE event'[r].status # "none"
  <2>1. worker[w].msg.req \in Requests
    BY <1>3, HeldMsg DEF DeadLetter
  <2> QED BY <1>3, <1>e, <2>1 DEF DeadLetter
<1>4. ASSUME NEW q \in Requests, FallDue(q) PROVE event'[r].status # "none"
  <2>1. [event[q] EXCEPT !.due = TRUE].status = event[q].status
    BY <1>e, Zenon DEF Event
  <2>2. event' = [event EXCEPT ![q] = [event[q] EXCEPT !.due = TRUE]]
    BY <1>4 DEF FallDue
  <2> QED BY <1>e, <2>1, <2>2
<1>5. ASSUME NEW s \in Scanners, ScanLease(s) PROVE event'[r].status # "none"
  <2>1. [event[r] EXCEPT !.due = FALSE].status = event[r].status
    BY <1>e, Zenon DEF Event
  <2>2. event'[r] = [event[r] EXCEPT !.due = FALSE] \/ event'[r] = event[r]
    BY <1>5 DEF ScanLease
  <2> QED BY <2>1, <2>2
<1>6. ASSUME event' = event PROVE event'[r].status # "none"
  BY <1>6
<1> QED BY <1>1, <1>2, <1>3, <1>4, <1>5, <1>6
        DEF Next, WorkerStep, ScanStep, vars, Receive, Replay, TakeMessage, Suppress, Fail, Escape,
            ScheduleRetry, Redeliver, Crash, Fire, LoseSchedule, ScanSelect, ScanEnqueue

LEMMA KeptStays ==
    ASSUME TypeOK, [Next]_vars, NEW r \in Requests, Kept(r)
    PROVE  KeptNext(r)
<1>1. unwritten \cup unhandled \subseteq unwritten' \cup unhandled'
  BY DEF Next, WorkerStep, ScanStep, vars, Receive, Replay, TakeMessage, Succeed, Suppress, Fail, Escape,
         RecordRetry, ScheduleRetry, DeadLetter, Redeliver, Crash, Fire, LoseSchedule, FallDue,
         ScanSelect, ScanLease, ScanEnqueue
<1> QED BY <1>1, RowsStay DEF Kept, KeptNext

LEMMA BackedNext ==
    ASSUME TypeOK, Backed, [Next]_vars
    PROVE  Backed'
<1>d. \A m \in delayed : KeptNext(m.req)
  <2> SUFFICES ASSUME NEW m \in delayed PROVE KeptNext(m.req)
    OBVIOUS
  <2>1. m.req \in Requests
    BY DEF TypeOK, Msg
  <2> QED BY <2>1, KeptStays DEF Backed
<1>w. \A w \in Workers : worker[w].pc = "schedule" => KeptNext(worker[w].msg.req)
  BY HeldMsg, KeptStays DEF Backed
<1>t. WorkersOK(worker) /\ worker \in [Workers -> Worker]
  BY TypeOKParts DEF WorkersOK
<1>g. ( /\ \A m \in delayed' : KeptNext(m.req)
        /\ \A w \in Workers : worker'[w].pc = "schedule" => KeptNext(worker'[w].msg.req) ) => Backed'
  BY DEF Backed, Kept, KeptNext
\* Steps that make no schedule and send no worker to "schedule".
<1>k. ASSUME delayed' \subseteq delayed,
             \A w \in Workers : \/ worker'[w] = worker[w]
                                 \/ worker'[w].pc # "schedule"
      PROVE  Backed'
  <2>1. \A m \in delayed' : KeptNext(m.req)
    BY <1>k, <1>d
  <2>2. \A w \in Workers : worker'[w].pc = "schedule" => KeptNext(worker'[w].msg.req)
    BY <1>k, <1>w
  <2> QED BY <1>g, <2>1, <2>2
<1>1. ASSUME NEW w \in Workers, NEW m \in queue, TakeMessage(w, m) PROVE Backed'
  BY <1>1, <1>k, <1>t DEF TakeMessage
<1>2. ASSUME NEW w \in Workers, Finish(w), delayed' \subseteq delayed PROVE Backed'
  BY <1>2, <1>k, <1>t, IdleType DEF Finish
<1>3. ASSUME NEW w \in Workers, worker[w].pc # "idle", HandleFailure(w), delayed' \subseteq delayed
      PROVE Backed'
  BY <1>3, <1>k, <1>t, HandleFailureType
<1>4. ASSUME NEW w \in Workers, RecordRetry(w) PROVE Backed'
  <2>1. /\ worker[w].pc = "record" /\ worker[w].msg.req \in Requests
        /\ worker[w].msg.n < MaxRetries /\ worker[w].msg.n + 1 \in 0 .. MaxRetries
    BY <1>4, <1>t, HeldMsg DEF RecordRetry, WorkersOK
  <2>2. \/ event' = [event EXCEPT ![worker[w].msg.req] = Retrying(@, worker[w].msg.n + 1)]
        \/ worker[w].msg.req \in unwritten'
    BY <1>4 DEF RecordRetry
  <2>3. event \in [Requests -> Event]
    BY DEF TypeOK
  <2>4. Retrying(event[worker[w].msg.req], worker[w].msg.n + 1).status # "none"
    BY <2>1, <2>3, RetryingType
  <2>5. KeptNext(worker[w].msg.req)
    BY <2>1, <2>2, <2>3, <2>4 DEF KeptNext
  <2>6. worker'[w].msg = worker[w].msg /\ \A x \in Workers \ {w} : worker'[x] = worker[x]
    BY <1>4, <1>t, <2>1, GotoType DEF RecordRetry, PC
  <2>7. \A x \in Workers : worker'[x].pc = "schedule" => KeptNext(worker'[x].msg.req)
    BY <1>w, <2>5, <2>6
  <2> QED BY <1>4, <1>d, <1>g, <2>7 DEF RecordRetry
<1>5. ASSUME NEW w \in Workers, ScheduleRetry(w) PROVE Backed'
  <2>1. worker[w].pc = "schedule" /\ KeptNext(worker[w].msg.req)
    BY <1>5, <1>w DEF ScheduleRetry
  <2>2. \A m \in delayed' : KeptNext(m.req)
    <3>1. delayed' \subseteq delayed \cup {[req |-> worker[w].msg.req, n |-> worker[w].msg.n + 1]}
      BY <1>5 DEF ScheduleRetry
    <3> QED BY <3>1, <2>1, <1>d
  <2>3. \A x \in Workers : worker'[x] = worker[x] \/ worker'[x].pc # "schedule"
    <3>1. CASE Finish(w)
      BY <3>1, <1>t, IdleType DEF Finish
    <3>2. CASE Goto(w, "dead")
      BY <3>2, <1>t, <2>1, GotoType DEF PC
    <3> QED BY <1>5, <3>1, <3>2 DEF ScheduleRetry
  <2> QED BY <1>g, <1>w, <2>2, <2>3
<1>6. ASSUME worker' = worker, delayed' \subseteq delayed PROVE Backed'
  BY <1>6, <1>k
<1>7. ASSUME NEW w \in Workers, Succeed(w) PROVE Backed'
  BY <1>7, <1>2, <1>3 DEF Succeed
<1>8. ASSUME NEW w \in Workers, Fail(w) PROVE Backed'
  BY <1>8, <1>3 DEF Fail
<1> QED BY <1>1, <1>2, <1>4, <1>5, <1>6, <1>7, <1>8
        DEF Next, WorkerStep, ScanStep, vars, Receive, Replay, FallDue, Suppress, DeadLetter,
            Escape, Redeliver, Crash, Fire, LoseSchedule, ScanSelect, ScanLease, ScanEnqueue

LEMMA NotLostNext ==
    ASSUME TypeOK, Backed, NotLost, [Next]_vars
    PROVE  NotLost'
<1> DEFINE Held(r) == \E w \in Workers : worker'[w].pc # "idle" /\ worker'[w].msg.req = r
           Queued(r) == \E m \in queue' \cup delayed' : m.req = r
<1>t. /\ WorkersOK(worker) /\ worker \in [Workers -> Worker]
      /\ event \in [Requests -> Event]
      /\ accepted \in SUBSET Requests
  BY TypeOKParts DEF WorkersOK
<1>g. (\A r \in accepted' \ shed' : Queued(r) \/ Held(r) \/ KeptNext(r)) => NotLost'
  BY DEF NotLost, InFlight, KeptNext
<1>r. \A r \in accepted \ shed :
         \/ \E m \in queue \cup delayed : m.req = r
         \/ \E w \in Workers : worker[w].pc # "idle" /\ worker[w].msg.req = r
         \/ KeptNext(r)
  <2> SUFFICES ASSUME NEW r \in accepted \ shed
               PROVE  \/ \E m \in queue \cup delayed : m.req = r
                      \/ \E w \in Workers : worker[w].pc # "idle" /\ worker[w].msg.req = r
                      \/ KeptNext(r)
    OBVIOUS
  <2>1. Kept(r) => KeptNext(r)
    BY <1>t, KeptStays
  <2> QED BY <2>1 DEF NotLost, InFlight, Kept
<1>b. \A m \in delayed : KeptNext(m.req)
  <2> SUFFICES ASSUME NEW m \in delayed PROVE KeptNext(m.req)
    OBVIOUS
  <2>1. m.req \in Requests
    BY DEF TypeOK, Msg
  <2> QED BY <2>1, KeptStays DEF Backed
\* Steps that drop no message.
<1>k. ASSUME accepted' = accepted, shed \subseteq shed', queue \subseteq queue',
             \A w \in Workers : worker[w].pc # "idle" =>
                 \/ worker'[w].pc # "idle" /\ worker'[w].msg = worker[w].msg
                 \/ \E m \in queue' \cup delayed' : m.req = worker[w].msg.req
                 \/ KeptNext(worker[w].msg.req)
                 \/ worker[w].msg.req \in shed'
      PROVE  NotLost'
  <2> SUFFICES ASSUME NEW r \in accepted' \ shed' PROVE Queued(r) \/ Held(r) \/ KeptNext(r)
    BY <1>g
  <2>1. CASE \E m \in queue \cup delayed : m.req = r
    BY <1>k, <1>b, <2>1
  <2>2. CASE \E w \in Workers : worker[w].pc # "idle" /\ worker[w].msg.req = r
    <3> PICK w \in Workers : worker[w].pc # "idle" /\ worker[w].msg.req = r
      BY <2>2
    <3> QED BY <1>k
  <2> QED BY <1>k, <1>r, <2>1, <2>2
<1>1. ASSUME NEW q \in Requests, Receive(q) PROVE NotLost'
  <2> SUFFICES ASSUME NEW r \in accepted' \ shed' PROVE Queued(r) \/ Held(r) \/ KeptNext(r)
    BY <1>g
  <2>1. CASE r = q
    <3>1. [req |-> q, n |-> 0] \in queue' /\ [req |-> q, n |-> 0].req = q
      BY <1>1 DEF Receive
    <3> QED BY <2>1, <3>1
  <2>2. CASE r # q
    BY <2>2, <1>1, <1>r DEF Receive
  <2> QED BY <2>1, <2>2
<1>2. ASSUME NEW w \in Workers, NEW m \in queue, TakeMessage(w, m) PROVE NotLost'
  <2>1. worker[w].pc = "idle" /\ worker'[w].pc # "idle" /\ worker'[w].msg = m
    BY <1>2, <1>t DEF TakeMessage
  <2>2. \A x \in Workers \ {w} : worker'[x] = worker[x]
    BY <1>2, <1>t DEF TakeMessage
  <2> SUFFICES ASSUME NEW r \in accepted' \ shed' PROVE Queued(r) \/ Held(r) \/ KeptNext(r)
    BY <1>g
  <2>3. r \in accepted \ shed /\ queue' = queue \ {m} /\ delayed' = delayed
    BY <1>2 DEF TakeMessage
  <2>4. CASE m.req = r
    BY <2>1, <2>4
  <2>5. CASE m.req # r
    <3>1. ASSUME NEW k \in queue \cup delayed, k.req = r PROVE Queued(r)
      BY <3>1, <2>3, <2>5
    <3>2. ASSUME NEW x \in Workers, worker[x].pc # "idle", worker[x].msg.req = r PROVE Held(r)
      BY <3>2, <2>1, <2>2
    <3> QED BY <3>1, <3>2, <2>3, <1>r
  <2> QED BY <2>4, <2>5
<1>3. ASSUME NEW w \in Workers, Succeed(w) PROVE NotLost'
  <2>1. worker[w].pc = "process" /\ worker[w].msg.req \in Requests
    BY <1>3, HeldMsg DEF Succeed
  <2>2. KeptNext(worker[w].msg.req)
    BY <1>3, <1>t, <2>1, CompletedType DEF Succeed, KeptNext
  <2>3. \A x \in Workers \ {w} : worker'[x] = worker[x]
    BY <1>3, <1>t, <2>1, HandleFailureType DEF Succeed, Finish
  <2> QED BY <1>3, <1>k, <2>2, <2>3 DEF Succeed
<1>4. ASSUME NEW w \in Workers, Suppress(w) PROVE NotLost'
  <2>1. \A x \in Workers \ {w} : worker'[x] = worker[x]
    BY <1>4, <1>t DEF Suppress, Finish
  <2> QED BY <1>4, <1>k, <2>1 DEF Suppress
<1>5. ASSUME NEW w \in Workers, Fail(w) PROVE NotLost'
  <2>1. /\ worker'[w].pc # "idle" /\ worker'[w].msg = worker[w].msg
        /\ \A x \in Workers \ {w} : worker'[x] = worker[x]
    BY <1>5, <1>t, HandleFailureType DEF Fail
  <2> QED BY <1>5, <1>k, <2>1 DEF Fail
<1>6. ASSUME NEW w \in Workers, RecordRetry(w) PROVE NotLost'
  <2>1. worker[w].pc = "record" /\ worker[w].msg.n < MaxRetries
    BY <1>6, <1>t DEF RecordRetry, WorkersOK
  <2>2. /\ worker'[w].pc # "idle" /\ worker'[w].msg = worker[w].msg
        /\ \A x \in Workers \ {w} : worker'[x] = worker[x]
    BY <1>6, <1>t, <2>1, GotoType DEF RecordRetry, PC
  <2> QED BY <1>6, <1>k, <2>2 DEF RecordRetry
<1>7. ASSUME NEW w \in Workers, ScheduleRetry(w) PROVE NotLost'
  <2>1. worker[w].pc = "schedule" /\ worker[w].msg.req \in Requests
    BY <1>7, HeldMsg DEF ScheduleRetry
  <2>2. KeptNext(worker[w].msg.req)
    BY <2>1, KeptStays DEF Backed
  <2>3. \A x \in Workers \ {w} : worker'[x] = worker[x]
    BY <1>7, <1>t DEF ScheduleRetry, Finish, Goto
  <2> QED BY <1>7, <1>k, <2>2, <2>3 DEF ScheduleRetry
<1>8. ASSUME NEW w \in Workers, DeadLetter(w) PROVE NotLost'
  <2>1. worker[w].msg.req \in Requests
    BY <1>8, HeldMsg DEF DeadLetter
  <2>2. KeptNext(worker[w].msg.req)
    BY <1>8, <1>t, <2>1 DEF DeadLetter, KeptNext
  <2>3. \A x \in Workers \ {w} : worker'[x] = worker[x]
    BY <1>8, <1>t DEF DeadLetter, Finish
  <2> QED BY <1>8, <1>k, <2>2, <2>3 DEF DeadLetter
<1>9. ASSUME NEW w \in Workers, Crash(w) PROVE NotLost'
  <2>1. \A x \in Workers \ {w} : worker'[x] = worker[x]
    BY <1>9, <1>t DEF Crash, Finish
  <2> QED BY <1>9, <1>k, <2>1 DEF Crash
<1>11. ASSUME NEW w \in Workers, Escape(w) PROVE NotLost'
  <2>1. worker[w].msg.req \in Requests
    BY <1>11, HeldMsg DEF Escape
  <2>2. KeptNext(worker[w].msg.req)
    BY <1>11, <2>1 DEF Escape, KeptNext
  <2>3. \A x \in Workers \ {w} : worker'[x] = worker[x]
    BY <1>11, <1>t DEF Escape, Finish
  <2> QED BY <1>11, <1>k, <2>2, <2>3 DEF Escape
<1>10. ASSUME worker' = worker, accepted' = accepted, shed' = shed, queue \subseteq queue'
       PROVE  NotLost'
  BY <1>10, <1>k
<1> QED BY <1>1, <1>2, <1>3, <1>4, <1>5, <1>6, <1>7, <1>8, <1>9, <1>10, <1>11
        DEF Next, WorkerStep, ScanStep, vars, Replay, FallDue, Redeliver, Fire, LoseSchedule,
            ScanSelect, ScanLease, ScanEnqueue

\* At-least-once after the enqueue: no webhook that was answered 200 and not shed
\* is ever lost, whatever the crashes, lost schedules, redeliveries, replays and
\* races, unless the database refused a write of its failure handler or an error passed
\* that handler by while there was no row.
THEOREM NeverLost == Spec => []NotLost
<1>1. Init => IInv
  BY TypeInit DEF Init, IInv, Backed, NotLost, InFlight, Idle
<1>2. IInv /\ [Next]_vars => IInv'
  BY TypeNext, BackedNext, NotLostNext DEF IInv
<1>3. IInv => NotLost
  BY DEF IInv
<1> QED BY <1>1, <1>2, <1>3, PTL DEF Spec

\* A failed attempt never takes a completed event back to the retries
\* (record_raw_ingest_retry updates only rows that are not completed).
THEOREM NeverReopened == Spec => RetryNeverReopens
<1>1. ASSUME TypeOK, [Next]_vars, NEW r \in Requests, event[r].status = "completed"
      PROVE  event'[r].status # "retry"
  <2>e. event \in [Requests -> Event]
    BY <1>1 DEF TypeOK
  <2>1. ASSUME NEW w \in Workers, Succeed(w) PROVE event'[r].status # "retry"
    BY <2>1, <1>1, <2>e, HeldMsg, CompletedType DEF Succeed
  <2>2. ASSUME NEW w \in Workers, RecordRetry(w) PROVE event'[r].status # "retry"
    <3>1. Retrying(event[r], worker[w].msg.n + 1) = event[r]
      BY <1>1 DEF Retrying
    <3> QED BY <2>2, <1>1, <2>e, <3>1 DEF RecordRetry
  <2>3. ASSUME NEW w \in Workers, DeadLetter(w) PROVE event'[r].status # "retry"
    BY <2>3, <1>1, <2>e DEF DeadLetter
  <2>4. ASSUME NEW q \in Requests, FallDue(q) PROVE event'[r].status # "retry"
    BY <2>4, <1>1, <2>e DEF FallDue
  <2>5. ASSUME NEW s \in Scanners, ScanLease(s) PROVE event'[r].status # "retry"
    <3>1. [event[r] EXCEPT !.due = FALSE].status = event[r].status
      BY <2>e, <1>1, Zenon DEF Event
    <3>2. event'[r] = [event[r] EXCEPT !.due = FALSE] \/ event'[r] = event[r]
      BY <2>5, <1>1 DEF ScanLease
    <3> QED BY <3>1, <3>2, <1>1
  <2>6. ASSUME event' = event PROVE event'[r].status # "retry"
    BY <2>6, <1>1
  <2> QED BY <1>1, <2>1, <2>2, <2>3, <2>4, <2>5, <2>6
          DEF Next, WorkerStep, ScanStep, vars, Receive, Replay, TakeMessage, Suppress, Fail, Escape,
              ScheduleRetry, Redeliver, Crash, Fire, LoseSchedule, ScanSelect, ScanEnqueue
<1>2. TypeOK /\ [Next]_vars =>
        [\A r \in Requests : event[r].status = "completed" => event'[r].status # "retry"]_vars
  BY <1>1
<1> QED BY <1>2, IngestTypeCorrect, PTL DEF Spec, RetryNeverReopens
-----------------------------------------------------------------------------
(* One enqueue each time a row falls due *)

\* One process runs the scan (the scheduler starts it; two at once need two
\* schedulers).
OneScanner == \A s, t \in Scanners : s = t

\* A row that is overdue, and a row that a scan still holds, has not been enqueued
\* since it fell due; a scan holds each row once; a lease outlasts the scan.
Leased ==
    /\ \A r \in Requests : event[r].due => rearmed[r] = 0
    /\ \A s \in Scanners : \A x \in scan[s] :
          /\ rearmed[x.m.req] = 0
          /\ x.leased => ~ event[x.m.req].due
          /\ \A y \in scan[s] : y.m.req = x.m.req => y = x

RearmInv == TypeOK /\ Leased /\ OneRearm

LEMMA RearmInit == Init => Leased /\ OneRearm
BY DEF Init, Leased, OneRearm, NoEvent

LEMMA RearmNext ==
    ASSUME OneScanner, RearmInv, [Next]_vars
    PROVE  Leased' /\ OneRearm'
<1>t. /\ event \in [Requests -> Event]
      /\ scan \in [Scanners -> SUBSET Selected]
      /\ rearmed \in [Requests -> Nat]
      /\ TypeOK /\ Leased /\ OneRearm
  BY TypeOKParts DEF RearmInv, Selected
<1>m. \A s \in Scanners : \A x \in scan[s] : x.m \in Msg /\ x.m.req \in Requests
  BY <1>t DEF Selected, Msg
\* Steps that make no row due and no count grow, and leave the scan alone.
<1>k. ASSUME scan' = scan,
             \A r \in Requests : /\ event'[r].due => event[r].due
                                 /\ rearmed'[r] = rearmed[r] \/ rearmed'[r] = 0
      PROVE  Leased' /\ OneRearm'
  BY <1>k, <1>m, <1>t DEF Leased, OneRearm
<1>1. ASSUME NEW w \in Workers, Succeed(w) \/ DeadLetter(w) PROVE Leased' /\ OneRearm'
  <2>1. worker[w].msg.req \in Requests /\ rearmed' = rearmed /\ scan' = scan
    BY <1>1, <1>t, HeldMsg DEF Succeed, DeadLetter
  <2>2. \A e \in Event : Completed(e).due => e.due
    BY DEF Completed, Event
  <2>3. \A r \in Requests : event'[r].due => event[r].due
    BY <1>1, <1>t, <2>1, <2>2 DEF Succeed, DeadLetter
  <2> QED BY <1>k, <2>1, <2>3
<1>2. ASSUME NEW w \in Workers, RecordRetry(w) PROVE Leased' /\ OneRearm'
  <2>1. worker[w].msg.req \in Requests /\ worker[w].msg.n + 1 \in 0 .. MaxRetries
    BY <1>2, <1>t, HeldMsg DEF RecordRetry
  <2>2. \A e \in Event : Retrying(e, worker[w].msg.n + 1).due => e.due
    BY DEF Retrying, Event
  <2>3. \A r \in Requests : event'[r].due => event[r].due
    BY <1>2, <1>t, <2>1, <2>2 DEF RecordRetry
  <2>4. scan' = scan /\ \A r \in Requests : rearmed'[r] = rearmed[r] \/ rearmed'[r] = 0
    BY <1>2, <1>t DEF RecordRetry
  <2> QED BY <1>k, <2>3, <2>4
<1>3. ASSUME NEW q \in Requests, FallDue(q) PROVE Leased' /\ OneRearm'
  <2>1. /\ \A r \in Requests \ {q} : event'[r] = event[r] /\ rearmed'[r] = rearmed[r]
        /\ rearmed'[q] = 0 /\ scan' = scan
    BY <1>3, <1>t DEF FallDue
  <2>2. ASSUME NEW s \in Scanners, NEW x \in scan[s], x.leased PROVE x.m.req # q
    <3>1. x \in [m : Msg, leased : BOOLEAN]
      BY <1>t DEF Selected
    <3>2. x = [m |-> x.m, leased |-> TRUE]
      BY <3>1, <2>2
    <3> QED BY <1>3, <1>m, <2>2, <3>2 DEF FallDue
  <2> QED BY <1>t, <1>m, <2>1, <2>2 DEF Leased, OneRearm
<1>4. ASSUME NEW s \in Scanners, ScanSelect(s) PROVE Leased' /\ OneRearm'
  <2> DEFINE new == {[m |-> AsMsg(r), leased |-> FALSE] : r \in {q \in Requests : Overdue(event[q])}}
  <2>1. scan' = [scan EXCEPT ![s] = new] /\ event' = event /\ rearmed' = rearmed
    BY <1>4 DEF ScanSelect
  <2>2. \A t \in Scanners : scan'[t] = new
    BY <2>1, <1>t DEF OneScanner
  <2>3. ASSUME NEW x \in new
        PROVE  /\ rearmed[x.m.req] = 0 /\ ~ x.leased
               /\ \A y \in new : y.m.req = x.m.req => y = x
    <3>1. PICK r \in Requests : x = [m |-> AsMsg(r), leased |-> FALSE] /\ Overdue(event[r])
      BY <2>3
    <3>2. x.m.req = r /\ ~ x.leased /\ rearmed[r] = 0
      BY <1>t, <3>1, AsMsgType DEF Leased, Overdue
    <3>3. ASSUME NEW y \in new, y.m.req = x.m.req PROVE y = x
      <4>1. PICK q \in Requests : y = [m |-> AsMsg(q), leased |-> FALSE]
        BY <3>3
      <4>2. y.m.req = q
        BY <1>t, <4>1, AsMsgType
      <4> QED BY <3>1, <3>2, <3>3, <4>1, <4>2
    <3> QED BY <3>2, <3>3
  <2> HIDE DEF new
  <2> QED BY <1>t, <2>1, <2>2, <2>3 DEF Leased, OneRearm
<1>5. ASSUME NEW s \in Scanners, ScanLease(s) PROVE Leased' /\ OneRearm'
  <2> DEFINE take(x) == [x EXCEPT !.leased = TRUE]
  <2>1. /\ scan' = [scan EXCEPT ![s] = {take(x) : x \in scan[s]}] /\ rearmed' = rearmed
        /\ event' = [r \in Requests |->
                       IF \E x \in scan[s] : x.m.req = r THEN [event[r] EXCEPT !.due = FALSE]
                       ELSE event[r]]
    BY <1>5, Zenon DEF ScanLease
  <2>2. \A t \in Scanners : scan'[t] = {take(x) : x \in scan[s]}
    BY <2>1, <1>t DEF OneScanner
  <2>3. \A x \in Selected : take(x).m = x.m
    BY Zenon DEF Selected
  <2>4. \A e \in Event : ~ [e EXCEPT !.due = FALSE].due
    BY Zenon DEF Event
  <2>5. \A r \in Requests : /\ event'[r].due => event[r].due
                            /\ (\E x \in scan[s] : x.m.req = r) => ~ event'[r].due
    BY <2>1, <2>4, <1>t
  <2>6. scan[s] \subseteq Selected
    BY <1>t
  <2> HIDE DEF take
  <2>7. ASSUME NEW t \in Scanners, NEW x \in scan'[t]
        PROVE  /\ rearmed[x.m.req] = 0 /\ ~ event'[x.m.req].due
               /\ \A y \in scan'[t] : y.m.req = x.m.req => y = x
    <3>1. PICK u \in scan[s] : x = take(u)
      BY <2>2, <2>7
    <3>2. x.m.req = u.m.req /\ u.m.req \in Requests
      BY <1>m, <2>3, <2>6, <3>1
    <3>3. ASSUME NEW y \in scan'[t], y.m.req = x.m.req PROVE y = x
      <4>1. PICK v \in scan[s] : y = take(v)
        BY <2>2, <3>3
      <4>2. v.m.req = u.m.req
        BY <2>3, <2>6, <3>2, <3>3, <4>1
      <4>3. v = u
        BY <1>t, <4>2 DEF Leased
      <4> QED BY <3>1, <4>1, <4>3
    <3>4. rearmed[u.m.req] = 0
      BY <1>t DEF Leased
    <3> QED BY <2>5, <3>2, <3>3, <3>4
  <2> QED BY <1>t, <2>1, <2>5, <2>7 DEF Leased, OneRearm
<1>6. ASSUME NEW s \in Scanners, NEW x \in scan[s], ScanEnqueue(s, x) PROVE Leased' /\ OneRearm'
  <2>1. /\ x.leased /\ event' = event
        /\ rearmed' = [rearmed EXCEPT ![x.m.req] = @ + 1] \/ rearmed' = rearmed
    BY <1>6 DEF ScanEnqueue
  <2>2. \A t \in Scanners : scan'[t] \subseteq scan[s] \ {x}
    BY <1>6, <1>t DEF ScanEnqueue, OneScanner
  <2>3. /\ x.m.req \in Requests /\ rearmed[x.m.req] = 0 /\ ~ event[x.m.req].due
        /\ \A y \in scan[s] \ {x} : y.m.req # x.m.req
    BY <1>m, <1>t, <2>1 DEF Leased
  <2>4. /\ rearmed'[x.m.req] <= 1
        /\ \A r \in Requests \ {x.m.req} : rearmed'[r] = rearmed[r]
    BY <1>t, <2>1, <2>3
  <2>5. \A r \in Requests : event'[r].due => rearmed'[r] = 0
    BY <1>t, <2>1, <2>3, <2>4 DEF Leased
  <2>6. ASSUME NEW t \in Scanners, NEW y \in scan'[t]
        PROVE  /\ rearmed'[y.m.req] = 0 /\ (y.leased => ~ event'[y.m.req].due)
               /\ \A z \in scan'[t] : z.m.req = y.m.req => z = y
    <3>1. y \in scan[s] /\ y # x /\ y.m.req \in Requests \ {x.m.req}
      BY <1>m, <2>2, <2>3, <2>6
    <3> QED BY <1>t, <2>1, <2>2, <2>4, <3>1 DEF Leased
  <2>7. OneRearm'
    BY <1>t, <2>4 DEF OneRearm
  <2> QED BY <2>5, <2>6, <2>7 DEF Leased
<1>7. ASSUME event' = event, scan' = scan, rearmed' = rearmed PROVE Leased' /\ OneRearm'
  BY <1>7, <1>k
<1> QED BY <1>1, <1>2, <1>3, <1>4, <1>5, <1>6, <1>7
        DEF Next, WorkerStep, ScanStep, vars, Receive, Replay, TakeMessage, Suppress, Fail, Escape,
            ScheduleRetry, Redeliver, Crash, Fire, LoseSchedule

\* With one process scanning, a row is enqueued at most once each time it falls due,
\* whatever else happens to it between the scan's SELECT, its lease and its enqueues
\* (run_raw_ingest_retry_scan).
THEOREM RearmedOnce == ASSUME OneScanner PROVE Spec => []OneRearm
<1>1. Init => RearmInv
  BY TypeInit, RearmInit DEF RearmInv
<1>2. RearmInv /\ [Next]_vars => RearmInv'
  BY TypeNext, RearmNext DEF RearmInv
<1>3. RearmInv => OneRearm
  BY DEF RearmInv
<1> QED BY <1>1, <1>2, <1>3, PTL DEF Spec

-----------------------------------------------------------------------------
(* The processing gate: one task at a time works on a key, no more are     *)
(* inside than the storm threshold, and no process takes Redis for dead    *)
(* long after it answers again; for any number of processes, any lock TTL  *)
(* and renewal interval, and any number of crashes, outages and losses of  *)
(* Redis's data.                                                           *)

(* The inductive invariant *)

\* The lock is its holder's own, and as much of it is left as of the renewals;
\* or the holder's renewal is already late by the whole margin.
Owned(w) == lock.holder = w /\ lock.ttl + Renewal + task[w].late = LockTTL + task[w].renew
MarginUsed(w) == task[w].late + Renewal >= LockTTL
Held == \A w \in Working : (~task[w].lost /\ ~wiped) => Owned(w) \/ MarginUsed(w)

\* The counter stays within the threshold and counts every task inside.
Counting ==
    threshold > 0 =>
        /\ slots.n <= threshold
        /\ ~lapsed => Cardinality(Inside) <= slots.n

\* A probe is allowed before Redis has answered for an interval.
Probing == redis.up => \A w \in Handlers : health[w].ok \/ health[w].probe + redis.since <= ProbeInterval

GateInv == GateTypeOK /\ Held /\ Counting /\ Probing

-----------------------------------------------------------------------------
(* Lemmas on the records *)

LEMMA OutsideIs ==
    ASSUME GateAssumption
    PROVE  /\ Outside \in Task /\ Outside.pc = "idle" /\ Outside.left = 0 /\ Outside.renew = 0
           /\ Outside.late = 0 /\ Outside.lost = FALSE
           /\ Healthy \in Health /\ Healthy.ok = TRUE /\ Healthy.probe = 0
<1>1. 0 \in 0 .. WaitTimeout /\ 0 \in 0 .. Renewal /\ 0 \in 0 .. MaxLate /\ 0 \in 0 .. ProbeInterval
  BY DEF GateAssumption
<1>2. FALSE \in BOOLEAN /\ TRUE \in BOOLEAN
  OBVIOUS
<1> QED BY <1>1, <1>2, SMT DEF Outside, Task, Healthy, Health

\* The types of what one process has, taken apart.
LEMMA GateTypes ==
    ASSUME GateAssumption, GateTypeOK
    PROVE  /\ threshold \in Nat
           /\ slots \in [n : 0 .. (threshold + 1), ttl : 0 .. Window] /\ slots.n \in Nat /\ slots.ttl \in Nat
           /\ lock \in [holder : Handlers \cup {NoHolder}, ttl : 0 .. LockTTL] /\ lock.ttl \in Nat
           /\ \A w \in Handlers :
                 /\ task[w] \in Task /\ health[w] \in Health
                 /\ task[w].pc \in {"idle", "wait", "run", "commit"}
                 /\ task[w].left \in 0 .. WaitTimeout /\ task[w].renew \in 0 .. Renewal
                 /\ task[w].late \in 0 .. MaxLate /\ task[w].lost \in BOOLEAN
                 /\ health[w].ok \in BOOLEAN /\ health[w].probe \in 0 .. ProbeInterval
           /\ redis.up \in BOOLEAN /\ redis.since \in 0 .. ProbeInterval
<1>1. threshold \in Nat
  BY DEF GateAssumption, GateTypeOK
<1>2. slots \in [n : 0 .. (threshold + 1), ttl : 0 .. Window] /\ slots.n \in Nat /\ slots.ttl \in Nat
  BY <1>1 DEF GateTypeOK, GateAssumption
<1>3. lock \in [holder : Handlers \cup {NoHolder}, ttl : 0 .. LockTTL] /\ lock.ttl \in Nat
  BY DEF GateTypeOK, GateAssumption
<1>4. ASSUME NEW w \in Handlers
      PROVE  /\ task[w] \in Task /\ health[w] \in Health
             /\ task[w].pc \in {"idle", "wait", "run", "commit"}
             /\ task[w].left \in 0 .. WaitTimeout /\ task[w].renew \in 0 .. Renewal
             /\ task[w].late \in 0 .. MaxLate /\ task[w].lost \in BOOLEAN
             /\ health[w].ok \in BOOLEAN /\ health[w].probe \in 0 .. ProbeInterval
  <2>1. task[w] \in Task /\ health[w] \in Health
    BY DEF GateTypeOK
  <2> QED BY <2>1, SMT DEF Task, Health
<1>5. redis.up \in BOOLEAN /\ redis.since \in 0 .. ProbeInterval
  BY DEF GateTypeOK
<1> QED BY <1>1, <1>2, <1>3, <1>4, <1>5

\* The tasks inside are finitely many, and one that leaves is one fewer.
LEMMA InsideCounts ==
    ASSUME GateAssumption, NEW w \in Handlers, NEW S \in SUBSET Handlers
    PROVE  /\ IsFiniteSet(S) /\ Cardinality(S) \in Nat
           /\ Cardinality(S \ {w}) <= Cardinality(S)
           /\ w \in S => Cardinality(S \ {w}) = Cardinality(S) - 1
           /\ Cardinality(S \cup {w}) <= Cardinality(S) + 1
           /\ S = {} => Cardinality(S) = 0
<1>1. IsFiniteSet(S)
  BY FS_Subset DEF GateAssumption
<1>2. Cardinality(S) \in Nat
  BY <1>1, FS_CardinalityType
<1>3. Cardinality(S \ {w}) = IF w \in S THEN Cardinality(S) - 1 ELSE Cardinality(S)
  BY <1>1, FS_RemoveElement
<1>4. Cardinality(S \cup {w}) = IF w \in S THEN Cardinality(S) ELSE Cardinality(S) + 1
  BY <1>1, FS_AddElement
<1>5. S = {} => Cardinality(S) = 0
  BY FS_EmptySet
<1> QED BY <1>1, <1>2, <1>3, <1>4, <1>5

\* One process's task changes and no other's; what becomes of it.
GateBecomes(w, pc, left, renew, late, lost) ==
    /\ task' \in [Handlers -> Task]
    /\ \A u \in Handlers : u # w => task'[u] = task[u]
    /\ task'[w].pc = pc /\ task'[w].left = left /\ task'[w].renew = renew
    /\ task'[w].late = late /\ task'[w].lost = lost

LEMMA GateUpdate ==
    ASSUME task \in [Handlers -> Task], NEW w \in Handlers, NEW r \in Task, task' = [task EXCEPT ![w] = r]
    PROVE  GateBecomes(w, r.pc, r.left, r.renew, r.late, r.lost)
<1>1. task' \in [Handlers -> Task] /\ task'[w] = r /\ \A u \in Handlers : u # w => task'[u] = task[u]
  BY Zenon
<1> QED BY <1>1, Zenon DEF GateBecomes

\* The types of the task list and of the health are kept by each change of one.
LEMMA HealthKept ==
    ASSUME GateAssumption, GateTypeOK, NEW w \in Handlers, Answered(w) \/ NoAnswer(w) \/ UNCHANGED health
    PROVE  health' \in [Handlers -> Health]
<1>1. health \in [Handlers -> Health]
  BY DEF GateTypeOK
<1>2. Healthy \in Health
  BY OutsideIs
<1>3. [ok |-> FALSE, probe |-> ProbeInterval] \in Health
  BY SMT DEF Health, GateAssumption
<1> QED BY <1>1, <1>2, <1>3, Zenon DEF Answered, NoAnswer

\* Once Redis is up, what a process believes of it changes only for the better.
Believes(w) ==
    /\ redis' = redis
    /\ \/ Answered(w) \/ UNCHANGED health
       \/ NoAnswer(w) /\ (~redis.up \/ (~health[w].ok /\ health[w].probe > 0))

LEMMA ProbingKept ==
    ASSUME GateAssumption, GateTypeOK, Probing, NEW w \in Handlers, Believes(w)
    PROVE  Probing'
<1>1. health \in [Handlers -> Health]
  BY DEF GateTypeOK
<1>0. redis' = redis
  BY DEF Believes
<1>2. CASE UNCHANGED health \/ ~redis.up
  BY <1>0, <1>2 DEF Probing
<1>3. CASE Answered(w)
  <2>1. health'[w].ok /\ \A u \in Handlers : u # w => health'[u] = health[u]
    BY <1>1, <1>3, OutsideIs, Zenon DEF Answered
  <2> QED BY <1>0, <2>1 DEF Probing
<1>4. CASE NoAnswer(w) /\ ~health[w].ok /\ health[w].probe > 0
  <2>1. health' = health
    BY <1>1, <1>4, Zenon DEF NoAnswer
  <2> QED BY <1>0, <2>1 DEF Probing
<1> QED BY <1>2, <1>3, <1>4 DEF Believes

\* A task that is not working has nothing to hold; one that works as before
\* under the same lock holds what it held.
LEMMA HeldKept ==
    ASSUME Held, NEW w \in Handlers, \A u \in Handlers : u # w => task'[u] = task[u],
           lock' = lock, wiped => wiped',
           task'[w].pc \in {"idle", "wait"} \/ (task'[w].pc \in {"run", "commit"} /\ task'[w].lost)
    PROVE  Held'
BY DEF Held, Working, Owned, MarginUsed

-----------------------------------------------------------------------------
(* One lemma for each action *)

\* The alert is refused, or takes a slot and waits.
LEMMA ReserveStep ==
    ASSUME GateAssumption, GateInv, NEW w \in Handlers, Reserve(w)
    PROVE  GateInv'
<1>0. GateTypeOK /\ task \in [Handlers -> Task]
  BY DEF GateInv, GateTypeOK
<1>1. /\ UNCHANGED <<threshold, lock, redis, lapsed, wiped, faults>> /\ task[w].pc = "idle"
      /\ health' \in [Handlers -> Health]
  BY <1>0, HealthKept DEF Reserve
<1>b. Believes(w)
  BY DEF Believes, Reserve
<1>2. Probing'
  BY <1>0, <1>b, ProbingKept DEF GateInv
<1>3. CASE Full /\ UNCHANGED <<slots, task>>
  <2>1. GateTypeOK'
    BY <1>0, <1>1, <1>3 DEF GateTypeOK
  <2>2. Held' /\ Counting'
    BY <1>1, <1>3 DEF GateInv, Held, Owned, MarginUsed, Working, Counting, Inside
  <2> QED BY <1>2, <2>1, <2>2 DEF GateInv
<1>4. CASE /\ ~Full
           /\ slots' = IF threshold = 0 THEN slots ELSE [n |-> slots.n + 1, ttl |-> Window]
           /\ task' = [task EXCEPT ![w] = [Outside EXCEPT !.pc = "wait", !.left = WaitTimeout]]
  <2>1. GateBecomes(w, "wait", WaitTimeout, 0, 0, FALSE)
    <3> DEFINE r == [Outside EXCEPT !.pc = "wait", !.left = WaitTimeout]
    <3>1. WaitTimeout \in 0 .. WaitTimeout
      BY DEF GateAssumption
    <3>2. r \in Task /\ r.pc = "wait" /\ r.left = WaitTimeout /\ r.renew = 0 /\ r.late = 0 /\ r.lost = FALSE
      BY OutsideIs, <3>1, Zenon DEF Task
    <3>3. task' = [task EXCEPT ![w] = r]
      BY <1>4
    <3> HIDE DEF r
    <3>4. GateBecomes(w, r.pc, r.left, r.renew, r.late, r.lost)
      BY <1>0, <3>2, <3>3, GateUpdate
    <3> QED BY <3>2, <3>4
  <2>2. slots' \in [n : 0 .. (threshold' + 1), ttl : 0 .. Window] /\ ((slots'.n = 0) <=> (slots'.ttl = 0))
    <3>1. CASE threshold = 0
      BY <1>0, <1>1, <1>4, <3>1 DEF GateTypeOK
    <3>2. CASE threshold # 0
      <4>1. slots.n \in Nat /\ threshold \in Nat /\ Window \in Nat \ {0}
        BY <1>0, GateTypes DEF GateAssumption
      <4>2. slots.n < threshold
        BY <1>4, <3>2, <4>1 DEF Full
      <4>3. slots' = [n |-> slots.n + 1, ttl |-> Window]
        BY <1>4, <3>2
      <4> QED BY <1>1, <4>1, <4>2, <4>3
    <3> QED BY <3>1, <3>2
  <2>3. GateTypeOK'
    BY <1>0, <1>1, <2>1, <2>2 DEF GateTypeOK, GateBecomes
  <2>4. Held'
    BY <1>1, <2>1, HeldKept DEF GateInv, GateBecomes
  <2>5. Counting'
    <3> SUFFICES ASSUME threshold > 0
        PROVE  slots'.n <= threshold /\ (~lapsed => Cardinality(Inside') <= slots'.n)
      BY <1>1 DEF Counting
    <3>1. slots.n \in Nat /\ threshold \in Nat
      BY <1>0, GateTypes
    <3>2. slots'.n = slots.n + 1 /\ slots.n < threshold
      BY <1>4, <3>1 DEF Full
    <3>3. Inside' = Inside \cup {w} /\ Inside \in SUBSET Handlers
      BY <2>1 DEF Inside, GateBecomes
    <3>4. Cardinality(Inside') <= Cardinality(Inside) + 1 /\ Cardinality(Inside) \in Nat /\ Cardinality(Inside') \in Nat
      BY <3>3, InsideCounts
    <3>5. ~lapsed => Cardinality(Inside) <= slots.n
      BY DEF GateInv, Counting
    <3> QED BY <3>1, <3>2, <3>4, <3>5
  <2> QED BY <1>2, <2>3, <2>4, <2>5 DEF GateInv
<1> QED BY <1>3, <1>4 DEF Reserve, Refused

LEMMA ReserveUnavailableStep ==
    ASSUME GateAssumption, GateInv, NEW w \in Handlers, ReserveUnavailable(w)
    PROVE  GateInv'
<1>0. GateTypeOK
  BY DEF GateInv
<1>1. UNCHANGED <<threshold, slots, lock, task, redis, lapsed, wiped, faults>> /\ health' \in [Handlers -> Health]
  BY <1>0, HealthKept DEF ReserveUnavailable
<1>2. health[w].ok \in BOOLEAN /\ health[w].probe \in 0 .. ProbeInterval /\ ProbeInterval \in Nat
  BY <1>0, GateTypes DEF GateAssumption
<1>3. NoAnswer(w) /\ (~redis.up \/ (~health[w].ok /\ health[w].probe > 0))
  BY <1>2 DEF ReserveUnavailable, Usable
<1>b. Believes(w)
  BY <1>1, <1>3 DEF Believes
<1>4. Probing'
  BY <1>0, <1>b, ProbingKept DEF GateInv
<1>5. GateTypeOK'
  BY <1>0, <1>1 DEF GateTypeOK
<1>6. Held' /\ Counting'
  BY <1>1 DEF GateInv, Held, Owned, MarginUsed, Working, Counting, Inside
<1> QED BY <1>4, <1>5, <1>6 DEF GateInv

\* The lock is free, so that nobody else holds it on time.
LEMMA AcquireStep ==
    ASSUME GateAssumption, GateInv, NEW w \in Handlers, Acquire(w)
    PROVE  GateInv'
<1>0. GateTypeOK /\ task \in [Handlers -> Task]
  BY DEF GateInv, GateTypeOK
<1>1. /\ UNCHANGED <<threshold, slots, redis, lapsed, wiped, faults>>
      /\ task[w].pc = "wait" /\ lock = Free /\ lock' = [holder |-> w, ttl |-> LockTTL]
      /\ health' \in [Handlers -> Health]
  BY <1>0, HealthKept DEF Acquire
<1>2. GateBecomes(w, "run", 0, Renewal, 0, FALSE)
  <2> DEFINE r == [Outside EXCEPT !.pc = "run", !.renew = Renewal]
  <2>1. Renewal \in 0 .. Renewal
    BY DEF GateAssumption
  <2>2. r \in Task /\ r.pc = "run" /\ r.left = 0 /\ r.renew = Renewal /\ r.late = 0 /\ r.lost = FALSE
    BY OutsideIs, <2>1, Zenon DEF Task
  <2>3. task' = [task EXCEPT ![w] = r]
    BY DEF Acquire
  <2> HIDE DEF r
  <2>4. GateBecomes(w, r.pc, r.left, r.renew, r.late, r.lost)
    BY <1>0, <2>2, <2>3, GateUpdate
  <2> QED BY <2>2, <2>4
<1>3. LockTTL \in Nat \ {0} /\ Renewal \in Nat /\ NoHolder \notin Handlers
  BY DEF GateAssumption
<1>b. Believes(w)
  BY DEF Believes, Acquire
<1>4. Probing'
  BY <1>0, <1>b, ProbingKept DEF GateInv
<1>5. GateTypeOK'
  <2>1. lock' \in [holder : Handlers \cup {NoHolder}, ttl : 0 .. LockTTL] /\ ((lock'.holder = NoHolder) <=> (lock'.ttl = 0))
    BY <1>1, <1>3
  <2> QED BY <1>0, <1>1, <1>2, <2>1 DEF GateTypeOK, GateBecomes
<1>6. Held'
  <2> SUFFICES ASSUME NEW u \in Working', ~task'[u].lost, ~wiped
      PROVE  Owned(u)' \/ MarginUsed(u)'
    BY <1>1 DEF Held
  <2>1. u \in Handlers
    BY DEF Working
  <2>2. CASE u = w
    BY <1>1, <1>2, <1>3, <2>2 DEF Owned, GateBecomes
  <2>3. CASE u # w
    <3>1. task'[u] = task[u] /\ u \in Working
      BY <1>2, <2>1, <2>3 DEF GateBecomes, Working
    <3>2. ~Owned(u)
      BY <1>1, <1>3, <2>1 DEF Owned, Free
    <3> QED BY <3>1, <3>2 DEF GateInv, Held, MarginUsed
  <2> QED BY <2>2, <2>3
<1>7. Counting'
  <2>1. Inside' = Inside
    BY <1>1, <1>2 DEF Inside, GateBecomes
  <2> QED BY <1>1, <2>1 DEF GateInv, Counting
<1> QED BY <1>4, <1>5, <1>6, <1>7 DEF GateInv

\* A task leaves, and gives back its own lock and its slot or neither.
Leaves(w) ==
    /\ w \in Inside
    /\ task' = [task EXCEPT ![w] = Outside]
    /\ lock' = lock \/ ReleaseLock(w)
    /\ slots' = slots \/ ReleaseSlot
    /\ lapsed' = (lapsed /\ Inside \ {w} # {})
    /\ wiped' = (wiped /\ Inside \ {w} # {})
    /\ Answered(w) \/ (NoAnswer(w) /\ ~redis.up)
    /\ UNCHANGED <<threshold, redis>> /\ faults' \in 0 .. MaxGateFaults

LEMMA LeaveStep ==
    ASSUME GateAssumption, GateInv, NEW w \in Handlers, Leaves(w)
    PROVE  GateInv'
<1>0. GateTypeOK /\ task \in [Handlers -> Task]
  BY DEF GateInv, GateTypeOK
<1>1. /\ UNCHANGED <<threshold, redis>> /\ faults' \in 0 .. MaxGateFaults
      /\ lapsed' = (lapsed /\ Inside \ {w} # {}) /\ wiped' = (wiped /\ Inside \ {w} # {})
      /\ health' \in [Handlers -> Health]
  BY <1>0, HealthKept DEF Leaves
<1>2. GateBecomes(w, "idle", 0, 0, 0, FALSE)
  BY <1>0, OutsideIs, GateUpdate DEF Leaves
<1>3. Inside' = Inside \ {w} /\ Inside \in SUBSET Handlers /\ w \in Inside
  BY <1>2 DEF Inside, GateBecomes, Leaves
<1>b. Believes(w)
  BY DEF Believes, Leaves
<1>4. Probing'
  BY <1>0, <1>b, ProbingKept DEF GateInv
<1>5. /\ lock' \in [holder : Handlers \cup {NoHolder}, ttl : 0 .. LockTTL]
      /\ (lock'.holder = NoHolder) <=> (lock'.ttl = 0)
      /\ \A u \in Handlers : (u # w /\ lock.holder = u) => lock' = lock
  <2>1. CASE lock' = lock
    BY <1>0, <2>1 DEF GateTypeOK
  <2>2. CASE lock' = Free /\ lock.holder = w
    BY <2>2, <1>0 DEF Free, GateAssumption
  <2> QED BY <2>1, <2>2 DEF Leaves, ReleaseLock
<1>6. Held'
  <2> SUFFICES ASSUME NEW u \in Working', ~task'[u].lost, ~wiped'
      PROVE  Owned(u)' \/ MarginUsed(u)'
    BY DEF Held
  <2>1. u \in Handlers /\ u # w /\ task'[u] = task[u] /\ u \in Working
    BY <1>2 DEF Working, GateBecomes
  <2>2. Inside \ {w} # {}
    BY <2>1 DEF Inside, Working
  <2>3. ~wiped
    BY <1>1, <2>2
  <2>4. Owned(u) \/ MarginUsed(u)
    BY <2>1, <2>3 DEF GateInv, Held
  <2> QED BY <1>5, <2>1, <2>4 DEF Owned, MarginUsed
<1>7. /\ slots' \in [n : 0 .. (threshold + 1), ttl : 0 .. Window] /\ ((slots'.n = 0) <=> (slots'.ttl = 0))
      /\ slots'.n \in Nat /\ slots'.n <= slots.n
      /\ threshold > 0 => (slots'.n = 0 /\ slots.n <= 1) \/ slots'.n >= slots.n - 1
  <2>1. /\ slots.n \in Nat /\ threshold \in Nat /\ Window \in Nat \ {0}
        /\ slots.n \in 0 .. (threshold + 1)
    BY <1>0, GateTypes DEF GateAssumption
  <2>2. CASE slots' = slots
    BY <1>0, <2>1, <2>2 DEF GateTypeOK
  <2>3. CASE slots.n <= 1 /\ slots' = [n |-> 0, ttl |-> 0]
    BY <2>1, <2>3
  <2>4. CASE ~(slots.n <= 1) /\ slots' = [n |-> slots.n - 1, ttl |-> Window]
    <3>1. slots.n - 1 \in 0 .. (threshold + 1) /\ slots.n - 1 # 0 /\ slots.n - 1 \in Nat
      BY <2>1, <2>4
    <3> QED BY <2>1, <2>4, <3>1
  <2> QED BY <2>2, <2>3, <2>4 DEF Leaves, ReleaseSlot
<1>8. Counting'
  <2> SUFFICES ASSUME threshold > 0
      PROVE  slots'.n <= threshold /\ (~lapsed' => Cardinality(Inside') <= slots'.n)
    BY <1>1 DEF Counting
  <2>1. slots.n \in Nat /\ threshold \in Nat
    BY <1>0, GateTypes
  <2>2. slots.n <= threshold /\ (~lapsed => Cardinality(Inside) <= slots.n)
    BY DEF GateInv, Counting
  <2>3. /\ Cardinality(Inside) \in Nat /\ Cardinality(Inside') \in Nat
        /\ Cardinality(Inside') = Cardinality(Inside) - 1
        /\ Inside' = {} => Cardinality(Inside') = 0
    BY <1>3, InsideCounts
  <2>4. CASE lapsed
    <3>1. Inside \ {w} # {} => lapsed'
      BY <1>1, <2>4
    <3> QED BY <3>1, <1>3, <1>7, <2>1, <2>2, <2>3
  <2>5. CASE ~lapsed
    BY <1>7, <2>1, <2>2, <2>3, <2>5
  <2> QED BY <2>4, <2>5
<1>9. GateTypeOK'
  BY <1>0, <1>1, <1>2, <1>5, <1>7, Zenon DEF GateTypeOK, GateBecomes
<1> QED BY <1>4, <1>6, <1>8, <1>9 DEF GateInv

LEMMA GiveUpStep ==
    ASSUME GateAssumption, GateInv, NEW w \in Handlers,
           GiveUp(w) \/ Done(w) \/ GateCrash(w) \/ (BeginCommit(w) /\ task[w].lost)
    PROVE  GateInv'
<1>1. faults \in 0 .. MaxGateFaults /\ MaxGateFaults \in Nat
  BY DEF GateInv, GateTypeOK, GateAssumption
<1>2. Leaves(w)
  <2>1. CASE w \in Inside /\ LeaveGate(w)
    BY <1>1, <2>1 DEF LeaveGate, Leaves
  <2>2. CASE GateCrash(w)
    BY <1>1, <2>2 DEF GateCrash, GateFault, Leaves, Answered
  <2> QED BY <2>1, <2>2 DEF GiveUp, Done, BeginCommit, Inside, Working
<1> QED BY <1>2, LeaveStep

\* The task goes on to its commit with what it holds.
LEMMA CommitStep ==
    ASSUME GateAssumption, GateInv, NEW w \in Handlers, BeginCommit(w), ~task[w].lost
    PROVE  GateInv'
<1>0. GateTypeOK /\ task \in [Handlers -> Task] /\ task[w] \in Task /\ task[w].pc = "run"
  BY DEF GateInv, GateTypeOK, BeginCommit
<1>1. UNCHANGED <<threshold, slots, lock, health, redis, lapsed, wiped, faults>>
  BY DEF BeginCommit
<1>2. GateBecomes(w, "commit", task[w].left, task[w].renew, task[w].late, task[w].lost)
  <2> DEFINE r == [task[w] EXCEPT !.pc = "commit"]
  <2>1. /\ r \in Task /\ r.pc = "commit" /\ r.left = task[w].left /\ r.renew = task[w].renew
        /\ r.late = task[w].late /\ r.lost = task[w].lost
    BY <1>0, Zenon DEF Task
  <2>2. task' = [task EXCEPT ![w] = r]
    BY DEF BeginCommit
  <2> HIDE DEF r
  <2>3. GateBecomes(w, r.pc, r.left, r.renew, r.late, r.lost)
    BY <1>0, <2>1, <2>2, GateUpdate
  <2> QED BY <2>1, <2>3
<1>3. Inside' = Inside /\ Working' = Working
  BY <1>0, <1>2 DEF Inside, Working, GateBecomes
<1>4. GateTypeOK'
  BY <1>0, <1>1, <1>2 DEF GateTypeOK, GateBecomes
<1>5. Held'
  <2>1. \A u \in Handlers : task'[u].late = task[u].late /\ task'[u].renew = task[u].renew /\ task'[u].lost = task[u].lost
    BY <1>2 DEF GateBecomes
  <2> QED BY <1>1, <1>3, <2>1 DEF GateInv, Held, Owned, MarginUsed, Working
<1>6. Counting' /\ Probing'
  BY <1>1, <1>3 DEF GateInv, Counting, Probing
<1> QED BY <1>4, <1>5, <1>6 DEF GateInv

\* A renewal that finds its lock starts it anew; any other knows it lost.
LEMMA RenewStep ==
    ASSUME GateAssumption, GateInv, NEW w \in Handlers, Renew(w)
    PROVE  GateInv'
<1>0. GateTypeOK /\ task \in [Handlers -> Task] /\ task[w] \in Task
  BY DEF GateInv, GateTypeOK
<1>1. /\ UNCHANGED <<threshold, slots, redis, lapsed, wiped, faults>>
      /\ health' \in [Handlers -> Health] /\ w \in Working
  BY <1>0, HealthKept DEF Renew
<1>2. /\ LockTTL \in Nat \ {0} /\ Renewal \in Nat /\ NoHolder \notin Handlers
      /\ 0 \in 0 .. Renewal /\ Renewal \in 0 .. Renewal /\ 0 \in 0 .. MaxLate
  BY DEF GateAssumption
<1>3. Noticed(w) \in BOOLEAN
  BY <1>0, GateTypes DEF Noticed
<1>4. GateBecomes(w, task[w].pc, task[w].left, IF Noticed(w) THEN 0 ELSE Renewal, 0, Noticed(w))
  <2> DEFINE b == Noticed(w)
             n == IF Noticed(w) THEN 0 ELSE Renewal
             r == [task[w] EXCEPT !.lost = b, !.renew = n, !.late = 0]
  <2>1. b \in BOOLEAN /\ n \in 0 .. Renewal
    BY <1>2, <1>3
  <2>2. task' = [task EXCEPT ![w] = r]
    BY DEF Renew
  <2> HIDE DEF b, n
  <2>3. /\ r \in Task /\ r.pc = task[w].pc /\ r.left = task[w].left /\ r.renew = n
        /\ r.late = 0 /\ r.lost = b
    BY <1>0, <1>2, <2>1, Zenon DEF Task
  <2> HIDE DEF r
  <2>4. GateBecomes(w, r.pc, r.left, r.renew, r.late, r.lost)
    BY <1>0, <2>2, <2>3, GateUpdate
  <2>5. GateBecomes(w, task[w].pc, task[w].left, n, 0, b)
    BY <2>3, <2>4
  <2> QED BY <2>5 DEF n, b
<1>5. Inside' = Inside /\ Working' = Working
  BY <1>0, <1>4 DEF Inside, Working, GateBecomes
<1>6. /\ lock' \in [holder : Handlers \cup {NoHolder}, ttl : 0 .. LockTTL]
      /\ (lock'.holder = NoHolder) <=> (lock'.ttl = 0)
      /\ lock'.holder = lock.holder
      /\ lock.holder # w => lock' = lock
      /\ ~Noticed(w) => lock'.holder = w /\ lock'.ttl = LockTTL
  <2>1. CASE redis.up /\ lock.holder = w
    <3>1. lock' = [lock EXCEPT !.ttl = LockTTL]
      BY <2>1 DEF Renew
    <3>2. lock \in [holder : Handlers \cup {NoHolder}, ttl : 0 .. LockTTL]
      BY <1>0, GateTypes
    <3>3. LockTTL \in 0 .. LockTTL
      BY <1>2
    <3>4. lock' \in [holder : Handlers \cup {NoHolder}, ttl : 0 .. LockTTL] /\ lock'.holder = lock.holder /\ lock'.ttl = LockTTL
      BY <3>1, <3>2, <3>3
    <3> QED BY <1>2, <2>1, <3>4
  <2>2. CASE ~(redis.up /\ lock.holder = w)
    <3>1. lock' = lock
      BY <2>2 DEF Renew
    <3>2. Noticed(w)
      BY <2>2 DEF Noticed
    <3> QED BY <1>0, <3>1, <3>2 DEF GateTypeOK
  <2> QED BY <2>1, <2>2
<1>7. GateTypeOK'
  BY <1>0, <1>1, <1>4, <1>6 DEF GateTypeOK, GateBecomes
<1>8. Held'
  <2> SUFFICES ASSUME NEW u \in Working', ~task'[u].lost, ~wiped
      PROVE  Owned(u)' \/ MarginUsed(u)'
    BY <1>1 DEF Held
  <2>1. u \in Handlers
    BY DEF Working
  <2>2. CASE u = w
    <3>1. ~Noticed(w)
      BY <1>4, <2>2 DEF GateBecomes
    <3> QED BY <1>2, <1>4, <1>6, <2>2, <3>1 DEF Owned, GateBecomes
  <2>3. CASE u # w
    <3>1. task'[u] = task[u] /\ u \in Working
      BY <1>4, <2>1, <2>3 DEF GateBecomes, Working
    <3>2. lock'.holder = u => lock' = lock
      BY <1>6, <2>3
    <3>3. Owned(u) => lock'.holder = u
      BY <1>6 DEF Owned
    <3> QED BY <3>1, <3>2, <3>3 DEF GateInv, Held, Owned, MarginUsed
  <2> QED BY <2>2, <2>3
<1>b. Believes(w)
  BY DEF Renew, Believes
<1>9. Probing'
  BY <1>0, <1>b, ProbingKept DEF GateInv
<1>10. Counting'
  BY <1>1, <1>5 DEF GateInv, Counting
<1> QED BY <1>7, <1>8, <1>9, <1>10 DEF GateInv

\* Redis goes away, and comes back with its data or without.
LEMMA OutageStep ==
    ASSUME GateAssumption, GateInv, Outage \/ Recover
    PROVE  GateInv'
<1>0. GateTypeOK
  BY DEF GateInv
<1>1. /\ UNCHANGED <<threshold, task, health>>
      /\ redis' \in [up : BOOLEAN, since : 0 .. ProbeInterval] /\ redis'.since = 0
      /\ faults' \in 0 .. MaxGateFaults
  <2>1. 0 \in 0 .. ProbeInterval /\ faults \in 0 .. MaxGateFaults /\ MaxGateFaults \in Nat
    BY <1>0 DEF GateTypeOK, GateAssumption
  <2>2. faults' \in 0 .. MaxGateFaults
    BY <2>1 DEF Outage, Recover, GateFault
  <2>3. UNCHANGED <<threshold, task, health>> /\ redis' \in {[up |-> TRUE, since |-> 0], [up |-> FALSE, since |-> 0]}
    BY DEF Outage, Recover
  <2>4. CASE redis' = [up |-> TRUE, since |-> 0]
    BY <2>1, <2>2, <2>3, <2>4
  <2>5. CASE redis' = [up |-> FALSE, since |-> 0]
    BY <2>1, <2>2, <2>3, <2>5
  <2> QED BY <2>3, <2>4, <2>5
<1>2. \A w \in Handlers : health[w].probe \in 0 .. ProbeInterval
  BY <1>0, GateTypes
<1>3. Probing'
  BY <1>1, <1>2 DEF Probing, GateAssumption
<1>4. CASE UNCHANGED <<slots, lock, lapsed, wiped>>
  <2>1. GateTypeOK'
    BY <1>0, <1>1, <1>4 DEF GateTypeOK
  <2>2. Held' /\ Counting'
    BY <1>1, <1>4 DEF GateInv, Held, Owned, MarginUsed, Working, Counting, Inside
  <2> QED BY <1>3, <2>1, <2>2 DEF GateInv
<1>5. CASE slots' = [n |-> 0, ttl |-> 0] /\ lock' = Free /\ lapsed' = (Inside # {}) /\ wiped' = (Working # {})
  <2>1. GateTypeOK'
    <3>1. threshold \in Nat /\ Window \in Nat /\ LockTTL \in Nat
      BY <1>0, GateTypes DEF GateAssumption
    <3>2. slots' \in [n : 0 .. (threshold + 1), ttl : 0 .. Window] /\ ((slots'.n = 0) <=> (slots'.ttl = 0))
      BY <1>5, <3>1
    <3>3. lock' \in [holder : Handlers \cup {NoHolder}, ttl : 0 .. LockTTL] /\ ((lock'.holder = NoHolder) <=> (lock'.ttl = 0))
      BY <1>5, <3>1 DEF Free
    <3>4. lapsed' \in BOOLEAN /\ wiped' \in BOOLEAN
      BY <1>5, Zenon
    <3> QED BY <1>0, <1>1, <3>2, <3>3, <3>4 DEF GateTypeOK
  <2>2. Held'
    BY <1>1, <1>5 DEF Held, Working
  <2>3. Counting'
    <3>1. Inside' = Inside
      BY <1>1 DEF Inside
    <3>2. ~lapsed' => Inside = {}
      BY <1>5
    <3>3. Inside = {} => Cardinality(Inside) = 0
      BY FS_EmptySet
    <3>4. threshold \in Nat
      BY <1>0, GateTypes
    <3> QED BY <1>1, <1>5, <3>1, <3>2, <3>3, <3>4 DEF Counting
  <2> QED BY <1>3, <2>1, <2>2, <2>3 DEF GateInv
<1> QED BY <1>4, <1>5 DEF Outage, Recover

\* What a tick does to a task and to the rest.
LEMMA TickDoes ==
    ASSUME GateAssumption, GateTypeOK, Tick
    PROVE  /\ task' \in [Handlers -> Task]
           /\ \A w \in Handlers :
                 /\ task'[w].pc = task[w].pc /\ task'[w].lost = task[w].lost
                 /\ (w \in Working /\ ~task[w].lost /\ task[w].renew = 0) =>
                       task'[w].renew = 0 /\ task'[w].late = task[w].late + 1
                 /\ (w \in Working /\ ~task[w].lost /\ task[w].renew # 0) =>
                       task'[w].renew = task[w].renew - 1 /\ task'[w].late = task[w].late
           /\ Inside' = Inside /\ Working' = Working
<1>1. ASSUME NEW w \in Handlers
      PROVE  /\ task'[w] \in Task
             /\ task'[w].pc = task[w].pc /\ task'[w].lost = task[w].lost
             /\ (w \in Working /\ ~task[w].lost /\ task[w].renew = 0) =>
                   task'[w].renew = 0 /\ task'[w].late = task[w].late + 1
             /\ (w \in Working /\ ~task[w].lost /\ task[w].renew # 0) =>
                   task'[w].renew = task[w].renew - 1 /\ task'[w].late = task[w].late
  <2>0. /\ task[w] \in Task /\ task[w].renew \in 0 .. Renewal /\ task[w].late \in 0 .. MaxLate
        /\ task[w].left \in 0 .. WaitTimeout /\ Renewal \in Nat /\ MaxLate \in Nat /\ WaitTimeout \in Nat
    BY GateTypes DEF GateAssumption
  <2>1. CASE w \in Working /\ ~task[w].lost
    <3> DEFINE a == Less(task[w].renew)
               b == IF task[w].renew = 0 THEN task[w].late + 1 ELSE task[w].late
               r == [task[w] EXCEPT !.renew = a, !.late = b]
    <3>1. task'[w] = r
      BY <2>1 DEF Tick
    <3>2. ~Due(w)
      BY DEF Tick
    <3>3. task[w].renew = 0 => task[w].late # MaxLate
      BY <2>1, <3>2 DEF Due
    <3>4. a \in 0 .. Renewal /\ (task[w].renew = 0 => a = 0) /\ (task[w].renew # 0 => a = task[w].renew - 1)
      BY <2>0 DEF Less
    <3>5. b \in 0 .. MaxLate /\ (task[w].renew = 0 => b = task[w].late + 1) /\ (task[w].renew # 0 => b = task[w].late)
      BY <2>0, <3>3
    <3> HIDE DEF a, b
    <3>6. r \in Task /\ r.pc = task[w].pc /\ r.lost = task[w].lost /\ r.renew = a /\ r.late = b
      BY <2>0, <3>4, <3>5, Zenon DEF Task
    <3> HIDE DEF r
    <3> QED BY <3>1, <3>4, <3>5, <3>6
  <2>2. CASE ~(w \in Working /\ ~task[w].lost)
    <3> DEFINE a == Less(task[w].left)
               r == [task[w] EXCEPT !.left = a]
    <3>1. task'[w] = r
      BY <2>2 DEF Tick
    <3>2. a \in 0 .. WaitTimeout
      BY <2>0 DEF Less
    <3> HIDE DEF a
    <3>3. r \in Task /\ r.pc = task[w].pc /\ r.lost = task[w].lost
      BY <2>0, <3>2, Zenon DEF Task
    <3> HIDE DEF r
    <3> QED BY <2>2, <3>1, <3>3
  <2> QED BY <2>1, <2>2
<1>2. task' \in [Handlers -> Task]
  <2> DEFINE f == [w \in Handlers |->
                  IF w \in Working /\ ~task[w].lost
                  THEN [task[w] EXCEPT !.renew = Less(@), !.late = IF task[w].renew = 0 THEN @ + 1 ELSE @]
                  ELSE [task[w] EXCEPT !.left = Less(@)]]
  <2>1. task' = f /\ DOMAIN f = Handlers
    BY DEF Tick
  <2>2. task' = [w \in Handlers |-> task'[w]]
    BY <2>1
  <2> HIDE DEF f
  <2> QED BY <1>1, <2>2
<1>3. Inside' = Inside /\ Working' = Working
  BY <1>1 DEF Inside, Working
<1> QED BY <1>1, <1>2, <1>3

LEMMA TickStep ==
    ASSUME GateAssumption, GateInv, Tick
    PROVE  GateInv'
<1>0. GateTypeOK
  BY DEF GateInv
<1>1. UNCHANGED <<threshold, wiped, faults>> /\ Inside' = Inside /\ Working' = Working
  BY <1>0, TickDoes DEF Tick
<1>2. /\ threshold \in Nat /\ Window \in Nat \ {0} /\ LockTTL \in Nat \ {0} /\ Renewal \in Nat /\ ProbeInterval \in Nat
      /\ NoHolder \notin Handlers
  BY <1>0, GateTypes DEF GateAssumption
<1>3. /\ slots' \in [n : 0 .. (threshold + 1), ttl : 0 .. Window] /\ ((slots'.n = 0) <=> (slots'.ttl = 0))
      /\ slots'.n <= slots.n
      /\ slots'.n = slots.n \/ slots.ttl = 1
  <2>1. /\ slots.n \in 0 .. (threshold + 1) /\ slots.ttl \in 0 .. Window /\ ((slots.n = 0) <=> (slots.ttl = 0))
        /\ slots \in [n : 0 .. (threshold + 1), ttl : 0 .. Window]
    BY <1>0, <1>2 DEF GateTypeOK
  <2>2. CASE slots.ttl <= 1
    <3>1. slots' = [n |-> 0, ttl |-> 0]
      BY <2>2 DEF Tick
    <3> QED BY <1>2, <2>1, <2>2, <3>1
  <2>3. CASE ~(slots.ttl <= 1)
    <3> DEFINE t == slots.ttl - 1
    <3>1. slots' = [slots EXCEPT !.ttl = t]
      BY <2>3 DEF Tick
    <3>2. t \in 0 .. Window /\ t # 0 /\ slots.n # 0
      BY <1>2, <2>1, <2>3
    <3> HIDE DEF t
    <3>3. slots' \in [n : 0 .. (threshold + 1), ttl : 0 .. Window] /\ slots'.n = slots.n /\ slots'.ttl = t
      BY <2>1, <3>1, <3>2
    <3> QED BY <1>2, <2>1, <3>2, <3>3
  <2> QED BY <2>2, <2>3
<1>4. lapsed' \in BOOLEAN /\ (~lapsed' => ~lapsed /\ (slots.ttl # 1 \/ Inside = {}))
  <2>1. lapsed' = (lapsed \/ (slots.ttl = 1 /\ Inside # {}))
    BY DEF Tick
  <2> QED BY <2>1, Zenon
<1>5. /\ lock' \in [holder : Handlers \cup {NoHolder}, ttl : 0 .. LockTTL] /\ ((lock'.holder = NoHolder) <=> (lock'.ttl = 0))
      /\ lock.ttl > 1 => lock'.holder = lock.holder /\ lock'.ttl = lock.ttl - 1
  <2>1. lock \in [holder : Handlers \cup {NoHolder}, ttl : 0 .. LockTTL] /\ lock.ttl \in 0 .. LockTTL /\ ((lock.holder = NoHolder) <=> (lock.ttl = 0))
    BY <1>0, <1>2 DEF GateTypeOK
  <2>2. CASE lock.ttl <= 1
    <3>1. lock' = Free
      BY <2>2 DEF Tick
    <3> QED BY <1>2, <2>1, <2>2, <3>1 DEF Free
  <2>3. CASE ~(lock.ttl <= 1)
    <3> DEFINE t == lock.ttl - 1
    <3>1. lock' = [lock EXCEPT !.ttl = t]
      BY <2>3 DEF Tick
    <3>2. t \in 0 .. LockTTL /\ t # 0 /\ lock.holder # NoHolder
      BY <1>2, <2>1, <2>3
    <3>3. t = lock.ttl - 1
      OBVIOUS
    <3> HIDE DEF t
    <3>4. lock' \in [holder : Handlers \cup {NoHolder}, ttl : 0 .. LockTTL] /\ lock'.holder = lock.holder /\ lock'.ttl = t
      BY <2>1, <3>1, <3>2
    <3> QED BY <3>2, <3>3, <3>4
  <2> QED BY <2>2, <2>3
<1>6. /\ health' \in [Handlers -> Health]
      /\ \A w \in Handlers : health'[w].ok = health[w].ok /\ health'[w].probe = Less(health[w].probe)
  <2>1. ASSUME NEW w \in Handlers
        PROVE  /\ health'[w] \in Health
               /\ health'[w].ok = health[w].ok /\ health'[w].probe = Less(health[w].probe)
    <3> DEFINE a == Less(health[w].probe)
    <3>1. health[w] \in Health /\ health[w].probe \in 0 .. ProbeInterval
      BY <1>0, GateTypes
    <3>2. health'[w] = [health[w] EXCEPT !.probe = a]
      BY DEF Tick
    <3>3. a \in 0 .. ProbeInterval
      BY <1>2, <3>1 DEF Less
    <3> HIDE DEF a
    <3>4. health'[w] \in Health /\ health'[w].ok = health[w].ok /\ health'[w].probe = a
      BY <3>1, <3>2, <3>3, Zenon DEF Health
    <3> QED BY <3>4 DEF a
  <2>2. health' = [w \in Handlers |-> health'[w]]
    BY DEF Tick
  <2> QED BY <2>1, <2>2
<1>7. /\ redis' \in [up : BOOLEAN, since : 0 .. ProbeInterval]
      /\ redis'.up = redis.up
      /\ redis.up => redis'.since = redis.since + 1 \/ (redis.since = ProbeInterval /\ redis'.since = ProbeInterval)
  <2> DEFINE s == IF redis.up /\ redis.since < ProbeInterval THEN redis.since + 1 ELSE redis.since
  <2>1. redis' = [redis EXCEPT !.since = s]
    BY DEF Tick
  <2>2. redis \in [up : BOOLEAN, since : 0 .. ProbeInterval] /\ redis.since \in 0 .. ProbeInterval
    BY <1>0 DEF GateTypeOK
  <2>3. /\ s \in 0 .. ProbeInterval
        /\ redis.up => s = redis.since + 1 \/ (redis.since = ProbeInterval /\ s = ProbeInterval)
    BY <1>2, <2>2
  <2> HIDE DEF s
  <2>4. redis' \in [up : BOOLEAN, since : 0 .. ProbeInterval] /\ redis'.up = redis.up /\ redis'.since = s
    BY <2>1, <2>2, <2>3
  <2> QED BY <2>3, <2>4
<1>8. GateTypeOK'
  BY <1>0, <1>1, <1>3, <1>4, <1>5, <1>6, <1>7, TickDoes DEF GateTypeOK
<1>9. Held'
  <2> SUFFICES ASSUME NEW w \in Working, ~task'[w].lost, ~wiped
      PROVE  Owned(w)' \/ MarginUsed(w)'
    BY <1>1 DEF Held
  <2>1. /\ w \in Handlers /\ ~task[w].lost
        /\ task[w].renew = 0 => task'[w].renew = 0 /\ task'[w].late = task[w].late + 1
        /\ task[w].renew # 0 => task'[w].renew = task[w].renew - 1 /\ task'[w].late = task[w].late
    BY <1>0, TickDoes DEF Working
  <2>2. task[w].renew \in Nat /\ task[w].late \in Nat /\ lock.ttl \in Nat
    BY <1>0, <2>1, GateTypes DEF GateAssumption
  <2>3. CASE MarginUsed(w)
    BY <1>2, <2>1, <2>2, <2>3 DEF MarginUsed
  <2>4. CASE Owned(w) /\ lock.ttl > 1
    BY <1>2, <1>5, <2>1, <2>2, <2>4 DEF Owned
  <2>5. CASE Owned(w) /\ lock.ttl <= 1
    BY <1>2, <2>1, <2>2, <2>5 DEF Owned, MarginUsed
  <2>6. Owned(w) \/ MarginUsed(w)
    BY <2>1 DEF GateInv, Held
  <2> QED BY <2>2, <2>3, <2>4, <2>5, <2>6
<1>10. Counting'
  <2> SUFFICES ASSUME threshold > 0
      PROVE  slots'.n <= threshold /\ (~lapsed' => Cardinality(Inside) <= slots'.n)
    BY <1>1 DEF Counting
  <2>1. slots.n \in Nat /\ slots'.n \in Nat
    BY <1>0, <1>2, <1>3, GateTypes
  <2>2. slots.n <= threshold /\ (~lapsed => Cardinality(Inside) <= slots.n)
    BY DEF GateInv, Counting
  <2>3. Inside = {} => Cardinality(Inside) = 0
    BY FS_EmptySet
  <2> QED BY <1>2, <1>3, <1>4, <2>1, <2>2, <2>3
<1>11. Probing'
  <2> SUFFICES ASSUME redis.up, NEW w \in Handlers, ~health[w].ok
      PROVE  health'[w].probe + redis'.since <= ProbeInterval
    BY <1>6, <1>7 DEF Probing
  <2>1. health[w].probe + redis.since <= ProbeInterval
    BY DEF GateInv, Probing
  <2>2. health[w].probe \in Nat /\ redis.since \in Nat
    BY <1>0, <1>2, GateTypes
  <2>3. redis'.since = redis.since + 1 \/ (redis.since = ProbeInterval /\ redis'.since = ProbeInterval)
    BY <1>7
  <2>4. redis'.since <= ProbeInterval
    BY <1>2, <1>7
  <2>5. health'[w].probe = IF health[w].probe = 0 THEN 0 ELSE health[w].probe - 1
    BY <1>6 DEF Less
  <2> QED BY <1>2, <2>1, <2>2, <2>3, <2>4, <2>5
<1> QED BY <1>8, <1>9, <1>10, <1>11 DEF GateInv

-----------------------------------------------------------------------------
(* The theorem *)

LEMMA GateStart == ASSUME GateAssumption, GateInit PROVE GateInv
<1>1. GateTypeOK
  <2>1. 0 \in 0 .. MaxGateFaults /\ 0 \in 0 .. LockTTL /\ 0 \in 0 .. Window /\ ProbeInterval \in 0 .. ProbeInterval
    BY DEF GateAssumption
  <2>2. threshold \in Nat /\ 0 \in 0 .. (threshold + 1)
    BY DEF GateAssumption, GateInit
  <2>3. task \in [Handlers -> Task] /\ health \in [Handlers -> Health]
    BY OutsideIs DEF GateInit
  <2> QED BY <2>1, <2>2, <2>3 DEF GateTypeOK, GateInit, Free
<1>2. \A w \in Handlers : task[w].pc = "idle" /\ health[w].ok
  BY OutsideIs DEF GateInit
<1>3. Inside = {} /\ Working = {}
  BY <1>2 DEF Inside, Working
<1>4. Held /\ Probing
  BY <1>2, <1>3 DEF Held, Probing
<1>5. Counting
  <2>1. Cardinality(Inside) = 0
    BY <1>3, FS_EmptySet
  <2>2. threshold \in Nat /\ slots.n = 0
    BY DEF GateAssumption, GateInit
  <2> QED BY <2>1, <2>2 DEF Counting
<1> QED BY <1>1, <1>4, <1>5 DEF GateInv

LEMMA GateInvNext == ASSUME GateAssumption, GateInv, [GateNext]_gateVars PROVE GateInv'
<1>1. CASE UNCHANGED gateVars
  BY <1>1 DEF gateVars, GateInv, GateTypeOK, Held, Owned, MarginUsed, Working, Counting, Inside, Probing
<1>2. ASSUME NEW w \in Handlers,
             \/ Reserve(w) \/ ReserveUnavailable(w) \/ Acquire(w) \/ GiveUp(w) \/ Renew(w)
             \/ BeginCommit(w) \/ Done(w) \/ GateCrash(w)
      PROVE  GateInv'
  BY <1>2, ReserveStep, ReserveUnavailableStep, AcquireStep, GiveUpStep, RenewStep, CommitStep
<1>3. CASE Outage \/ Recover \/ Tick
  BY <1>3, OutageStep, TickStep
<1> QED BY <1>1, <1>2, <1>3 DEF GateNext

\* For any number of processes, any threshold, time to live and renewal interval:
\* while neither its renewals are late by the whole margin nor Redis loses its data,
\* a task that does not know its lock lost works on the dedup_key alone
\* (alert_processing_gate); the storm threshold bounds the tasks inside; and no
\* process takes Redis for dead once it has answered for a probe interval.
THEOREM GateIsSafe ==
    ASSUME GateAssumption
    PROVE  GateSpec => []GateHolds
<1>1. GateInit => GateInv
  BY GateStart
<1>2. GateInv /\ [GateNext]_gateVars => GateInv'
  BY GateInvNext
<1>3. GateInv => GateHolds
  <2> SUFFICES ASSUME GateInv
      PROVE  GateHolds
    OBVIOUS
  <2>0. GateTypeOK
    BY DEF GateInv
  <2>1. RunsAlone
    <3> SUFFICES ASSUME NEW v \in Working, NEW w \in Working, v # w, ~task[v].lost, ~task[w].lost, ~wiped
        PROVE  task[v].late >= LockTTL - Renewal \/ task[w].late >= LockTTL - Renewal
      BY DEF RunsAlone
    <3>1. MarginUsed(v) \/ MarginUsed(w)
      BY DEF GateInv, Held, Owned
    <3>2. task[v].late \in Nat /\ task[w].late \in Nat /\ LockTTL \in Nat /\ Renewal \in Nat
      BY <2>0, GateTypes DEF Working, GateAssumption
    <3> QED BY <3>1, <3>2 DEF MarginUsed
  <2>2. StormBounded
    <3>1. threshold \in Nat /\ slots.n \in Nat
      BY <2>0, GateTypes
    <3>2. Cardinality(Inside) \in Nat
      <4>1. Inside \in SUBSET Handlers
        BY DEF Inside
      <4>2. IsFiniteSet(Inside)
        BY <4>1, FS_Subset DEF GateAssumption
      <4> QED BY <4>2, FS_CardinalityType
    <3> QED BY <3>1, <3>2 DEF StormBounded, GateInv, Counting
  <2>3. OutageForgotten
    <3> SUFFICES ASSUME redis.up, redis.since >= ProbeInterval, NEW w \in Handlers, ~health[w].ok
        PROVE  health[w].probe = 0
      BY DEF OutageForgotten, Usable
    <3>1. health[w].probe \in 0 .. ProbeInterval /\ redis.since \in 0 .. ProbeInterval /\ ProbeInterval \in Nat
      BY <2>0, GateTypes DEF GateAssumption
    <3>2. health[w].probe + redis.since <= ProbeInterval
      BY DEF GateInv, Probing
    <3> QED BY <3>1, <3>2
  <2> QED BY <2>0, <2>1, <2>2, <2>3 DEF GateHolds
<1> QED BY <1>1, <1>2, <1>3, PTL DEF GateSpec
=============================================================================
