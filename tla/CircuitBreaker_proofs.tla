----------------------- MODULE CircuitBreaker_proofs -----------------------
(***************************************************************************)
(* How long a process may trust a CLOSED it has seen, for any number of    *)
(* processes, targets and calls and any thresholds and timeouts.           *)
(***************************************************************************)
EXTENDS CircuitBreaker, TLAPS

Call == [pc : PC, proc : Procs, target : Targets, seen : {"open", "closed"}]

\* A CLOSED on its way to a process was read before the circuit opened, in this
\* very instant.
Fresh ==
    open /\ faults = 0 =>
        \A c \in Calls : call[c].pc = "checked" /\ call[c].seen = "closed" => openAge = 0

IInv == TypeOK /\ Fresh /\ LagBounded

-----------------------------------------------------------------------------
(* The operators *)

LEMMA Bounds ==
    /\ ClosedTTL \in Nat /\ ClosedTTL <= Recovery /\ ClosedTTL <= MaxClosedTTL
    /\ StateTTL \in Nat \ {0} /\ Lag \in Nat /\ Lag = ClosedTTL + 1
BY BreakerAssumption DEF ClosedTTL, StateTTL, Lag

\* Every countdown may stand at zero, and at its top.
LEMMA Ends ==
    /\ 0 \in 0 .. Threshold /\ 0 \in 0 .. Window
    /\ 0 \in 0 .. Recovery /\ Recovery \in 0 .. Recovery
    /\ 0 \in 0 .. StateTTL /\ StateTTL \in 0 .. StateTTL
BY BreakerAssumption, Bounds

LEMMA LessType ==
    ASSUME NEW k \in Nat, NEW n \in 0 .. k
    PROVE  Less(n) \in 0 .. k /\ (Less(n) > 0 => n = Less(n) + 1)
BY DEF Less

LEMMA LeastType ==
    ASSUME NEW k \in Nat, NEW n \in 0 .. k
    PROVE  Least(n + 1, k) \in 0 .. k /\ Least(n + 1, k) <= n + 1
BY DEF Least

LEMMA StepType ==
    ASSUME call \in [Calls -> Call], NEW c \in Calls, NEW pc \in PC, Step(c, pc)
    PROVE  /\ call' \in [Calls -> Call]
           /\ call'[c].pc = pc
           /\ \A x \in Calls \ {c} : call'[x] = call[x]
<1>1. call[c] \in Call
  OBVIOUS
<1> DEFINE v == [call[c] EXCEPT !.pc = pc]
<1>2. v \in Call /\ v.pc = pc
  BY <1>1, Zenon DEF Call
<1>3. call' = [call EXCEPT ![c] = v]
  BY DEF Step
<1> HIDE DEF v
<1> QED BY <1>2, <1>3

LEMMA StartsType ==
    ASSUME call \in [Calls -> Call], NEW c \in Calls, NEW p \in Procs, NEW t \in Targets,
           NEW pc \in PC, NEW seen \in {"open", "closed"}, Starts(c, p, t, pc, seen)
    PROVE  /\ call' \in [Calls -> Call]
           /\ call'[c].pc = pc /\ call'[c].seen = seen
           /\ \A x \in Calls \ {c} : call'[x] = call[x]
<1> DEFINE v == [pc |-> pc, proc |-> p, target |-> t, seen |-> seen]
<1>2. v \in Call /\ v.pc = pc /\ v.seen = seen
  BY DEF Call
<1>3. call' = [call EXCEPT ![c] = v]
  BY DEF Starts
<1> HIDE DEF v
<1> QED BY <1>2, <1>3

LEMMA OfType ==
    ASSUME call \in [Calls -> Call], NEW c \in Calls
    PROVE  Of(c) \in Breakers
BY DEF Of, Call, Breakers

\* The part of TypeOK about Redis, and the part about its history.
RedisOK ==
    /\ failures \in 0 .. Threshold /\ failFor \in 0 .. Window
    /\ open \in BOOLEAN /\ openFor \in 0 .. Recovery /\ stateFor \in 0 .. StateTTL

HistoryOK ==
    /\ openAge \in 0 .. Lag
    /\ recent \in [1 .. Threshold -> 0 .. Window]
    /\ failed \in SUBSET Targets

LEMMA TypeOKParts ==
    TypeOK <=> /\ RedisOK /\ HistoryOK
               /\ cacheFor \in [Breakers -> 0 .. ClosedTTL]
               /\ healthy \in [Procs -> BOOLEAN]
               /\ call \in [Calls -> Call]
               /\ faults \in 0 .. MaxFaults
BY DEF TypeOK, RedisOK, HistoryOK, Call

LEMMA RedisErrorType ==
    ASSUME healthy \in [Procs -> BOOLEAN], faults \in 0 .. MaxFaults, NEW p \in Procs, RedisError(p)
    PROVE  healthy' \in [Procs -> BOOLEAN] /\ faults' \in 0 .. MaxFaults
<1>1. healthy' \in [Procs -> BOOLEAN]
  BY Zenon DEF RedisError
<1>2. faults' \in 0 .. MaxFaults
  BY BreakerAssumption DEF RedisError
<1> QED BY <1>1, <1>2

LEMMA RedisKept ==
    ASSUME RedisOK, UNCHANGED redis
    PROVE  RedisOK'
BY DEF RedisOK, redis

LEMMA HistoryKept ==
    ASSUME HistoryOK, UNCHANGED history
    PROVE  HistoryOK'
BY DEF HistoryOK, history

-----------------------------------------------------------------------------
(* Types *)

LEMMA TypeInit == Init => TypeOK
<1> SUFFICES ASSUME Init PROVE TypeOK
  OBVIOUS
<1>1. RedisOK
  BY Ends, Zenon DEF Init, RedisOK
<1>2. HistoryOK
  BY BreakerAssumption, Bounds DEF Init, HistoryOK
<1>3. call \in [Calls -> Call]
  <2>1. [pc : {"idle"}, proc : Procs, target : Targets, seen : {"closed"}] \subseteq Call
    BY DEF Call, PC
  <2> QED BY <2>1 DEF Init
<1>4. cacheFor \in [Breakers -> 0 .. ClosedTTL] /\ faults \in 0 .. MaxFaults
  BY BreakerAssumption, Bounds DEF Init
<1>5. healthy \in [Procs -> BOOLEAN]
  BY Zenon DEF Init
<1> QED BY <1>1, <1>2, <1>3, <1>4, <1>5, TypeOKParts

LEMMA CallType ==
    ASSUME TypeOK, NEW c \in Calls
    PROVE  call[c] \in Call /\ call[c].proc \in Procs /\ call[c].target \in Targets
BY TypeOKParts DEF Call

LEMMA TypeNext == TypeOK /\ [Next]_vars => TypeOK'
<1> SUFFICES ASSUME TypeOK, [Next]_vars PROVE TypeOK'
  OBVIOUS
<1>t. /\ RedisOK /\ HistoryOK
      /\ cacheFor \in [Breakers -> 0 .. ClosedTTL]
      /\ healthy \in [Procs -> BOOLEAN]
      /\ call \in [Calls -> Call]
      /\ faults \in 0 .. MaxFaults
  BY TypeOKParts
<1>g. ( /\ RedisOK' /\ HistoryOK'
        /\ cacheFor' \in [Breakers -> 0 .. ClosedTTL]
        /\ healthy' \in [Procs -> BOOLEAN]
        /\ call' \in [Calls -> Call]
        /\ faults' \in 0 .. MaxFaults ) => TypeOK'
  BY DEF TypeOK, RedisOK, HistoryOK, Call
<1>1. ASSUME NEW c \in Calls, NEW p \in Procs, NEW t \in Targets,
             CheckCached(c, p, t) \/ CheckDegraded(c, p, t)
      PROVE  TypeOK'
  <2>1. call' \in [Calls -> Call]
    BY <1>1, <1>t, StartsType DEF CheckCached, CheckDegraded, PC
  <2> QED BY <1>1, <1>t, <1>g, <2>1, RedisKept, HistoryKept DEF CheckCached, CheckDegraded
<1>2. ASSUME NEW c \in Calls, NEW p \in Procs, NEW t \in Targets, CheckRead(c, p, t)
      PROVE  TypeOK'
  <2>1. call' \in [Calls -> Call]
    BY <1>2, <1>t, StartsType DEF CheckRead, PC
  <2>2. RedisOK'
    <3>1. CASE UNCHANGED redis
      BY <3>1, <1>t, RedisKept
    <3>2. CASE open' = FALSE /\ stateFor' = 0 /\ UNCHANGED <<failures, failFor, openFor>>
      BY <3>2, <1>t, Ends, Zenon DEF RedisOK
    <3> QED BY <1>2, <3>1, <3>2 DEF CheckRead
  <2>3. healthy' \in [Procs -> BOOLEAN] /\ faults' \in 0 .. MaxFaults
    BY <1>2, <1>t, RedisErrorType DEF CheckRead
  <2> QED BY <1>2, <1>t, <1>g, <2>1, <2>2, <2>3, HistoryKept DEF CheckRead
<1>3. ASSUME NEW c \in Calls, Reject(c) \/ Abort(c) PROVE TypeOK'
  <2>1. call' \in [Calls -> Call]
    BY <1>3, <1>t, StepType DEF Reject, Abort, PC
  <2> QED BY <1>3, <1>t, <1>g, <2>1, RedisKept, HistoryKept DEF Reject, Abort
<1>4. ASSUME NEW c \in Calls, Admit(c) \/ Fail(c) PROVE TypeOK'
  <2>1. call' \in [Calls -> Call]
    BY <1>4, <1>t, StepType DEF Admit, Fail, PC
  <2>2. cacheFor' \in [Breakers -> 0 .. ClosedTTL]
    BY <1>4, <1>t, OfType, Bounds DEF Admit, Fail
  <2> QED BY <1>4, <1>t, <1>g, <2>1, <2>2, RedisKept, HistoryKept DEF Admit, Fail
<1>5. ASSUME NEW c \in Calls, Succeed(c) PROVE TypeOK'
  <2>1. call' \in [Calls -> Call]
    BY <1>5, <1>t, StepType DEF Succeed, PC
  <2>2. RedisOK'
    <3>1. CASE UNCHANGED redis
      BY <3>1, <1>t, RedisKept
    <3>2. CASE failures' = 0 /\ failFor' = 0 /\ open' = FALSE /\ openFor' = 0 /\ stateFor' = 0
      BY <3>2, Ends, Zenon DEF RedisOK
    <3> QED BY <1>5, <3>1, <3>2 DEF Succeed
  <2>3. healthy' \in [Procs -> BOOLEAN] /\ faults' \in 0 .. MaxFaults
    BY <1>5, <1>t, CallType, RedisErrorType DEF Succeed
  <2> QED BY <1>5, <1>t, <1>g, <2>1, <2>2, <2>3, HistoryKept DEF Succeed
<1>6. ASSUME NEW c \in Calls, RecordFailure(c) PROVE TypeOK'
  <2>1. call' \in [Calls -> Call]
    BY <1>6, <1>t, StepType DEF RecordFailure, PC
  <2>2. healthy' \in [Procs -> BOOLEAN] /\ faults' \in 0 .. MaxFaults
    BY <1>6, <1>t, CallType, RedisErrorType DEF RecordFailure
  <2>3. RedisOK' /\ HistoryOK'
    <3>1. CASE UNCHANGED <<redis, history>>
      BY <3>1, <1>t, RedisKept, HistoryKept
    <3>2. CASE ~ UNCHANGED <<redis, history>>
      <4>1. /\ CountFailure
            /\ IF failures' >= Threshold
               THEN open' = TRUE /\ openFor' = Recovery /\ stateFor' = StateTTL
               ELSE UNCHANGED <<open, openFor, stateFor>>
            /\ openAge' = IF open THEN openAge ELSE 0
            /\ recent' = [k \in 1 .. Threshold |-> IF k = 1 THEN 0 ELSE recent[k - 1]]
            /\ failed' = failed \cup {call[c].target}
        BY <1>6, <3>2 DEF RecordFailure
      <4>2. failures' \in 0 .. Threshold /\ failFor' \in 0 .. Window
        BY <4>1, <1>t, BreakerAssumption, LeastType DEF CountFailure, RedisOK
      <4>3. RedisOK'
        <5>1. CASE failures' >= Threshold
          BY <5>1, <4>1, <4>2, Ends, Zenon DEF RedisOK
        <5>2. CASE ~ (failures' >= Threshold)
          BY <5>2, <4>1, <4>2, <1>t, Zenon DEF RedisOK
        <5> QED BY <5>1, <5>2
      <4>4. openAge' \in 0 .. Lag
        BY <4>1, <1>t, Bounds DEF HistoryOK
      <4>5. recent' \in [1 .. Threshold -> 0 .. Window]
        <5>1. \A k \in 1 .. Threshold : k # 1 => k - 1 \in 1 .. Threshold
          BY BreakerAssumption
        <5> QED BY <4>1, <5>1, <1>t, Ends DEF HistoryOK
      <4>6. failed' \in SUBSET Targets
        BY <4>1, <1>t, CallType DEF HistoryOK
      <4> QED BY <4>3, <4>4, <4>5, <4>6 DEF HistoryOK
    <3> QED BY <3>1, <3>2
  <2> QED BY <1>6, <1>t, <1>g, <2>1, <2>2, <2>3 DEF RecordFailure
<1>7. ASSUME NEW p \in Procs, Probe(p) PROVE TypeOK'
  <2>1. healthy' \in [Procs -> BOOLEAN]
    BY <1>7, <1>t, Zenon DEF Probe
  <2> QED BY <1>7, <1>t, <1>g, <2>1, RedisKept, HistoryKept DEF Probe
<1>8. ASSUME NEW b \in Breakers, Rebuild(b) PROVE TypeOK'
  <2>1. cacheFor' \in [Breakers -> 0 .. ClosedTTL]
    BY <1>8, <1>t, Bounds DEF Rebuild
  <2> QED BY <1>8, <1>t, <1>g, <2>1, RedisKept, HistoryKept DEF Rebuild
<1>9. ASSUME Tick PROVE TypeOK'
  <2>1. cacheFor' \in [Breakers -> 0 .. ClosedTTL]
    BY <1>9, <1>t, Bounds, LessType DEF Tick
  <2>2. failFor' \in 0 .. Window /\ failures' \in 0 .. Threshold
    BY <1>9, <1>t, BreakerAssumption, LessType DEF Tick, RedisOK
  <2>3. openFor' \in 0 .. Recovery /\ stateFor' \in 0 .. StateTTL
    BY <1>9, <1>t, BreakerAssumption, Bounds, LessType DEF Tick, RedisOK
  <2>4. open' \in BOOLEAN
    BY <1>9 DEF Tick
  <2>5. openAge' \in 0 .. Lag
    BY <1>9, <1>t, Bounds, LeastType DEF Tick, HistoryOK
  <2>6. recent' \in [1 .. Threshold -> 0 .. Window]
    <3>1. \A k \in 1 .. Threshold : recent[k] \in 0 .. Window
      BY <1>t DEF HistoryOK
    <3>2. \A k \in 1 .. Threshold : Least(recent[k] + 1, Window) \in 0 .. Window
      BY <3>1, BreakerAssumption, LeastType
    <3> QED BY <1>9, <3>2 DEF Tick
  <2> QED BY <1>9, <1>t, <1>g, <2>1, <2>2, <2>3, <2>4, <2>5, <2>6 DEF Tick, RedisOK, HistoryOK
<1>10. ASSUME UNCHANGED vars PROVE TypeOK'
  BY <1>10, <1>t, <1>g, RedisKept, HistoryKept DEF vars
<1> QED BY <1>1, <1>2, <1>3, <1>4, <1>5, <1>6, <1>7, <1>8, <1>9, <1>10
        DEF Next, Check, Answered, Returns

\* Every variable keeps its type; a cached CLOSED never lasts longer than the
\* recovery timeout.
THEOREM BreakerTypeCorrect == Spec => []TypeOK
BY TypeInit, TypeNext, PTL DEF Spec
-----------------------------------------------------------------------------
(* The lag *)

\* Errors are only ever counted up.
LEMMA FaultsGrow ==
    ASSUME TypeOK, [Next]_vars, faults' = 0
    PROVE  faults = 0 /\ \A p \in Procs : ~ RedisError(p)
<1>1. faults \in Nat
  BY TypeOKParts, BreakerAssumption
<1>2. \A p \in Procs : ~ RedisError(p)
  BY <1>1 DEF RedisError
<1>3. ASSUME NEW c \in Calls, Succeed(c) \/ RecordFailure(c) PROVE faults' = faults
  <2>1. call[c].proc \in Procs
    BY CallType
  <2> QED BY <1>2, <1>3, <2>1 DEF Succeed, RecordFailure
<1>4. ASSUME NEW c \in Calls, Check(c) PROVE faults' = faults
  BY <1>2, <1>4 DEF Check, CheckCached, CheckDegraded, CheckRead
<1>5. ASSUME NEW c \in Calls, Answered(c) \/ Abort(c) \/ Fail(c) PROVE faults' = faults
  BY <1>5 DEF Answered, Reject, Admit, Abort, Fail
<1>6. faults' = faults
  BY <1>3, <1>4, <1>5 DEF Next, Returns, Probe, Rebuild, Tick, vars
<1> QED BY <1>2, <1>6

LEMMA FreshNext ==
    ASSUME IInv, [Next]_vars, faults' = 0
    PROVE  Fresh'
<1>t. TypeOK /\ Fresh /\ openAge \in Nat /\ call \in [Calls -> Call] /\ faults = 0
  <2>1. faults \in 0 .. MaxFaults /\ openAge \in 0 .. Lag /\ call \in [Calls -> Call]
    BY TypeOKParts DEF IInv, HistoryOK
  <2> QED BY <2>1, Bounds, FaultsGrow DEF IInv
<1>n. \A p \in Procs : ~ RedisError(p)
  BY <1>t, FaultsGrow
\* Steps after which no more CLOSEDs are on their way, the circuit no more open.
<1>k. ASSUME open' => open, openAge' = openAge,
             \A c \in Calls : \/ call'[c] = call[c]
                               \/ ~ (call'[c].pc = "checked" /\ call'[c].seen = "closed")
                               \/ ~ open'
      PROVE  Fresh'
  BY <1>k, <1>t DEF Fresh
<1>1. ASSUME NEW c \in Calls, NEW p \in Procs, NEW t \in Targets,
             CheckCached(c, p, t) \/ CheckDegraded(c, p, t)
      PROVE  Fresh'
  <2>1. call'[c].pc = "running" /\ \A x \in Calls \ {c} : call'[x] = call[x]
    BY <1>1, <1>t, StartsType DEF CheckCached, CheckDegraded, PC
  <2> QED BY <1>1, <1>k, <2>1 DEF CheckCached, CheckDegraded, redis, history
<1>2. ASSUME NEW c \in Calls, NEW p \in Procs, NEW t \in Targets, CheckRead(c, p, t)
      PROVE  Fresh'
  <2> DEFINE sn == IF open /\ ~ Reclosed THEN "open" ELSE "closed"
  <2>1. /\ Starts(c, p, t, "checked", sn)
        /\ IF Reclosed THEN open' = FALSE ELSE open' = open
        /\ openAge' = openAge
    BY <1>2, <1>n DEF CheckRead, redis, history
  <2>2. call'[c].seen = sn /\ \A x \in Calls \ {c} : call'[x] = call[x]
    BY <1>t, <2>1, StartsType DEF PC
  <2>3. open' => sn = "open"
    BY <2>1
  <2> HIDE DEF sn
  <2>4. open' => open
    BY <2>1
  <2> QED BY <1>k, <2>1, <2>2, <2>3, <2>4
<1>3. ASSUME NEW c \in Calls, NEW pc \in {"idle", "running", "failing"}, Step(c, pc),
             open' => open, openAge' = openAge
      PROVE  Fresh'
  <2>1. call'[c].pc = pc /\ \A x \in Calls \ {c} : call'[x] = call[x]
    BY <1>3, <1>t, StepType DEF PC
  <2> QED BY <1>3, <1>k, <2>1
<1>4. ASSUME NEW c \in Calls, Reject(c) \/ Abort(c) \/ Admit(c) \/ Fail(c) PROVE Fresh'
  BY <1>4, <1>3 DEF Reject, Abort, Admit, Fail, redis, history
<1>5. ASSUME NEW c \in Calls, Succeed(c) PROVE Fresh'
  <2>1. (open' => open) /\ openAge' = openAge
    BY <1>5 DEF Succeed, redis, history
  <2> QED BY <1>5, <1>3, <2>1 DEF Succeed
<1>6. ASSUME NEW c \in Calls, RecordFailure(c) PROVE Fresh'
  <2>1. Step(c, "idle")
    BY <1>6 DEF RecordFailure
  <2>2. CASE openAge' = openAge /\ (open' => open)
    BY <2>1, <2>2, <1>3
  <2>3. CASE ~ open /\ openAge' = 0
    BY <2>3 DEF Fresh
  <2>4. \/ openAge' = openAge /\ (open' => open)
        \/ ~ open /\ openAge' = 0
    BY <1>6 DEF RecordFailure, redis, history
  <2> QED BY <2>2, <2>3, <2>4
<1>7. ASSUME Tick PROVE Fresh'
  BY <1>7 DEF Tick, Fresh
<1>8. ASSUME UNCHANGED <<redis, call, history>> PROVE Fresh'
  BY <1>8, <1>k DEF redis, history
<1> QED BY <1>1, <1>2, <1>4, <1>5, <1>6, <1>7, <1>8
        DEF Next, Check, Answered, Returns, Probe, Rebuild, vars

LEMMA LagNext ==
    ASSUME IInv, [Next]_vars, faults' = 0
    PROVE  LagBounded'
<1>t. /\ TypeOK /\ Fresh /\ LagBounded /\ faults = 0
      /\ openAge \in 0 .. Lag /\ call \in [Calls -> Call]
      /\ cacheFor \in [Breakers -> 0 .. ClosedTTL]
  BY TypeOKParts, FaultsGrow DEF IInv, HistoryOK
<1>r. \A b \in Breakers : cacheFor[b] \in 0 .. ClosedTTL
  BY <1>t
\* Steps that cache nothing and leave the circuit as it is, or close it.
<1>k. ASSUME open' => open, openAge' = openAge,
             \A b \in Breakers : cacheFor'[b] = cacheFor[b] \/ cacheFor'[b] = 0
      PROVE  LagBounded'
  BY <1>k, <1>t DEF LagBounded
<1>1. ASSUME NEW c \in Calls, Admit(c) PROVE LagBounded'
  <2>1. Of(c) \in Breakers /\ ClosedTTL \in Nat
    BY <1>t, OfType, Bounds
  <2>2. /\ open' = open /\ openAge' = openAge
        /\ cacheFor'[Of(c)] = ClosedTTL
        /\ \A b \in Breakers \ {Of(c)} : cacheFor'[b] = cacheFor[b]
        /\ call[c].pc = "checked" /\ call[c].seen = "closed"
    BY <1>1, <1>t, <2>1 DEF Admit, redis, history
  <2>3. open => openAge = 0
    BY <2>2, <1>t DEF Fresh
  <2> QED BY <1>t, <2>1, <2>2, <2>3 DEF LagBounded
<1>2. ASSUME NEW c \in Calls, Fail(c) PROVE LagBounded'
  BY <1>2, <1>k, <1>t, OfType DEF Fail, redis, history
<1>3. ASSUME NEW c \in Calls, RecordFailure(c) PROVE LagBounded'
  <2>1. cacheFor' = cacheFor
    BY <1>3 DEF RecordFailure
  <2>2. \/ openAge' = openAge /\ (open' => open)
        \/ ~ open /\ openAge' = 0
    BY <1>3 DEF RecordFailure, redis, history
  <2>3. CASE openAge' = openAge /\ (open' => open)
    BY <2>1, <2>3, <1>k
  <2>4. CASE ~ open /\ openAge' = 0
    BY <2>1, <2>4, <1>r, Bounds DEF LagBounded
  <2> QED BY <2>2, <2>3, <2>4
<1>4. ASSUME NEW b \in Breakers, Rebuild(b) PROVE LagBounded'
  BY <1>4, <1>k, <1>t DEF Rebuild, redis, history
<1>5. ASSUME Tick PROVE LagBounded'
  <2> SUFFICES ASSUME open', NEW b \in Breakers, cacheFor'[b] > 0
               PROVE  openAge' + cacheFor'[b] <= ClosedTTL
    BY DEF LagBounded
  <2>1. open /\ openAge' = Least(openAge + 1, Lag) /\ cacheFor'[b] = Less(cacheFor[b])
    BY <1>5 DEF Tick
  <2>2. cacheFor[b] = cacheFor'[b] + 1 /\ cacheFor'[b] \in 0 .. ClosedTTL
    BY <2>1, <1>r, Bounds, LessType
  <2>3. openAge' <= openAge + 1 /\ openAge' \in 0 .. Lag
    BY <2>1, <1>t, Bounds, LeastType
  <2>4. openAge + cacheFor[b] <= ClosedTTL
    <3>1. cacheFor[b] > 0
      BY <2>2, Bounds
    <3> QED BY <2>1, <3>1, <1>t DEF LagBounded
  <2> QED BY <2>2, <2>3, <2>4, <1>t, Bounds
<1>6. ASSUME open' => open, openAge' = openAge, cacheFor' = cacheFor PROVE LagBounded'
  BY <1>6, <1>k
<1>7. ASSUME NEW c \in Calls, Succeed(c) PROVE LagBounded'
  <2>1. (open' => open) /\ openAge' = openAge /\ cacheFor' = cacheFor
    BY <1>7 DEF Succeed, redis, history
  <2> QED BY <2>1, <1>6
<1>8. ASSUME NEW c \in Calls, NEW p \in Procs, NEW t \in Targets, CheckRead(c, p, t)
      PROVE  LagBounded'
  <2>1. (open' => open) /\ openAge' = openAge /\ cacheFor' = cacheFor
    BY <1>8 DEF CheckRead, redis, history
  <2> QED BY <2>1, <1>6
<1>9. ASSUME UNCHANGED <<redis, cacheFor, history>> PROVE LagBounded'
  BY <1>9, <1>6 DEF redis, history
<1> QED BY <1>1, <1>2, <1>3, <1>4, <1>5, <1>7, <1>8, <1>9
        DEF Next, Check, CheckCached, CheckDegraded, Answered, Reject, Returns, Abort, Probe, vars

\* "Cross-process trips lag by at most this TTL": as long as Redis has raised no
\* error, a cached CLOSED outlives the opening of the circuit by at most ClosedTTL,
\* which is at most the recovery timeout, whatever the interleaving of checks,
\* late successes and late failures.
THEOREM LagIsBounded == Spec => []LagBounded
<1>1. Init => IInv
  BY TypeInit DEF Init, IInv, Fresh, LagBounded
<1>2. IInv /\ [Next]_vars => IInv'
  <2> SUFFICES ASSUME IInv, [Next]_vars PROVE IInv'
    OBVIOUS
  <2>1. TypeOK'
    BY TypeNext DEF IInv
  <2>2. CASE faults' = 0
    BY <2>1, <2>2, FreshNext, LagNext DEF IInv
  <2>3. CASE faults' # 0
    BY <2>1, <2>3 DEF IInv, Fresh, LagBounded
  <2> QED BY <2>2, <2>3
<1>3. IInv => LagBounded
  BY DEF IInv
<1> QED BY <1>1, <1>2, <1>3, PTL DEF Spec
-----------------------------------------------------------------------------
(* The threshold *)

\* The failures the counter stands for are as recent as the expiry it got with the
\* first of them says: later failures do not renew it.
Counted ==
    failures > 0 => failFor > 0 /\ \A k \in 1 .. failures : recent[k] + failFor <= Window

TripInv == TypeOK /\ Counted /\ TripJustified

LEMMA TripInit == Init => Counted /\ TripJustified
BY BreakerAssumption DEF Init, Counted, TripJustified

\* What a step does to the counter and to the history of failures.
LEMMA CounterSteps ==
    ASSUME TypeOK, [Next]_vars
    PROVE  \/ Tick
           \/ /\ UNCHANGED <<failures, failFor, recent>> /\ (open' => open) /\ openFor' = openFor
           \/ /\ failures' = 0 /\ open' = FALSE /\ recent' = recent
           \/ \E c \in Calls : /\ CountFailure
                               /\ recent' = [k \in 1 .. Threshold |-> IF k = 1 THEN 0 ELSE recent[k - 1]]
                               /\ \/ failures' >= Threshold
                                  \/ UNCHANGED <<open, openFor>>
<1> DEFINE G == \/ Tick
                \/ /\ UNCHANGED <<failures, failFor, recent>> /\ (open' => open) /\ openFor' = openFor
                \/ /\ failures' = 0 /\ open' = FALSE /\ recent' = recent
                \/ \E c \in Calls : /\ CountFailure
                                    /\ recent' = [k \in 1 .. Threshold |-> IF k = 1 THEN 0 ELSE recent[k - 1]]
                                    /\ \/ failures' >= Threshold
                                       \/ UNCHANGED <<open, openFor>>
<1>1. ASSUME NEW c \in Calls, Check(c) \/ Answered(c) PROVE G
  BY <1>1 DEF Check, CheckCached, CheckDegraded, CheckRead, Answered, Reject, Admit, redis, history
<1>2. ASSUME NEW c \in Calls, Returns(c) PROVE G
  BY <1>2 DEF Returns, Succeed, Abort, Fail, redis, history
<1>3. ASSUME NEW c \in Calls, RecordFailure(c) PROVE G
  <2>1. CASE UNCHANGED <<redis, history>>
    BY <2>1 DEF redis, history
  <2>2. CASE ~ UNCHANGED <<redis, history>>
    <3>1. /\ CountFailure
          /\ recent' = [k \in 1 .. Threshold |-> IF k = 1 THEN 0 ELSE recent[k - 1]]
          /\ failures' >= Threshold \/ UNCHANGED <<open, openFor>>
      BY <1>3, <2>2 DEF RecordFailure
    <3> QED BY <3>1
  <2> QED BY <2>1, <2>2
<1>4. ASSUME UNCHANGED <<redis, history>> PROVE G
  BY <1>4 DEF redis, history
<1>5. Tick => G
  OBVIOUS
<1> HIDE DEF G
<1>6. G
  BY <1>1, <1>2, <1>3, <1>4, <1>5 DEF Next, Probe, Rebuild, vars
<1> QED BY <1>6 DEF G

LEMMA TripNext == TripInv /\ [Next]_vars => Counted' /\ TripJustified'
<1> SUFFICES ASSUME TripInv, [Next]_vars PROVE Counted' /\ TripJustified'
  OBVIOUS
<1>t. /\ TypeOK /\ Counted /\ TripJustified
      /\ failures \in 0 .. Threshold /\ failFor \in 0 .. Window /\ openFor \in 0 .. Recovery
      /\ \A k \in 1 .. Threshold : recent[k] \in 0 .. Window
      /\ Threshold \in Nat \ {0} /\ Window \in Nat \ {0} /\ Recovery \in Nat \ {0}
  BY TypeOKParts, BreakerAssumption DEF TripInv, RedisOK, HistoryOK
<1>1. ASSUME Tick PROVE Counted' /\ TripJustified'
  <2>1. /\ failFor' = Less(failFor)
        /\ failures' = IF failFor' = 0 THEN 0 ELSE failures
        /\ openFor' = Less(openFor)
        /\ recent' = [k \in 1 .. Threshold |-> Least(recent[k] + 1, Window)]
    BY <1>1 DEF Tick
  <2>2. \A k \in 1 .. Threshold : recent'[k] \in 0 .. Window /\ recent'[k] <= recent[k] + 1
    BY <1>t, <2>1, LeastType
  <2>3. Counted'
    <3>1. ASSUME failures' > 0
          PROVE  failFor' > 0 /\ failures' = failures /\ failFor' = failFor - 1 /\ failFor > 0
      BY <3>1, <1>t, <2>1 DEF Less
    <3>2. ASSUME failures' > 0, NEW k \in 1 .. failures'
          PROVE  recent'[k] + failFor' <= Window
      <4>1. k \in 1 .. Threshold /\ recent[k] + failFor <= Window
        BY <3>1, <3>2, <1>t DEF Counted
      <4>2. recent'[k] \in Nat /\ recent'[k] <= recent[k] + 1
        BY <4>1, <2>2, <1>t
      <4> QED BY <4>1, <4>2, <3>1, <3>2, <1>t
    <3> QED BY <3>1, <3>2 DEF Counted
  <2>4. openFor' # Recovery
    BY <1>t, <2>1 DEF Less
  <2> QED BY <2>3, <2>4 DEF TripJustified
<1>2. ASSUME UNCHANGED <<failures, failFor, recent>>, open' => open, openFor' = openFor
      PROVE  Counted' /\ TripJustified'
  BY <1>2, <1>t DEF Counted, TripJustified
<1>3. ASSUME failures' = 0, open' = FALSE, recent' = recent
      PROVE  Counted' /\ TripJustified'
  BY <1>3 DEF Counted, TripJustified
<1>4. ASSUME CountFailure,
             recent' = [k \in 1 .. Threshold |-> IF k = 1 THEN 0 ELSE recent[k - 1]],
             failures' >= Threshold \/ UNCHANGED <<open, openFor>>
      PROVE  Counted' /\ TripJustified'
  <2>1. /\ failures' \in 1 .. Threshold /\ failures' <= failures + 1
        /\ failFor' \in 1 .. Window
        /\ failures = 0 => failFor' = Window
        /\ failures > 0 => failFor' = failFor
    BY <1>4, <1>t DEF CountFailure, Least, Counted
  <2>2. \A k \in 1 .. failures' : recent'[k] + failFor' <= Window
    <3> SUFFICES ASSUME NEW k \in 1 .. failures' PROVE recent'[k] + failFor' <= Window
      OBVIOUS
    <3>1. k \in 1 .. Threshold
      BY <1>t, <2>1
    <3>2. CASE k = 1
      <4>1. recent'[k] = 0
        BY <3>1, <3>2, <1>4
      <4>2. \A f \in 1 .. Window : recent'[k] + f <= Window
        BY <4>1, <1>t
      <4> QED BY <4>2, <2>1, Zenon
    <3>3. CASE k # 1
      <4>1. recent'[k] = recent[k - 1]
        BY <3>1, <3>3, <1>4
      <4>2. k - 1 \in 1 .. failures
        BY <3>1, <3>3, <2>1, <1>t
      <4>3. recent[k - 1] + failFor <= Window /\ failFor' = failFor
        BY <4>2, <2>1, <1>t DEF Counted
      <4> QED BY <4>1, <4>3
    <3> QED BY <3>2, <3>3
  <2>3. Counted'
    BY <2>1, <2>2, <1>t DEF Counted
  <2>4. TripJustified'
    <3> SUFFICES ASSUME open', openFor' = Recovery, NEW k \in 1 .. Threshold
                 PROVE  recent'[k] < Window
      BY DEF TripJustified
    <3>1. CASE failures' >= Threshold
      <4>1. k \in 1 .. failures'
        BY <3>1, <2>1, <1>t
      <4>2. recent'[k] + failFor' <= Window
        BY <4>1, <2>2
      <4>3. recent'[k] \in Nat
        <5>1. k # 1 => k - 1 \in 1 .. Threshold
          BY <1>t
        <5>2. recent'[k] = IF k = 1 THEN 0 ELSE recent[k - 1]
          BY <1>4
        <5> QED BY <5>1, <5>2, <1>t
      <4> QED BY <4>2, <4>3, <2>1, <1>t
    <3>2. CASE UNCHANGED <<open, openFor>>
      <4>1. k # 1 => k - 1 \in 1 .. Threshold
        BY <1>t
      <4>2. \A j \in 1 .. Threshold : recent[j] < Window
        BY <3>2, <1>t DEF TripJustified
      <4> QED BY <4>1, <4>2, <1>4, <1>t
    <3> QED BY <1>4, <3>1, <3>2
  <2> QED BY <2>3, <2>4
<1> QED BY <1>1, <1>2, <1>3, <1>4, CounterSteps DEF TripInv

\* When the circuit opens, the last Threshold failures were all recorded within one
\* window, however often the counter expired, the circuit closed by itself with its
\* counter kept, or Redis failed in between.
THEOREM TripIsJustified == Spec => []TripJustified
<1>1. Init => TripInv
  BY TypeInit, TripInit DEF TripInv
<1>2. TripInv /\ [Next]_vars => TripInv'
  BY TypeNext, TripNext DEF TripInv
<1>3. TripInv => TripJustified
  BY DEF TripInv
<1> QED BY <1>1, <1>2, <1>3, PTL DEF Spec
=============================================================================
