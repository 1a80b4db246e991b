--------------------------- MODULE Controls_proofs ---------------------------
(***************************************************************************)
(* What the controls of the delivery promise, for any number of processes, *)
(* edits, proposals, agents, deciders and presses, any lifetimes, and any  *)
(* notices lost: what a process may serve from its cache of a table, how   *)
(* long it may work with superseded overrides, and that a decision is on   *)
(* record and acted on once.                                               *)
(***************************************************************************)
EXTENDS Controls, Integers, FiniteSetTheorems, TLAPS

-----------------------------------------------------------------------------
(* The caches of the configuration tables *)

CacheOK ==
    /\ cache \in [Procs -> Entry]
    /\ load \in [Procs -> Load]
    /\ told \in [Procs -> Version]

NoticeOK ==
    /\ inbox \in [Procs -> Nat] /\ listening \in [Procs -> BOOLEAN]
    /\ faults \in 0 .. MaxFaults

Flushed == {p \in Procs : session[p].pc = "flushed"}

\* Every edit begun has its version: the table counts those committed, and the
\* flushed ones are still to come.
EditOK ==
    /\ kinds \in {RuleWriters, SilenceWriters, InboundWriters}
    /\ session \in [Procs -> Session]
    /\ \A p \in Procs : session[p].pc # "idle" => session[p].kind \in kinds
    /\ table \in Nat /\ edits \in Version /\ announced \in 0 .. table
    /\ table + Cardinality(Flushed) <= edits
    /\ kinds = InboundWriters => announced = 0

\* A version has been superseded for no time while it is the table's.
SinceOK ==
    /\ since \in [Version -> 0 .. MaxStale + 1]
    /\ \A v \in Version : v >= table => since[v] = 0

-----------------------------------------------------------------------------
(* What the caches do in one step, process by process *)

Kept(p) == cache'[p] = cache[p] /\ load'[p] = load[p] /\ told'[p] = told[p]

Dropped(p) ==
    /\ cache'[p].val = None /\ told'[p] = table
    /\ load'[p].on =>
          load[p].on /\ ~load'[p].clean /\ load'[p].val = load[p].val /\ load'[p].left = load[p].left

Started(p) ==
    /\ cache'[p] = cache[p] /\ told'[p] = told[p]
    /\ load'[p].on /\ load'[p].val = table /\ load'[p].left = MaxLoad

Installed(p) ==
    /\ told'[p] = told[p] /\ ~load'[p].on /\ load[p].on
    /\ \/ cache'[p] = cache[p]
       \/ load[p].clean /\ cache'[p].val = load[p].val /\ cache'[p].age = 0

Moved(p) == Kept(p) \/ Dropped(p) \/ Started(p) \/ Installed(p)

LEMMA Consts ==
    ASSUME CacheSane
    PROVE  /\ CacheTTL \in Nat /\ MaxLoad \in Nat /\ MaxVersion \in Nat /\ MaxFaults \in Nat
           /\ MaxStale \in Nat /\ MaxStale = CacheTTL + MaxLoad
           /\ 0 \in Version /\ 0 \in 0 .. CacheTTL /\ 0 \in 0 .. MaxLoad /\ MaxLoad \in 0 .. MaxLoad
           /\ 0 \in 0 .. MaxStale + 1
<1>1. CacheTTL \in Nat /\ MaxLoad \in Nat /\ MaxVersion \in Nat /\ MaxFaults \in Nat
  BY Zenon DEF CacheSane
<1> QED BY <1>1 DEF MaxStale, Version

LEMMA Blank ==
    ASSUME CacheSane
    PROVE  /\ Empty \in Entry /\ Empty.val = None
           /\ NoLoad \in Load /\ ~NoLoad.on
           /\ NoSession \in Session /\ NoSession.pc = "idle"
<1>1. Empty \in Entry /\ Empty.val = None
  BY Consts, Zenon DEF Empty, Entry
<1>2. NoLoad \in Load /\ ~NoLoad.on
  BY Consts DEF NoLoad, Load
<1>3. NoSession \in Session /\ NoSession.pc = "idle"
  BY Zenon DEF NoSession, Session, Kinds, RuleWriters
<1> QED BY <1>1, <1>2, <1>3

LEMMA InvalidateDoes ==
    ASSUME CacheSane, CacheOK, table \in Version, NEW p \in Procs, Invalidate(p)
    PROVE  CacheOK' /\ \A q \in Procs : (q = p /\ Dropped(q)) \/ (q # p /\ Kept(q))
<1> DEFINE c == ~load[p].on
           u == [load[p] EXCEPT !.clean = c]
<1>1. load[p] \in Load /\ c \in BOOLEAN
  BY DEF CacheOK
<1>2. /\ cache' = [cache EXCEPT ![p] = Empty]
      /\ load' = [load EXCEPT ![p] = u]
      /\ told' = [told EXCEPT ![p] = table]
  BY DEF Invalidate
<1>c. c = ~load[p].on
  OBVIOUS
<1> HIDE DEF c
<1>3. u \in Load /\ u.on = load[p].on /\ u.clean = c /\ u.val = load[p].val /\ u.left = load[p].left
  BY <1>1, Zenon DEF Load
<1> HIDE DEF u
<1>4. /\ cache' \in [Procs -> Entry] /\ cache'[p] = Empty
      /\ load' \in [Procs -> Load] /\ load'[p] = u
      /\ told' \in [Procs -> Version] /\ told'[p] = table
      /\ \A q \in Procs \ {p} : cache'[q] = cache[q] /\ load'[q] = load[q] /\ told'[q] = told[q]
  BY <1>2, <1>3, Blank DEF CacheOK
<1>5. Dropped(p)
  BY <1>3, <1>4, <1>c, Blank DEF Dropped
<1>6. CacheOK'
  BY <1>4 DEF CacheOK
<1> QED BY <1>4, <1>5, <1>6 DEF Kept

LEMMA LoadDoes ==
    ASSUME CacheSane, CacheOK, table \in Version, NEW p \in Procs, StartLoad(p) \/ FinishLoad(p)
    PROVE  CacheOK' /\ \A q \in Procs : Moved(q)
<1>t. cache \in [Procs -> Entry] /\ load \in [Procs -> Load] /\ told \in [Procs -> Version]
  BY DEF CacheOK
<1>1. CASE StartLoad(p)
  <2> DEFINE u == [on |-> TRUE, val |-> table, clean |-> TRUE, left |-> MaxLoad]
  <2>1. u \in Load /\ u.on /\ u.val = table /\ u.left = MaxLoad
    BY Consts DEF Load
  <2>2. load' = [load EXCEPT ![p] = u] /\ UNCHANGED <<cache, told>>
    BY <1>1 DEF StartLoad
  <2> HIDE DEF u
  <2>3. load' \in [Procs -> Load] /\ load'[p] = u /\ \A q \in Procs \ {p} : load'[q] = load[q]
    BY <1>t, <2>1, <2>2
  <2> QED BY <1>t, <2>1, <2>2, <2>3 DEF CacheOK, Moved, Started, Kept
<1>2. CASE FinishLoad(p)
  <2> DEFINE e == [val |-> load[p].val, age |-> 0]
  <2>1. e \in Entry /\ e.val = load[p].val /\ e.age = 0
    <3>1. load[p].val \in Version
      BY <1>t, Zenon DEF Load
    <3> QED BY <3>1, Consts, Zenon DEF Entry
  <2>2. /\ load' = [load EXCEPT ![p] = NoLoad] /\ UNCHANGED told /\ load[p].on
        /\ cache' = IF load[p].clean THEN [cache EXCEPT ![p] = e] ELSE cache
    BY <1>2 DEF FinishLoad
  <2> HIDE DEF e
  <2>3. load' \in [Procs -> Load] /\ load'[p] = NoLoad /\ \A q \in Procs \ {p} : load'[q] = load[q]
    BY <1>t, <2>2, Blank
  <2>4. /\ cache' \in [Procs -> Entry] /\ \A q \in Procs \ {p} : cache'[q] = cache[q]
        /\ cache'[p] = cache[p] \/ (load[p].clean /\ cache'[p] = e)
    BY <1>t, <2>1, <2>2
  <2>5. Installed(p)
    BY <2>1, <2>2, <2>3, <2>4, Blank DEF Installed
  <2>6. \A q \in Procs \ {p} : Kept(q)
    BY <2>2, <2>3, <2>4 DEF Kept
  <2> QED BY <1>t, <2>2, <2>3, <2>4, <2>5, <2>6 DEF CacheOK, Moved
<1> QED BY <1>1, <1>2

\* Time: what is fresh ages, a load comes nearer to its end, a version that is not the
\* table's any more has been superseded for longer.
LEMMA TickDoes ==
    ASSUME CacheSane, CacheOK, SinceOK, table \in Nat, CacheTick
    PROVE  /\ CacheOK' /\ UNCHANGED <<table, told>>
           /\ \A p \in Procs :
                 /\ cache'[p].val = cache[p].val
                 /\ cache'[p].age = IF Fresh(p) THEN cache[p].age + 1 ELSE cache[p].age
                 /\ load'[p].on = load[p].on /\ load'[p].val = load[p].val /\ load'[p].clean = load[p].clean
                 /\ load[p].on => load[p].left > 0 /\ load'[p].left = load[p].left - 1
           /\ since' \in [Version -> 0 .. MaxStale + 1]
           /\ \A v \in Version : /\ since'[v] = since[v] \/ since'[v] = since[v] + 1
                                 /\ v >= table => since'[v] = since[v]
<1>t. cache \in [Procs -> Entry] /\ load \in [Procs -> Load] /\ since \in [Version -> 0 .. MaxStale + 1]
  BY DEF CacheOK, SinceOK
<1>u. UNCHANGED <<table, told>>
  BY DEF CacheTick
<1>1. ASSUME NEW p \in Procs
      PROVE  /\ cache'[p] \in Entry /\ cache'[p].val = cache[p].val
             /\ cache'[p].age = IF Fresh(p) THEN cache[p].age + 1 ELSE cache[p].age
  <2>1. cache'[p] = IF Fresh(p) /\ cache[p].age < CacheTTL THEN [cache[p] EXCEPT !.age = cache[p].age + 1] ELSE cache[p]
    BY DEF CacheTick
  <2>2. cache[p] \in Entry /\ cache[p].age \in 0 .. CacheTTL
    BY <1>t, Zenon DEF Entry
  <2>3. CASE Fresh(p)
    <3> DEFINE n == cache[p].age + 1
               u == [cache[p] EXCEPT !.age = n]
    <3>1. cache[p].age < CacheTTL /\ n \in 0 .. CacheTTL
      BY <2>2, <2>3, Consts DEF Fresh
    <3>2. cache'[p] = u
      BY <2>1, <2>3, <3>1
    <3>3. n = cache[p].age + 1
      OBVIOUS
    <3> HIDE DEF n
    <3>4. u \in Entry /\ u.val = cache[p].val /\ u.age = n
      BY <2>2, <3>1, Zenon DEF Entry
    <3> QED BY <2>3, <3>2, <3>3, <3>4
  <2>4. CASE ~Fresh(p)
    BY <2>1, <2>2, <2>4
  <2> QED BY <2>3, <2>4
<1>2. ASSUME NEW p \in Procs
      PROVE  /\ load'[p] \in Load
             /\ load'[p].on = load[p].on /\ load'[p].val = load[p].val /\ load'[p].clean = load[p].clean
             /\ load[p].on => load[p].left > 0 /\ load'[p].left = load[p].left - 1
  <2>1. load'[p] = IF load[p].on THEN [load[p] EXCEPT !.left = load[p].left - 1] ELSE load[p]
    BY DEF CacheTick
  <2>2. load[p] \in Load /\ load[p].left \in 0 .. MaxLoad
    BY <1>t, Zenon DEF Load
  <2>3. CASE load[p].on
    <3> DEFINE n == load[p].left - 1
               u == [load[p] EXCEPT !.left = n]
    <3>1. load[p].left > 0
      BY <2>3 DEF CacheTick
    <3>2. n \in 0 .. MaxLoad
      BY <2>2, <3>1, Consts
    <3>3. load'[p] = u /\ n = load[p].left - 1
      BY <2>1, <2>3
    <3> HIDE DEF n
    <3>4. u \in Load /\ u.on = load[p].on /\ u.val = load[p].val /\ u.clean = load[p].clean /\ u.left = n
      BY <2>2, <3>2, Zenon DEF Load
    <3> HIDE DEF u
    <3> QED BY <3>1, <3>3, <3>4
  <2>4. CASE ~load[p].on
    BY <2>1, <2>2, <2>4
  <2> QED BY <2>3, <2>4
<1>3. CacheOK'
  <2>1. cache' \in [Procs -> Entry]
    <3>1. cache' = [p \in Procs |-> cache'[p]]
      BY DEF CacheTick
    <3> QED BY <1>1, <3>1
  <2>2. load' \in [Procs -> Load]
    <3>1. load' = [p \in Procs |-> load'[p]]
      BY DEF CacheTick
    <3> QED BY <1>2, <3>1
  <2> QED BY <2>1, <2>2, <1>u DEF CacheOK
<1>4. since' = [v \in Version |-> IF v < table /\ since[v] <= MaxStale THEN since[v] + 1 ELSE since[v]]
  BY DEF CacheTick
<1>5. ASSUME NEW v \in Version
      PROVE  /\ since'[v] \in 0 .. MaxStale + 1
             /\ since'[v] = since[v] \/ since'[v] = since[v] + 1
             /\ v >= table => since'[v] = since[v]
  <2>1. since[v] \in 0 .. MaxStale + 1 /\ MaxStale \in Nat
    BY <1>t, Consts
  <2>2. since'[v] = IF v < table /\ since[v] <= MaxStale THEN since[v] + 1 ELSE since[v]
    BY <1>4
  <2>3. v \in Nat
    BY DEF Version
  <2> QED BY <2>1, <2>2, <2>3
<1>6. since' \in [Version -> 0 .. MaxStale + 1]
  BY <1>4, <1>5
<1> QED BY <1>1, <1>2, <1>3, <1>5, <1>6, <1>u

\* Any other step moves each process's cache in one of the four ways.
LEMMA CacheSteps ==
    ASSUME CacheSane, CacheOK, table \in Version, CacheNext, ~CacheTick
    PROVE  CacheOK' /\ UNCHANGED since /\ \A q \in Procs : Moved(q)
<1>1. ASSUME UNCHANGED <<cache, load, told>>
      PROVE  CacheOK' /\ \A q \in Procs : Moved(q)
  BY <1>1 DEF CacheOK, Moved, Kept
<1>2. ASSUME NEW p \in Procs, Invalidate(p)
      PROVE  CacheOK' /\ \A q \in Procs : Moved(q)
  BY <1>2, InvalidateDoes, Zenon DEF Moved
<1>3. ASSUME NEW p \in Procs, Restart(p)
      PROVE  CacheOK' /\ \A q \in Procs : Moved(q)
  <2>1. /\ cache' = [cache EXCEPT ![p] = Empty] /\ load' = [load EXCEPT ![p] = NoLoad]
        /\ told' = [told EXCEPT ![p] = table]
    BY <1>3 DEF Restart
  <2>2. CacheOK'
    BY <2>1, Blank DEF CacheOK
  <2>3. cache'[p] = Empty /\ load'[p] = NoLoad /\ told'[p] = table
    BY <2>1 DEF CacheOK
  <2>4. \A q \in Procs \ {p} : Kept(q)
    BY <2>1 DEF CacheOK, Kept
  <2> QED BY <2>2, <2>3, <2>4, Blank DEF Moved, Dropped
<1>4. ASSUME NEW p \in Procs,
             \/ ForwardRuleRequest(p) \/ SilenceRequest(p) \/ SweepRequest(p, "sweep") \/ SweepRequest(p, "import")
             \/ Hear(p) \/ AfterCommit(p)
      PROVE  Invalidate(p) \/ UNCHANGED <<cache, load, told>>
  BY <1>4, Zenon DEF ForwardRuleRequest, ChangeForwardRule, SilenceRequest, ChangeSilence, SweepRequest, Hear, AfterCommit
<1>5. ASSUME NEW p \in Procs,
             \/ ListenerDies(p) \/ ImportConfig(p) \/ InboundRuleRequest(p) \/ RemediateRule(p)
             \/ Commit(p) \/ Rollback(p)
      PROVE  UNCHANGED <<cache, load, told>>
  BY <1>5 DEF ListenerDies, ImportConfig, InboundRuleRequest, RemediateRule, Quietly, Commit, Rollback
<1>6. ASSUME NEW p \in Procs, StartLoad(p) \/ FinishLoad(p)
      PROVE  CacheOK' /\ \A q \in Procs : Moved(q)
  BY <1>6, LoadDoes
<1>7. PICK p \in Procs :
        \/ StartLoad(p) \/ FinishLoad(p) \/ Hear(p) \/ ListenerDies(p)
        \/ ForwardRuleRequest(p) \/ SilenceRequest(p)
        \/ SweepRequest(p, "sweep") \/ SweepRequest(p, "import") \/ ImportConfig(p)
        \/ InboundRuleRequest(p) \/ RemediateRule(p)
        \/ Commit(p) \/ Rollback(p) \/ AfterCommit(p) \/ Restart(p)
  BY Zenon DEF CacheNext
<1>8. UNCHANGED since
  BY <1>7 DEF StartLoad, FinishLoad, Hear, ListenerDies, ForwardRuleRequest, SilenceRequest, SweepRequest,
              ImportConfig, InboundRuleRequest, RemediateRule, Quietly, Commit, Rollback, AfterCommit, Restart
<1>9. CacheOK' /\ \A q \in Procs : Moved(q)
  BY <1>1, <1>2, <1>3, <1>4, <1>5, <1>6, <1>7
<1> QED BY <1>8, <1>9

-----------------------------------------------------------------------------
(* The sessions *)

\* A session that ends, one way or another, without a new version.
Ends(p) == session' = [session EXCEPT ![p] = NoSession] /\ UNCHANGED <<table, edits, announced>>

LEMMA SessionSteps ==
    ASSUME CacheNext
    PROVE  /\ UNCHANGED kinds
           /\ \/ UNCHANGED <<session, table, edits, announced>>
              \/ \E p \in Procs, k \in Kinds : Begin(p, k) /\ UNCHANGED <<table, announced>>
              \/ \E p \in Procs : Commit(p) \/ Ends(p)
<1>1. CASE CacheTick
  BY <1>1 DEF CacheTick
<1>k. {"rule", "silence", "sweep", "import", "inbound", "remediate"} \subseteq Kinds
  BY DEF Kinds, RuleWriters, SilenceWriters, InboundWriters
<1>2. ASSUME NEW p \in Procs,
             \/ ForwardRuleRequest(p) \/ SilenceRequest(p) \/ SweepRequest(p, "sweep") \/ SweepRequest(p, "import")
             \/ ImportConfig(p) \/ InboundRuleRequest(p) \/ RemediateRule(p)
      PROVE  UNCHANGED kinds /\ \E k \in Kinds : Begin(p, k) /\ UNCHANGED <<table, announced>>
  BY <1>2, <1>k, Zenon DEF ForwardRuleRequest, ChangeForwardRule, SilenceRequest, ChangeSilence, SweepRequest, ImportConfig,
              InboundRuleRequest, RemediateRule, Quietly
<1>3. ASSUME NEW p \in Procs, StartLoad(p) \/ FinishLoad(p) \/ Hear(p) \/ ListenerDies(p)
      PROVE  UNCHANGED <<kinds, session, table, edits, announced>>
  BY <1>3 DEF StartLoad, FinishLoad, Hear, ListenerDies
<1>4. ASSUME NEW p \in Procs, Rollback(p) \/ AfterCommit(p) \/ Restart(p)
      PROVE  UNCHANGED kinds /\ Ends(p)
  BY <1>4 DEF Rollback, AfterCommit, Restart, Ends
<1>5. ASSUME NEW p \in Procs, Commit(p) PROVE UNCHANGED kinds
  BY <1>5 DEF Commit
<1> QED BY <1>1, <1>2, <1>3, <1>4, <1>5, Zenon DEF CacheNext

\* What a commit leaves of its session.
LEMMA CommitDoes ==
    ASSUME CacheSane, session \in [Procs -> Session], NEW p \in Procs, Commit(p)
    PROVE  /\ session' \in [Procs -> Session]
           /\ \A q \in Procs \ {p} : session'[q] = session[q]
           /\ \/ session'[p] = NoSession /\ session[p].kind \in {"sweep", "remediate"}
              \/ session'[p].pc = "committed" /\ session'[p].kind = session[p].kind
           /\ session[p].pc = "flushed" /\ table' = table + 1 /\ UNCHANGED edits
           /\ announced' = IF session[p].kind \in {"rule", "silence", "import"} THEN table + 1 ELSE announced
<1> DEFINE u == [session[p] EXCEPT !.pc = "committed"]
           v == IF session[p].kind \in {"sweep", "remediate"} THEN NoSession ELSE u
<1>1. session' = [session EXCEPT ![p] = v]
  BY DEF Commit
<1>2. u \in Session /\ u.pc = "committed" /\ u.kind = session[p].kind
  <2>1. session[p] \in Session
    OBVIOUS
  <2> QED BY <2>1, Zenon DEF Session
<1> HIDE DEF u
<1>3. v \in Session /\ (v = u \/ (v = NoSession /\ session[p].kind \in {"sweep", "remediate"}))
  <2>1. CASE session[p].kind \in {"sweep", "remediate"}
    BY <2>1, Blank
  <2>2. CASE session[p].kind \notin {"sweep", "remediate"}
    BY <2>2, <1>2
  <2> QED BY <2>1, <2>2
<1> HIDE DEF v
<1>4. session' \in [Procs -> Session] /\ session'[p] = v /\ \A q \in Procs \ {p} : session'[q] = session[q]
  BY <1>1, <1>3
<1>5. /\ session[p].pc = "flushed" /\ table' = table + 1 /\ UNCHANGED edits
      /\ announced' = IF session[p].kind \in {"rule", "silence", "import"} THEN table + 1 ELSE announced
  BY DEF Commit
<1> QED BY <1>2, <1>3, <1>4, <1>5

LEMMA BeginDoes ==
    ASSUME session \in [Procs -> Session], NEW p \in Procs, NEW k \in Kinds, Begin(p, k)
    PROVE  /\ session' \in [Procs -> Session]
           /\ session'[p].pc = "flushed" /\ session'[p].kind = k /\ k \in kinds
           /\ \A q \in Procs \ {p} : session'[q] = session[q]
           /\ session[p].pc = "idle" /\ edits < MaxVersion /\ edits' = edits + 1
<1> DEFINE u == [pc |-> "flushed", kind |-> k]
<1>1. u \in Session /\ u.pc = "flushed" /\ u.kind = k
  BY Zenon DEF Session
<1>2. session' = [session EXCEPT ![p] = u]
  BY DEF Begin
<1> HIDE DEF u
<1>3. session' \in [Procs -> Session] /\ session'[p] = u /\ \A q \in Procs \ {p} : session'[q] = session[q]
  BY <1>1, <1>2
<1> QED BY <1>1, <1>3 DEF Begin

LEMMA FlushedFinite ==
    ASSUME CacheSane
    PROVE  IsFiniteSet(Flushed) /\ Cardinality(Flushed) \in Nat
<1>1. Flushed \subseteq Procs /\ IsFiniteSet(Procs)
  BY DEF Flushed, CacheSane
<1>2. IsFiniteSet(Flushed)
  BY <1>1, FS_Subset
<1> QED BY <1>2, FS_CardinalityType

LEMMA EditNext ==
    ASSUME CacheSane, EditOK, CacheNext
    PROVE  EditOK' /\ table \in Version /\ table' >= table
<1>t. /\ session \in [Procs -> Session] /\ table \in Nat /\ edits \in Version /\ announced \in 0 .. table
      /\ \A p \in Procs : session[p].pc # "idle" => session[p].kind \in kinds
      /\ kinds = InboundWriters => announced = 0
      /\ kinds \in {RuleWriters, SilenceWriters, InboundWriters}
  BY DEF EditOK
<1>c. IsFiniteSet(Flushed) /\ Cardinality(Flushed) \in Nat /\ table + Cardinality(Flushed) <= edits
  BY FlushedFinite DEF EditOK
<1>m. MaxVersion \in Nat /\ edits \in 0 .. MaxVersion
  BY <1>t, Consts DEF Version
<1>v. table \in Version
  BY <1>t, <1>c, <1>m DEF Version
<1>1. CASE UNCHANGED <<session, table, edits, announced, kinds>>
  <2>1. Flushed' = Flushed
    BY <1>1 DEF Flushed
  <2> QED BY <1>1, <2>1, <1>t, <1>c, <1>v DEF EditOK
<1>2. ASSUME NEW p \in Procs, NEW k \in Kinds, Begin(p, k), UNCHANGED <<table, announced, kinds>>
      PROVE  EditOK' /\ table' >= table
  <2>1. /\ session' \in [Procs -> Session]
        /\ session'[p].pc = "flushed" /\ session'[p].kind = k /\ k \in kinds
        /\ \A q \in Procs \ {p} : session'[q] = session[q]
        /\ session[p].pc = "idle" /\ edits < MaxVersion /\ edits' = edits + 1
    BY <1>2, <1>t, BeginDoes
  <2>2. Flushed' = Flushed \cup {p} /\ p \notin Flushed
    BY <2>1 DEF Flushed
  <2>3. Cardinality(Flushed') = Cardinality(Flushed) + 1
    BY <2>2, <1>c, FS_AddElement
  <2>4. edits' \in Version /\ table' + Cardinality(Flushed') <= edits'
    BY <1>2, <2>1, <2>3, <1>t, <1>c, <1>m DEF Version
  <2>5. \A q \in Procs : session'[q].pc # "idle" => session'[q].kind \in kinds'
    BY <1>2, <2>1, <1>t
  <2>6. table' >= table
    BY <1>2, <1>t
  <2> QED BY <1>2, <2>1, <2>4, <2>5, <2>6, <1>t DEF EditOK
<1>3. ASSUME NEW p \in Procs, Commit(p), UNCHANGED kinds
      PROVE  EditOK' /\ table' >= table
  <2>1. /\ session' \in [Procs -> Session]
        /\ \A q \in Procs \ {p} : session'[q] = session[q]
        /\ \/ session'[p] = NoSession /\ session[p].kind \in {"sweep", "remediate"}
           \/ session'[p].pc = "committed" /\ session'[p].kind = session[p].kind
        /\ session[p].pc = "flushed" /\ table' = table + 1 /\ UNCHANGED edits
        /\ announced' = IF session[p].kind \in {"rule", "silence", "import"} THEN table + 1 ELSE announced
    BY <1>3, <1>t, CommitDoes
  <2>2. Flushed' = Flushed \ {p} /\ p \in Flushed
    BY <2>1, Blank DEF Flushed
  <2>3. Cardinality(Flushed') = Cardinality(Flushed) - 1
    BY <2>2, <1>c, FS_RemoveElement
  <2>4. edits' \in Version /\ table' \in Nat /\ table' + Cardinality(Flushed') <= edits' /\ table' >= table
    BY <2>1, <2>3, <1>t, <1>c, <1>m
  <2>5. announced' \in 0 .. table'
    BY <2>1, <1>t
  <2>6. kinds = InboundWriters => session[p].kind = "inbound"
    BY <2>1, <1>t DEF InboundWriters
  <2>7. kinds' = InboundWriters => announced' = 0
    BY <1>3, <2>1, <2>6, <1>t
  <2>8. \A q \in Procs : session'[q].pc # "idle" => session'[q].kind \in kinds'
    BY <1>3, <2>1, <1>t, Blank
  <2> QED BY <1>3, <2>1, <2>4, <2>5, <2>7, <2>8, <1>t DEF EditOK
<1>4. ASSUME NEW p \in Procs, Ends(p), UNCHANGED kinds
      PROVE  EditOK' /\ table' >= table
  <2>1. /\ session' \in [Procs -> Session] /\ session'[p] = NoSession
        /\ \A q \in Procs \ {p} : session'[q] = session[q]
        /\ UNCHANGED <<table, edits, announced>>
    BY <1>4, <1>t, Blank DEF Ends
  <2>2. Flushed' = Flushed \ {p}
    BY <2>1, Blank DEF Flushed
  <2>3. Cardinality(Flushed') <= Cardinality(Flushed) /\ Cardinality(Flushed') \in Nat
    <3>1. Flushed' \subseteq Flushed
      BY <2>2
    <3>2. IsFiniteSet(Flushed')
      BY <3>1, <1>c, FS_Subset
    <3> QED BY <3>1, <3>2, <1>c, FS_Subset, FS_CardinalityType
  <2>4. table' + Cardinality(Flushed') <= edits' /\ table' >= table
    BY <2>1, <2>3, <1>t, <1>c, <1>m
  <2>5. \A q \in Procs : session'[q].pc # "idle" => session'[q].kind \in kinds'
    BY <1>4, <2>1, <1>t, Blank
  <2> QED BY <1>4, <2>1, <2>4, <2>5, <1>t DEF EditOK
<1>5. EditOK' /\ table' >= table
  <2>1. table >= table
    BY <1>t
  <2> QED BY <1>1, <1>2, <1>3, <1>4, <1>t, <2>1, SessionSteps
<1> QED BY <1>5, <1>v

LEMMA FaultType ==
    ASSUME CacheSane, faults \in 0 .. MaxFaults
    PROVE  /\ Fault => faults' \in 0 .. MaxFaults /\ faults' > faults /\ faults' # 0
           /\ UNCHANGED faults => faults' \in 0 .. MaxFaults
BY Consts DEF Fault

\* Messages: published to whoever listens, heard one at a time, lost with a fault only.
LEMMA NoticeNext ==
    ASSUME CacheSane, NoticeOK, CacheNext
    PROVE  /\ NoticeOK'
           /\ faults' = 0 => faults = 0 /\ UNCHANGED listening
<1>t. inbox \in [Procs -> Nat] /\ listening \in [Procs -> BOOLEAN] /\ faults \in 0 .. MaxFaults
  BY DEF NoticeOK
<1>1. ASSUME UNCHANGED <<inbox, listening, faults>>
      PROVE  NoticeOK' /\ (faults' = 0 => faults = 0 /\ UNCHANGED listening)
  BY <1>1, <1>t DEF NoticeOK
<1>2. ASSUME Publish, UNCHANGED listening
      PROVE  NoticeOK' /\ (faults' = 0 => faults = 0 /\ UNCHANGED listening)
  <2>1. inbox' \in [Procs -> Nat]
    BY <1>2, <1>t DEF Publish
  <2>2. faults' \in 0 .. MaxFaults /\ (faults' = 0 => faults = 0)
    BY <1>2, <1>t, FaultType, Consts DEF Publish
  <2> QED BY <1>2, <2>1, <2>2, <1>t DEF NoticeOK
<1>3. ASSUME NEW p \in Procs, Hear(p)
      PROVE  NoticeOK' /\ (faults' = 0 => faults = 0 /\ UNCHANGED listening)
  <2>1. inbox' = [inbox EXCEPT ![p] = inbox[p] - 1] /\ inbox[p] > 0 /\ UNCHANGED <<listening, faults>>
    BY <1>3 DEF Hear
  <2>2. inbox' \in [Procs -> Nat]
    BY <2>1, <1>t
  <2> QED BY <2>1, <2>2, <1>t DEF NoticeOK
<1>4. ASSUME NEW p \in Procs, ListenerDies(p) \/ Restart(p)
      PROVE  NoticeOK' /\ (faults' = 0 => faults = 0 /\ UNCHANGED listening)
  <2>1. /\ inbox' = [inbox EXCEPT ![p] = 0] /\ Fault
        /\ \E b \in BOOLEAN : listening' = [listening EXCEPT ![p] = b]
    BY <1>4 DEF ListenerDies, Restart, Listened
  <2>2. inbox' \in [Procs -> Nat] /\ listening' \in [Procs -> BOOLEAN]
    BY <2>1, <1>t
  <2>3. faults' \in 0 .. MaxFaults /\ faults' # 0
    BY <2>1, <1>t, FaultType
  <2> QED BY <2>2, <2>3 DEF NoticeOK
<1>5. ASSUME NEW p \in Procs,
             \/ StartLoad(p) \/ FinishLoad(p) \/ ForwardRuleRequest(p) \/ SilenceRequest(p) \/ ImportConfig(p)
             \/ InboundRuleRequest(p) \/ RemediateRule(p) \/ Commit(p) \/ Rollback(p)
      PROVE  UNCHANGED <<inbox, listening, faults>>
  BY <1>5 DEF StartLoad, FinishLoad, ForwardRuleRequest, SilenceRequest, ImportConfig, InboundRuleRequest, RemediateRule,
              Quietly, Commit, Rollback
<1>6. ASSUME NEW p \in Procs, SweepRequest(p, "sweep") \/ SweepRequest(p, "import") \/ AfterCommit(p)
      PROVE  Publish /\ UNCHANGED listening
  BY <1>6, Zenon DEF SweepRequest, AfterCommit
<1>7. ASSUME CacheTick PROVE UNCHANGED <<inbox, listening, faults>>
  BY <1>7 DEF CacheTick
<1> QED BY <1>1, <1>2, <1>3, <1>4, <1>5, <1>6, <1>7, Zenon DEF CacheNext

-----------------------------------------------------------------------------
(* The invariants *)

\* What is cached, and what a clean load will have cached, is no older than the
\* table was at the last invalidation.
Honoured ==
    \A p \in Procs :
        /\ told[p] <= table
        /\ cache[p].val # None => cache[p].val >= told[p]
        /\ load[p].on /\ load[p].clean => load[p].val >= told[p]

\* A load in flight has been superseded for no longer than it is out, a fresh value
\* for no longer than a load and its age.
Bounded ==
    \A p \in Procs :
        /\ load[p].on => since[load[p].val] + load[p].left <= MaxLoad
        /\ Fresh(p) => since[cache[p].val] <= MaxLoad + cache[p].age

\* An announced edit is being announced.
Announcing == \E q \in Procs : session[q].pc = "committed" /\ session[q].kind # "inbound"

Current(p) ==
    /\ cache[p].val # None => cache[p].val >= announced
    /\ load[p].on /\ load[p].clean => load[p].val >= announced

\* Without a fault a process that is behind the last announced edit will hear of it.
Live ==
    faults = 0 => \A p \in Procs :
        /\ listening[p] = Listened
        /\ Current(p) \/ inbox[p] > 0 \/ Announcing

CacheInv == CacheOK /\ EditOK /\ NoticeOK /\ SinceOK /\ Honoured /\ Bounded /\ Live

LEMMA Fields ==
    ASSUME CacheOK, NEW p \in Procs
    PROVE  /\ cache[p].val \in Version \cup {None} /\ cache[p].age \in 0 .. CacheTTL
           /\ load[p].val \in Version /\ load[p].left \in 0 .. MaxLoad
           /\ load[p].on \in BOOLEAN /\ load[p].clean \in BOOLEAN
           /\ told[p] \in Version
<1>1. cache[p].val \in Version \cup {None} /\ cache[p].age \in 0 .. CacheTTL
  <2>1. cache[p] \in Entry
    BY DEF CacheOK
  <2> QED BY <2>1, Zenon DEF Entry
<1>2. /\ load[p].val \in Version /\ load[p].left \in 0 .. MaxLoad
      /\ load[p].on \in BOOLEAN /\ load[p].clean \in BOOLEAN
  <2>1. load[p] \in Load
    BY DEF CacheOK
  <2> QED BY <2>1, Zenon DEF Load
<1> QED BY <1>1, <1>2 DEF CacheOK

LEMMA SinceNext ==
    ASSUME CacheSane, CacheOK, EditOK, SinceOK, CacheNext
    PROVE  SinceOK'
<1>1. table \in Version /\ table \in Nat /\ table' >= table /\ table' \in Nat
  BY EditNext DEF EditOK
<1>n. Version \subseteq Nat
  BY DEF Version
<1>2. CASE CacheTick
  <2>1. /\ since' \in [Version -> 0 .. MaxStale + 1] /\ UNCHANGED table
        /\ \A v \in Version : v >= table => since'[v] = since[v]
    BY <1>1, <1>2, TickDoes
  <2> QED BY <2>1 DEF SinceOK
<1>3. CASE ~CacheTick
  <2>1. UNCHANGED since
    BY <1>1, <1>3, CacheSteps
  <2>2. \A v \in Version : v >= table' => v >= table
    BY <1>1, <1>n
  <2> QED BY <2>1, <2>2 DEF SinceOK
<1> QED BY <1>2, <1>3

LEMMA CacheOKNext ==
    ASSUME CacheSane, CacheOK, EditOK, SinceOK, CacheNext
    PROVE  CacheOK'
BY EditNext, TickDoes, CacheSteps DEF EditOK

LEMMA HonouredNext ==
    ASSUME CacheSane, CacheOK, EditOK, SinceOK, Honoured, CacheNext
    PROVE  Honoured'
<1>1. table \in Version /\ table \in Nat /\ table' >= table /\ table' \in Nat
  BY EditNext DEF EditOK
<1>n. Version \subseteq Nat
  BY DEF Version
<1>2. ASSUME NEW p \in Procs
      PROVE  /\ told'[p] <= table'
             /\ cache'[p].val # None => cache'[p].val >= told'[p]
             /\ load'[p].on /\ load'[p].clean => load'[p].val >= told'[p]
  <2>1. told[p] \in Nat
    BY <1>n, Fields
  <2>2. /\ told[p] <= table
        /\ cache[p].val # None => cache[p].val >= told[p]
        /\ load[p].on /\ load[p].clean => load[p].val >= told[p]
    BY DEF Honoured
  <2>3. told[p] <= table'
    BY <1>1, <2>1, <2>2
  <2>4. CASE CacheTick
    <3>1. /\ cache'[p].val = cache[p].val /\ told'[p] = told[p]
          /\ load'[p].on = load[p].on /\ load'[p].val = load[p].val /\ load'[p].clean = load[p].clean
      BY <1>1, <2>4, TickDoes
    <3> QED BY <2>2, <2>3, <3>1
  <2>5. CASE Moved(p)
    <3>1. CASE Kept(p)
      BY <2>2, <2>3, <3>1 DEF Kept
    <3>2. CASE Dropped(p)
      BY <1>1, <3>2 DEF Dropped
    <3>3. CASE Started(p)
      BY <1>1, <2>2, <2>3, <3>3 DEF Started
    <3>4. CASE Installed(p)
      BY <2>2, <2>3, <3>4 DEF Installed
    <3> QED BY <2>5, <3>1, <3>2, <3>3, <3>4 DEF Moved
  <2> QED BY <2>4, <2>5, <1>1, CacheSteps
<1> QED BY <1>2 DEF Honoured

LEMMA BoundedNext ==
    ASSUME CacheSane, CacheOK, EditOK, SinceOK, Bounded, CacheNext
    PROVE  Bounded'
<1>1. table \in Version /\ table \in Nat
  BY EditNext DEF EditOK
<1>c. CacheTTL \in Nat /\ MaxLoad \in Nat
  BY Consts
<1>s. \A v \in Version : since[v] \in Nat
  BY Consts DEF SinceOK
<1>2. ASSUME NEW p \in Procs
      PROVE  /\ load'[p].on => since'[load'[p].val] + load'[p].left <= MaxLoad
             /\ Fresh(p)' => since'[cache'[p].val] <= MaxLoad + cache'[p].age
  <2>1. /\ cache[p].val \in Version \cup {None} /\ cache[p].age \in Nat
        /\ load[p].val \in Version /\ load[p].left \in Nat
    BY Fields
  <2>2. /\ load[p].on => since[load[p].val] + load[p].left <= MaxLoad
        /\ cache[p].val # None /\ cache[p].age < CacheTTL => since[cache[p].val] <= MaxLoad + cache[p].age
    BY DEF Bounded, Fresh
  <2>3. CASE CacheTick
    <3>1. /\ cache'[p].val = cache[p].val
          /\ cache'[p].age = IF Fresh(p) THEN cache[p].age + 1 ELSE cache[p].age
          /\ load'[p].on = load[p].on /\ load'[p].val = load[p].val
          /\ load[p].on => load[p].left > 0 /\ load'[p].left = load[p].left - 1
          /\ \A v \in Version : since'[v] = since[v] \/ since'[v] = since[v] + 1
      BY <1>1, <2>3, TickDoes
    <3>2. load'[p].on => since'[load'[p].val] + load'[p].left <= MaxLoad
      <4>1. ASSUME load[p].on
            PROVE  since'[load[p].val] + (load[p].left - 1) <= MaxLoad
        <5>1. since[load[p].val] + load[p].left <= MaxLoad
          BY <2>2, <4>1
        <5>2. since'[load[p].val] = since[load[p].val] \/ since'[load[p].val] = since[load[p].val] + 1
          BY <2>1, <3>1
        <5>3. since[load[p].val] \in Nat
          BY <1>s, <2>1
        <5> QED BY <5>1, <5>2, <5>3, <2>1, <1>c
      <4> QED BY <3>1, <4>1
    <3>3. Fresh(p)' => since'[cache'[p].val] <= MaxLoad + cache'[p].age
      <4>1. ASSUME Fresh(p)'
            PROVE  since'[cache[p].val] <= MaxLoad + (cache[p].age + 1) /\ cache'[p].age = cache[p].age + 1
        <5>1. Fresh(p)
          BY <3>1, <4>1, <2>1, <1>c DEF Fresh
        <5>2. cache[p].val \in Version /\ since[cache[p].val] <= MaxLoad + cache[p].age
          BY <5>1, <2>1, <2>2 DEF Fresh
        <5>3. since'[cache[p].val] = since[cache[p].val] \/ since'[cache[p].val] = since[cache[p].val] + 1
          BY <3>1, <5>2
        <5>4. since[cache[p].val] \in Nat
          BY <1>s, <5>2
        <5>5. since'[cache[p].val] <= MaxLoad + (cache[p].age + 1)
          BY <5>2, <5>3, <5>4, <2>1, <1>c
        <5> QED BY <3>1, <5>1, <5>5
      <4> QED BY <3>1, <4>1
    <3> QED BY <3>2, <3>3
  <2>4. ASSUME UNCHANGED since, Moved(p)
        PROVE  /\ load'[p].on => since[load'[p].val] + load'[p].left <= MaxLoad
               /\ cache'[p].val # None /\ cache'[p].age < CacheTTL
                  => since[cache'[p].val] <= MaxLoad + cache'[p].age
    <3>1. CASE Kept(p)
      BY <2>2, <3>1 DEF Kept
    <3>2. CASE Dropped(p)
      BY <2>2, <3>2 DEF Dropped
    <3>3. CASE Started(p)
      <4>1. since[table] = 0
        BY <1>1 DEF SinceOK
      <4> QED BY <2>2, <3>3, <4>1, <1>c DEF Started
    <3>4. CASE Installed(p)
      <4>1. since[load[p].val] <= MaxLoad
        BY <2>1, <2>2, <3>4, <1>s, <1>c DEF Installed
      <4> QED BY <2>2, <3>4, <4>1, <1>c DEF Installed
    <3> QED BY <2>4, <3>1, <3>2, <3>3, <3>4 DEF Moved
  <2>5. CASE ~CacheTick
    <3>1. UNCHANGED since /\ Moved(p)
      BY <1>1, <2>5, CacheSteps
    <3> QED BY <2>4, <3>1 DEF Fresh
  <2> QED BY <2>3, <2>5
<1> QED BY <1>2 DEF Bounded

\* What a process has stays current, and what it is dropped for makes it so.
LEMMA CurrentKept ==
    ASSUME CacheOK, table \in Nat, announced \in 0 .. table, UNCHANGED announced, NEW p \in Procs, Moved(p)
    PROVE  /\ Current(p) => Current(p)'
           /\ Dropped(p) => Current(p)'
           /\ announced = 0 => Current(p)
<1>1. Version \subseteq Nat
  BY DEF Version
<1>2. Dropped(p) => Current(p)'
  BY DEF Dropped, Current
<1>3. announced = 0 => Current(p)
  <2>1. (cache[p].val # None => cache[p].val \in Nat) /\ load[p].val \in Nat
    BY Fields, <1>1
  <2>2. \A n \in Nat : n >= 0
    OBVIOUS
  <2> QED BY <2>1, <2>2 DEF Current
<1>4. ASSUME Current(p) PROVE Current(p)'
  <2>1. CASE Kept(p)
    BY <1>4, <2>1 DEF Kept, Current
  <2>2. CASE Started(p)
    BY <1>4, <2>2 DEF Started, Current
  <2>3. CASE Installed(p)
    BY <1>4, <2>3 DEF Installed, Current
  <2> QED BY <1>2, <2>1, <2>2, <2>3 DEF Moved
<1> QED BY <1>2, <1>3, <1>4

\* Unless the edit is committed, what is owed to a process stays owed, is heard, or
\* is told to everybody who listens.
LEMMA Owed ==
    ASSUME CacheSane, CacheOK, EditOK, NoticeOK, CacheNext, ~CacheTick, faults' = 0, ~(\E q \in Procs : Commit(q)), NEW p \in Procs
    PROVE  /\ UNCHANGED announced
           /\ inbox[p] > 0 => inbox'[p] > 0 \/ Dropped(p)
           /\ Announcing => Announcing' \/ (listening[p] => inbox'[p] > 0)
<1>t. /\ inbox \in [Procs -> Nat] /\ faults \in 0 .. MaxFaults /\ listening \in [Procs -> BOOLEAN]
      /\ session \in [Procs -> Session] /\ table \in Version
  BY EditNext DEF NoticeOK, EditOK
<1>p. ASSUME Publish PROVE inbox'[p] >= inbox[p] /\ (listening[p] => inbox'[p] > 0)
  <2>1. inbox' = [q \in Procs |-> IF listening[q] THEN inbox[q] + 1 ELSE inbox[q]]
    BY <1>p, <1>t, FaultType DEF Publish
  <2> QED BY <2>1, <1>t
<1>b. ASSUME NEW q \in Procs, NEW k \in Kinds, Begin(q, k)
      PROVE  Announcing => Announcing'
  <2>1. /\ \A r \in Procs \ {q} : session'[r] = session[r]
        /\ session[q].pc = "idle"
    BY <1>b, <1>t, BeginDoes
  <2> QED BY <2>1 DEF Announcing
<1>k. {"rule", "silence", "sweep", "import", "inbound", "remediate"} \subseteq Kinds
  BY DEF Kinds, RuleWriters, SilenceWriters, InboundWriters
<1>1. ASSUME NEW q \in Procs, StartLoad(q) \/ FinishLoad(q)
      PROVE  UNCHANGED <<announced, inbox, session>>
  BY <1>1 DEF StartLoad, FinishLoad
<1>2. ASSUME NEW q \in Procs, Hear(q)
      PROVE  UNCHANGED <<announced, session>> /\ (inbox[p] > 0 => inbox'[p] > 0 \/ Dropped(p))
  <2>1. /\ UNCHANGED <<announced, session>> /\ Invalidate(q)
        /\ \A r \in Procs \ {q} : inbox'[r] = inbox[r]
    BY <1>2, <1>t DEF Hear
  <2>2. p = q => Dropped(p)
    BY <2>1, <1>t, InvalidateDoes
  <2> QED BY <2>1, <2>2
<1>3. ASSUME NEW q \in Procs, ListenerDies(q) \/ Restart(q) PROVE FALSE
  BY <1>3, <1>t, FaultType DEF ListenerDies, Restart
<1>4. ASSUME NEW q \in Procs,
             ForwardRuleRequest(q) \/ SilenceRequest(q) \/ ImportConfig(q) \/ InboundRuleRequest(q) \/ RemediateRule(q)
      PROVE  UNCHANGED <<announced, inbox>> /\ (Announcing => Announcing')
  <2>1. /\ UNCHANGED <<announced, inbox>>
        /\ \E k \in {"rule", "silence", "sweep", "import", "inbound", "remediate"} : Begin(q, k)
    BY <1>4, Zenon DEF ForwardRuleRequest, ChangeForwardRule, SilenceRequest, ChangeSilence, ImportConfig,
                       InboundRuleRequest, RemediateRule, Quietly
  <2> QED BY <2>1, <1>b, <1>k
<1>5. ASSUME NEW q \in Procs, SweepRequest(q, "sweep") \/ SweepRequest(q, "import")
      PROVE  UNCHANGED announced /\ Publish /\ (Announcing => Announcing')
  <2>1. /\ UNCHANGED announced /\ Publish
        /\ \E k \in {"rule", "silence", "sweep", "import", "inbound", "remediate"} : Begin(q, k)
    BY <1>5, Zenon DEF SweepRequest
  <2> QED BY <2>1, <1>b, <1>k
<1>6. ASSUME NEW q \in Procs, Rollback(q)
      PROVE  UNCHANGED <<announced, inbox>> /\ (Announcing => Announcing')
  <2>1. /\ UNCHANGED <<announced, inbox>> /\ session[q].pc = "flushed"
        /\ \A r \in Procs \ {q} : session'[r] = session[r]
    BY <1>6, <1>t DEF Rollback
  <2> QED BY <2>1 DEF Announcing
<1>7. ASSUME NEW q \in Procs, AfterCommit(q)
      PROVE  UNCHANGED announced /\ Publish
  BY <1>7, Zenon DEF AfterCommit
<1>8. ASSUME UNCHANGED inbox PROVE inbox[p] > 0 => inbox'[p] > 0
  BY <1>8
<1>9. ASSUME Publish PROVE inbox[p] > 0 => inbox'[p] > 0
  <2>1. inbox[p] \in Nat /\ inbox'[p] >= inbox[p] /\ inbox'[p] \in Nat
    BY <1>9, <1>p, <1>t, NoticeNext DEF NoticeOK
  <2> QED BY <2>1
<1>10. ASSUME UNCHANGED session PROVE Announcing => Announcing'
  BY <1>10 DEF Announcing
<1> QED BY <1>1, <1>2, <1>3, <1>4, <1>5, <1>6, <1>7, <1>8, <1>9, <1>10, <1>p, Zenon DEF CacheNext

LEMMA LiveNext ==
    ASSUME CacheSane, CacheOK, EditOK, NoticeOK, SinceOK, Live, CacheNext
    PROVE  Live'
<1> SUFFICES ASSUME faults' = 0
             PROVE  \A p \in Procs : /\ listening'[p] = Listened'
                                     /\ Current(p)' \/ inbox'[p] > 0 \/ Announcing'
  BY DEF Live
<1>t. /\ table \in Version /\ table \in Nat /\ announced \in 0 .. table
      /\ session \in [Procs -> Session]
      /\ \A p \in Procs : session[p].pc # "idle" => session[p].kind \in kinds
      /\ kinds = InboundWriters => announced = 0
  BY EditNext DEF EditOK
<1>1. faults = 0 /\ UNCHANGED listening /\ UNCHANGED kinds
  BY NoticeNext, SessionSteps
<1>2. \A p \in Procs : listening'[p] = Listened'
  BY <1>1 DEF Live, Listened
<1>3. \A p \in Procs : Current(p) \/ inbox[p] > 0 \/ Announcing
  BY <1>1 DEF Live
<1>4. CASE CacheTick
  <2>1. UNCHANGED <<inbox, session, announced>>
    BY <1>4 DEF CacheTick
  <2>2. \A p \in Procs : /\ cache'[p].val = cache[p].val
                         /\ load'[p].on = load[p].on /\ load'[p].val = load[p].val /\ load'[p].clean = load[p].clean
    BY <1>4, <1>t, TickDoes
  <2>3. \A p \in Procs : Current(p) => Current(p)'
    BY <2>1, <2>2 DEF Current
  <2>4. Announcing => Announcing'
    BY <2>1 DEF Announcing
  <2> QED BY <1>2, <1>3, <2>1, <2>3, <2>4
<1>5. ASSUME NEW q \in Procs, Commit(q), ~CacheTick
      PROVE  \A p \in Procs : Current(p)' \/ inbox'[p] > 0 \/ Announcing'
  <2>1. /\ \A r \in Procs \ {q} : session'[r] = session[r]
        /\ \/ session'[q] = NoSession /\ session[q].kind \in {"sweep", "remediate"}
           \/ session'[q].pc = "committed" /\ session'[q].kind = session[q].kind
        /\ session[q].pc = "flushed"
        /\ announced' = IF session[q].kind \in {"rule", "silence", "import"} THEN table + 1 ELSE announced
    BY <1>5, <1>t, CommitDoes
  <2>2. UNCHANGED <<cache, load, inbox>>
    BY <1>5 DEF Commit
  <2>3. CASE session[q].kind \in {"rule", "silence", "import"}
    BY <2>1, <2>3 DEF Announcing
  <2>4. CASE session[q].kind \notin {"rule", "silence", "import"}
    <3>1. UNCHANGED announced
      BY <2>1, <2>4
    <3>2. \A p \in Procs : Current(p) => Current(p)'
      BY <2>2, <3>1 DEF Current
    <3>3. Announcing => Announcing'
      BY <2>1 DEF Announcing
    <3> QED BY <1>3, <2>2, <3>2, <3>3
  <2> QED BY <2>3, <2>4
<1>6. ASSUME ~CacheTick, ~(\E q \in Procs : Commit(q)), NEW p \in Procs
      PROVE  Current(p)' \/ inbox'[p] > 0 \/ Announcing'
  <2>1. /\ UNCHANGED announced
        /\ inbox[p] > 0 => inbox'[p] > 0 \/ Dropped(p)
        /\ Announcing => Announcing' \/ (listening[p] => inbox'[p] > 0)
    BY <1>6, Owed
  <2>2. Moved(p)
    BY <1>6, <1>t, CacheSteps
  <2>3. /\ Current(p) => Current(p)'
        /\ Dropped(p) => Current(p)'
        /\ announced = 0 => Current(p)
    BY <1>t, <2>1, <2>2, CurrentKept
  <2>4. listening[p] \/ announced = 0
    BY <1>1, <1>t DEF Live, Listened
  <2> QED BY <1>3, <2>1, <2>3, <2>4
<1> QED BY <1>2, <1>4, <1>5, <1>6

-----------------------------------------------------------------------------
(* The theorems *)

LEMMA Start == ASSUME CacheSane, CacheInit PROVE CacheInv
<1>1. /\ cache = [p \in Procs |-> Empty] /\ load = [p \in Procs |-> NoLoad] /\ told = [p \in Procs |-> 0]
      /\ session = [p \in Procs |-> NoSession] /\ inbox = [p \in Procs |-> 0]
      /\ listening = [p \in Procs |-> Listened] /\ since = [v \in Version |-> 0]
      /\ table = 0 /\ announced = 0 /\ edits = 0 /\ faults = 0
      /\ kinds \in {RuleWriters, SilenceWriters, InboundWriters}
  BY DEF CacheInit
<1>2. CacheOK
  BY <1>1, Blank, Consts DEF CacheOK
<1>3. NoticeOK
  <2>1. Listened \in BOOLEAN
    BY DEF Listened
  <2> QED BY <1>1, <2>1, Consts DEF NoticeOK
<1>4. EditOK
  <2>1. Flushed = {}
    BY <1>1, Blank DEF Flushed
  <2>2. Cardinality(Flushed) = 0
    BY <2>1, FS_EmptySet
  <2>3. session \in [Procs -> Session] /\ \A p \in Procs : session[p].pc = "idle"
    BY <1>1, Blank
  <2>4. table \in Nat /\ edits \in Version /\ announced \in 0 .. table /\ table + Cardinality(Flushed) <= edits
    BY <1>1, <2>2, Consts
  <2> QED BY <1>1, <2>3, <2>4 DEF EditOK
<1>5. SinceOK
  <2>1. since \in [Version -> 0 .. MaxStale + 1]
    BY <1>1, Consts
  <2>2. \A v \in Version : since[v] = 0
    BY <1>1
  <2> QED BY <2>1, <2>2 DEF SinceOK
<1>6. Honoured
  <2>1. \A p \in Procs : ~load[p].on /\ cache[p].val = None
    BY <1>1, Blank
  <2>2. \A p \in Procs : told[p] <= table
    <3>1. table = 0 /\ \A p \in Procs : told[p] = 0
      BY <1>1
    <3>2. 0 <= 0
      OBVIOUS
    <3> QED BY <3>1, <3>2, Zenon
  <2> QED BY <2>1, <2>2 DEF Honoured
<1>7. Bounded
  <2>1. \A p \in Procs : ~load[p].on /\ cache[p].val = None
    BY <1>1, Blank
  <2> QED BY <2>1 DEF Bounded, Fresh
<1>8. Live
  BY <1>1, Blank DEF Live, Current
<1> QED BY <1>2, <1>3, <1>4, <1>5, <1>6, <1>7, <1>8 DEF CacheInv

LEMMA CacheInvNext == ASSUME CacheSane, CacheInv, [CacheNext]_cacheVars PROVE CacheInv'
<1>1. CASE CacheNext
  BY <1>1, CacheOKNext, EditNext, NoticeNext, SinceNext, HonouredNext, BoundedNext, LiveNext DEF CacheInv
<1>2. CASE UNCHANGED cacheVars
  <2>1. CacheOK' /\ EditOK' /\ NoticeOK' /\ SinceOK'
    BY <1>2 DEF CacheInv, cacheVars, CacheOK, EditOK, NoticeOK, SinceOK, Flushed
  <2>2. Honoured' /\ Bounded' /\ Live'
    BY <1>2 DEF CacheInv, cacheVars, Honoured, Bounded, Live, Fresh, Current, Announcing, Listened
  <2> QED BY <2>1, <2>2 DEF CacheInv
<1> QED BY <1>1, <1>2

LEMMA CacheInductive == ASSUME CacheSane PROVE CacheSpec => []CacheInv
<1>1. CacheInit => CacheInv
  BY Start
<1>2. CacheInv /\ [CacheNext]_cacheVars => CacheInv'
  BY CacheInvNext
<1> QED BY <1>1, <1>2, PTL DEF CacheSpec

\* Every table, session, cache and message queue keeps its type: the table never
\* has more versions than edits were begun.
THEOREM ConfigTypeCorrect == ASSUME CacheSane PROVE CacheSpec => []CacheTypeOK
<1>1. CacheInv => CacheTypeOK
  <2> SUFFICES ASSUME CacheInv PROVE CacheTypeOK
    OBVIOUS
  <2>1. table \in Version /\ announced \in Version /\ edits \in Version
    <3>1. /\ table \in Nat /\ edits \in 0 .. MaxVersion /\ announced \in 0 .. table
          /\ table + Cardinality(Flushed) <= edits
      BY DEF CacheInv, EditOK, Version
    <3>2. Cardinality(Flushed) \in Nat /\ MaxVersion \in Nat
      BY FlushedFinite, Consts
    <3> QED BY <3>1, <3>2 DEF Version
  <2> QED BY <2>1 DEF CacheInv, CacheTypeOK, CacheOK, EditOK, NoticeOK, SinceOK
<1> QED BY <1>1, CacheInductive, PTL

\* A notice is never undone by a reload that was under way: the epoch guard of
\* TtlPubSubCache.get keeps what was read before an invalidation out of the cache.
THEOREM NoticesHonoured == ASSUME CacheSane PROVE CacheSpec => []NoticeHonoured
<1>1. CacheInv => NoticeHonoured
  BY DEF CacheInv, Honoured, NoticeHonoured, Fresh
<1> QED BY <1>1, CacheInductive, PTL

\* Without a fault, once nobody is editing and no notice is on the way, nobody serves
\* a table older than the last edit that announces itself (invalidate_after_commit).
THEOREM EditsAreLive == ASSUME CacheSane PROVE CacheSpec => []EditIsLive
<1>1. CacheInv => EditIsLive
  <2> SUFFICES ASSUME CacheInv, faults = 0, \A p \in Procs : session[p].pc = "idle" /\ inbox[p] = 0,
                      NEW p \in Procs, Fresh(p)
               PROVE  cache[p].val >= announced
    BY DEF EditIsLive
  <2>1. ~(inbox[p] > 0) /\ ~Announcing
    BY DEF Announcing
  <2>2. Current(p)
    BY <2>1 DEF CacheInv, Live
  <2> QED BY <2>2 DEF Current, Fresh
<1> QED BY <1>1, CacheInductive, PTL

\* Whatever notices are lost, a table is served from the cache for no longer than the
\* TTL and one load after it was superseded.
THEOREM StalenessBounded == ASSUME CacheSane PROVE CacheSpec => []BoundedStaleness
<1>1. CacheInv => BoundedStaleness
  <2> SUFFICES ASSUME CacheInv, NEW p \in Procs, Fresh(p)
               PROVE  since[cache[p].val] <= MaxStale
    BY DEF BoundedStaleness
  <2>1. since[cache[p].val] <= MaxLoad + cache[p].age
    BY DEF CacheInv, Bounded
  <2>2. cache[p].val \in Version /\ cache[p].age \in 0 .. CacheTTL
    BY Fields DEF CacheInv, Fresh
  <2>3. since[cache[p].val] \in 0 .. MaxStale + 1
    BY <2>2 DEF CacheInv, SinceOK
  <2>4. CacheTTL \in Nat /\ MaxLoad \in Nat /\ MaxStale \in Nat /\ MaxStale = CacheTTL + MaxLoad
    BY Consts
  <2>5. since[cache[p].val] \in Int /\ cache[p].age <= CacheTTL /\ cache[p].age \in Int
    BY <2>2, <2>3, <2>4
  <2> QED BY <2>1, <2>4, <2>5
<1> QED BY <1>1, CacheInductive, PTL

-----------------------------------------------------------------------------
(* The snapshots of the runtime overrides *)

\* The current version was not superseded yet, nor any later one.
Unborn == \A v \in Settings!Version : v >= rows => superseded[v] = 0

\* What a refresh has read is no older than the refresh.
Reading ==
    \A p \in Procs, t \in Settings!Tasks :
        refresh[p][t].on =>
            /\ superseded[refresh[p][t].val] + refresh[p][t].left <= MaxRefresh
            /\ t = "loop" => sleep[p] = 0

\* The ticks until the loop replaces the snapshot, and the age it has then.
Remaining(p) == IF refresh[p]["loop"].on THEN refresh[p]["loop"].left ELSE sleep[p] + MaxRefresh
Timely ==
    \A p \in Procs :
        /\ failed[p] <= mishaps
        /\ snapshot[p] # None => superseded[snapshot[p]] + Remaining(p) <= (1 + failed[p]) * Settings!Bound

SInv == Settings!TypeOK /\ Unborn /\ Reading /\ Timely

\* The shape of the state.
LEMMA Shape ==
    ASSUME Settings!Sane, Settings!TypeOK
    PROVE  /\ Interval \in Nat /\ MaxRefresh \in Nat /\ MaxOverrides \in Nat /\ MaxMishaps \in Nat
           /\ Settings!Bound \in Nat /\ Settings!Bound = Interval + 2 * MaxRefresh /\ None \notin Settings!Version
           /\ rows \in Settings!Version /\ rows \in Nat /\ rows <= MaxOverrides
           /\ mishaps \in Nat
           /\ \A v \in Settings!Version : v \in Nat /\ superseded[v] \in Nat
           /\ \A p \in Procs :
                 /\ sleep[p] \in Nat /\ sleep[p] <= Interval /\ failed[p] \in Nat
                 /\ refresh[p] \in [Settings!Tasks -> Settings!Refresh]
                 /\ snapshot[p] \in Settings!Version \cup {None}
                 /\ \A t \in Settings!Tasks : /\ refresh[p][t] \in Settings!Refresh
                                     /\ refresh[p][t].on \in BOOLEAN /\ refresh[p][t].val \in Settings!Version
                                     /\ refresh[p][t].left \in Nat /\ refresh[p][t].left <= MaxRefresh
<1>1. Interval \in Nat /\ MaxRefresh \in Nat /\ MaxOverrides \in Nat /\ MaxMishaps \in Nat
  BY DEF Settings!Sane
<1>2. Settings!Bound \in Nat /\ Settings!Bound = Interval + 2 * MaxRefresh
  BY <1>1 DEF Settings!Bound
<1>3. None \notin Settings!Version
  BY <1>1 DEF Settings!Sane, Settings!Version
<1>4. rows \in Settings!Version /\ rows \in Nat /\ rows <= MaxOverrides /\ mishaps \in Nat
  BY <1>1 DEF Settings!TypeOK, Settings!Version
<1>5. \A v \in Settings!Version : v \in Nat /\ superseded[v] \in Nat
  BY <1>1 DEF Settings!TypeOK, Settings!Version
<1>6. ASSUME NEW p \in Procs
      PROVE  /\ sleep[p] \in Nat /\ sleep[p] <= Interval /\ failed[p] \in Nat
             /\ refresh[p] \in [Settings!Tasks -> Settings!Refresh] /\ snapshot[p] \in Settings!Version \cup {None}
  BY <1>1, <1>6 DEF Settings!TypeOK
<1>7. ASSUME NEW p \in Procs, NEW t \in Settings!Tasks
      PROVE  /\ refresh[p][t] \in Settings!Refresh
             /\ refresh[p][t].on \in BOOLEAN /\ refresh[p][t].val \in Settings!Version
             /\ refresh[p][t].left \in Nat /\ refresh[p][t].left <= MaxRefresh
  BY <1>1, <1>6 DEF Settings!Refresh
<1> QED BY <1>1, <1>2, <1>3, <1>4, <1>5, <1>6, <1>7

\* One more failed turn costs the bound once more.
LEMMA Turns ==
    ASSUME NEW f \in Nat, NEW b \in Nat
    PROVE  (1 + f) * b \in Nat /\ (1 + (f + 1)) * b = (1 + f) * b + b /\ b <= (1 + f) * b /\ (1 + 0) * b = b
<1>1. (1 + f) * b = b + f * b /\ (1 + (f + 1)) * b = b + (f * b + b)
  OBVIOUS
<1>2. f * b \in Nat
  OBVIOUS
<1> QED BY <1>1, <1>2

\* No refresh is a refresh that is off.
LEMMA Off == ASSUME Settings!Sane PROVE Settings!NoRefresh \in Settings!Refresh /\ Settings!NoRefresh.on = FALSE
<1>1. 0 \in Settings!Version /\ 0 \in 0 .. MaxRefresh
  BY DEF Settings!Sane, Settings!Version
<1> QED BY <1>1 DEF Settings!NoRefresh, Settings!Refresh

\* A step that leaves the ages alone: it is enough to look at the process it is about.
LEMMA OneProcess ==
    ASSUME Settings!Sane, SInv, NEW p \in Procs, UNCHANGED <<rows, superseded>>,
           \A q \in Procs : q # p => /\ refresh'[q] = refresh[q] /\ sleep'[q] = sleep[q]
                                     /\ snapshot'[q] = snapshot[q] /\ failed'[q] = failed[q],
           mishaps <= mishaps', mishaps' \in Nat,
           \A t \in Settings!Tasks : refresh'[p][t].on =>
               /\ superseded[refresh'[p][t].val] + refresh'[p][t].left <= MaxRefresh
               /\ t = "loop" => sleep'[p] = 0,
           failed'[p] <= mishaps',
           snapshot'[p] # None => superseded[snapshot'[p]] + Remaining(p)' <= (1 + failed'[p]) * Settings!Bound
    PROVE  Unborn' /\ Reading' /\ Timely'
<1>1. Unborn'
  BY DEF SInv, Unborn
<1>2. Reading'
  BY DEF SInv, Reading
<1>3. ASSUME NEW q \in Procs, q # p
      PROVE  /\ failed'[q] <= mishaps'
             /\ snapshot'[q] # None => superseded[snapshot'[q]] + Remaining(q)' <= (1 + failed'[q]) * Settings!Bound
  <2>1. Remaining(q)' = Remaining(q)
    BY <1>3 DEF Remaining
  <2>2. failed[q] \in Nat /\ mishaps \in Nat /\ failed[q] <= mishaps
    BY Shape DEF SInv, Timely
  <2>3. snapshot[q] # None => superseded[snapshot[q]] + Remaining(q) <= (1 + failed[q]) * Settings!Bound
    BY DEF SInv, Timely
  <2>4. failed'[q] = failed[q] /\ snapshot'[q] = snapshot[q]
    BY <1>3
  <2>5. failed'[q] <= mishaps'
    BY <2>2, <2>4
  <2> QED BY <2>1, <2>3, <2>4, <2>5
<1>4. Timely'
  BY <1>3 DEF Timely
<1> QED BY <1>1, <1>2, <1>4

LEMMA SettingsStart == ASSUME Settings!Sane PROVE Settings!Init => SInv
<1> SUFFICES ASSUME Settings!Init PROVE SInv
  OBVIOUS
<1>1. Interval \in Nat /\ MaxRefresh \in Nat /\ MaxOverrides \in Nat /\ MaxMishaps \in Nat /\ 0 \in Settings!Version
  BY DEF Settings!Sane, Settings!Version
<1>2. Settings!MaxStale \in Nat /\ Settings!Bound = Interval + 2 * MaxRefresh
  BY <1>1 DEF Settings!MaxStale, Settings!Bound
<1>3. Settings!TypeOK
  BY <1>1, <1>2, Off DEF Settings!Init, Settings!TypeOK, Settings!Version
<1>4. Unborn /\ Reading
  BY Off DEF Settings!Init, Unborn, Reading
<1>5. ASSUME NEW p \in Procs PROVE failed[p] <= mishaps /\ superseded[snapshot[p]] + Remaining(p) <= (1 + failed[p]) * Settings!Bound
  <2>1. Remaining(p) = Interval + MaxRefresh
    BY Off DEF Settings!Init, Remaining, Settings!Tasks
  <2> QED BY <1>1, <1>2, <2>1 DEF Settings!Init
<1> QED BY <1>3, <1>4, <1>5 DEF SInv, Timely

\* A task reads the table.
LEMMA ReadKeeps ==
    ASSUME Settings!Sane, SInv, NEW p \in Procs, NEW t \in Settings!Tasks, Settings!Read(p, t),
           t = "loop" => sleep[p] = 0,
           UNCHANGED <<rows, snapshot, sleep, superseded, failed, mishaps>>
    PROVE  refresh' \in [Procs -> [Settings!Tasks -> Settings!Refresh]] /\ Unborn' /\ Reading' /\ Timely'
<1> DEFINE x == [on |-> TRUE, val |-> rows, left |-> MaxRefresh]
<1>s. Settings!TypeOK
  BY DEF SInv
<1>0. refresh \in [Procs -> [Settings!Tasks -> Settings!Refresh]]
  BY DEF SInv, Settings!TypeOK
<1>1. x \in Settings!Refresh /\ x.on = TRUE /\ x.val = rows /\ x.left = MaxRefresh
  BY <1>s, Shape DEF Settings!Refresh
<1>2. refresh' = [refresh EXCEPT ![p][t] = x] /\ ~refresh[p][t].on
  BY DEF Settings!Read
<1> HIDE DEF x
<1>3. /\ refresh' \in [Procs -> [Settings!Tasks -> Settings!Refresh]]
      /\ \A q \in Procs : q # p => refresh'[q] = refresh[q]
      /\ refresh'[p][t] = x /\ \A u \in Settings!Tasks : u # t => refresh'[p][u] = refresh[p][u]
  BY <1>0, <1>1, <1>2
<1>4. superseded[rows] = 0
  BY <1>s, Shape DEF SInv, Unborn
<1>5. \A u \in Settings!Tasks : refresh'[p][u].on =>
         /\ superseded[refresh'[p][u].val] + refresh'[p][u].left <= MaxRefresh
         /\ u = "loop" => sleep'[p] = 0
  BY <1>s, Shape, <1>1, <1>3, <1>4 DEF SInv, Reading
<1>6. Remaining(p)' = Remaining(p)
  <2>1. CASE t = "loop"
    BY <1>s, Shape, <1>1, <1>2, <1>3, <2>1 DEF Remaining
  <2>2. CASE t # "loop"
    BY <1>3, <2>2 DEF Remaining, Settings!Tasks
  <2> QED BY <2>1, <2>2
<1>7. failed[p] <= mishaps /\ (snapshot[p] # None => superseded[snapshot[p]] + Remaining(p) <= (1 + failed[p]) * Settings!Bound)
  BY DEF SInv, Timely
<1>8. Unborn' /\ Reading' /\ Timely'
  BY <1>s, Shape, <1>3, <1>5, <1>6, <1>7, OneProcess
<1> QED BY <1>3, <1>8

LEMMA ReadersKeep ==
    ASSUME Settings!Sane, SInv, NEW p \in Procs, Settings!Wake(p) \/ Settings!Hear(p) \/ Settings!RefreshAfterEdit(p)
    PROVE  SInv'
<1>1. CASE Settings!Wake(p)
  <2>1. Settings!Read(p, "loop") /\ sleep[p] = 0
        /\ UNCHANGED <<rows, snapshot, sleep, put, notices, subscribed, superseded, failed, mishaps>>
    BY <1>1 DEF Settings!Wake
  <2>2. refresh' \in [Procs -> [Settings!Tasks -> Settings!Refresh]] /\ Unborn' /\ Reading' /\ Timely'
    BY <2>1, ReadKeeps DEF Settings!Tasks
  <2> QED BY <2>1, <2>2 DEF SInv, Settings!TypeOK
<1>2. CASE Settings!Hear(p)
  <2>1. Settings!Read(p, "listener") /\ notices[p] > 0
        /\ UNCHANGED <<rows, snapshot, sleep, put, subscribed, superseded, failed, mishaps>>
    BY <1>2 DEF Settings!Hear
  <2>2. refresh' \in [Procs -> [Settings!Tasks -> Settings!Refresh]] /\ Unborn' /\ Reading' /\ Timely'
    BY <2>1, ReadKeeps DEF Settings!Tasks
  <2>3. notices' \in [Procs -> Nat]
    BY <1>2, <2>1 DEF Settings!Hear, SInv, Settings!TypeOK
  <2> QED BY <2>1, <2>2, <2>3 DEF SInv, Settings!TypeOK
<1>3. CASE Settings!RefreshAfterEdit(p)
  <2>1. Settings!Read(p, "put")
        /\ UNCHANGED <<rows, snapshot, sleep, put, notices, subscribed, superseded, failed, mishaps>>
    BY <1>3 DEF Settings!RefreshAfterEdit
  <2>2. refresh' \in [Procs -> [Settings!Tasks -> Settings!Refresh]] /\ Unborn' /\ Reading' /\ Timely'
    BY <2>1, ReadKeeps DEF Settings!Tasks
  <2> QED BY <2>1, <2>2 DEF SInv, Settings!TypeOK
<1> QED BY <1>1, <1>2, <1>3

\* What is left of the loop's turn.
LEMMA RemainingIs ==
    ASSUME Settings!Sane, Settings!TypeOK, NEW p \in Procs
    PROVE  Remaining(p) \in Nat /\ Remaining(p) <= Interval + MaxRefresh
<1>1. "loop" \in Settings!Tasks
  BY DEF Settings!Tasks
<1> QED BY <1>1, Shape DEF Remaining

\* What a task leaves that goes on after its refresh.
LEMMA ResumeDoes ==
    ASSUME Settings!Sane, SInv, NEW p \in Procs, NEW t \in Settings!Tasks, Settings!Resume(p, t), refresh[p][t].on
    PROVE  /\ refresh' \in [Procs -> [Settings!Tasks -> Settings!Refresh]] /\ sleep' \in [Procs -> 0 .. Interval]
           /\ put' \in [Procs -> {"idle", "committed", "publish"}]
           /\ \A q \in Procs : q # p => refresh'[q] = refresh[q] /\ sleep'[q] = sleep[q]
           /\ \A u \in Settings!Tasks : refresh'[p][u] = IF u = t THEN Settings!NoRefresh ELSE refresh[p][u]
           /\ \A u \in Settings!Tasks : refresh'[p][u].on => u # t /\ refresh'[p][u] = refresh[p][u]
                                                    /\ (u = "loop" => sleep'[p] = sleep[p])
           /\ t = "loop" => Remaining(p)' = Interval + MaxRefresh
           /\ t # "loop" => Remaining(p)' = Remaining(p)
<1>0. refresh \in [Procs -> [Settings!Tasks -> Settings!Refresh]] /\ sleep \in [Procs -> 0 .. Interval]
      /\ put \in [Procs -> {"idle", "committed", "publish"}] /\ Interval \in Nat
  BY Shape DEF SInv, Settings!TypeOK
<1>1. refresh' = [refresh EXCEPT ![p][t] = Settings!NoRefresh]
  BY DEF Settings!Resume
<1>2. /\ refresh' \in [Procs -> [Settings!Tasks -> Settings!Refresh]] /\ \A q \in Procs : q # p => refresh'[q] = refresh[q]
      /\ \A u \in Settings!Tasks : refresh'[p][u] = IF u = t THEN Settings!NoRefresh ELSE refresh[p][u]
  BY <1>0, <1>1, Off
<1>3. /\ sleep' \in [Procs -> 0 .. Interval] /\ \A q \in Procs : q # p => sleep'[q] = sleep[q]
      /\ t = "loop" => sleep'[p] = Interval
      /\ t # "loop" => sleep' = sleep
  BY <1>0 DEF Settings!Resume
<1>4. put' \in [Procs -> {"idle", "committed", "publish"}]
  BY <1>0 DEF Settings!Resume
<1>5. "loop" \in Settings!Tasks
  BY DEF Settings!Tasks
<1>6. t = "loop" => Remaining(p)' = Interval + MaxRefresh
  BY <1>2, <1>3, <1>5, Off DEF Remaining
<1>7. t # "loop" => Remaining(p)' = Remaining(p)
  BY <1>2, <1>3, <1>5 DEF Remaining
<1>8. \A u \in Settings!Tasks : refresh'[p][u].on => u # t /\ refresh'[p][u] = refresh[p][u]
                                            /\ (u = "loop" => sleep'[p] = sleep[p])
  BY <1>2, <1>3, Off
<1> QED BY <1>2, <1>3, <1>4, <1>6, <1>7, <1>8

LEMMA SwapKeeps == ASSUME Settings!Sane, SInv, NEW p \in Procs, NEW t \in Settings!Tasks, Settings!Swap(p, t) PROVE SInv'
<1> DEFINE v == refresh[p][t].val
<1>t. Settings!TypeOK
  BY DEF SInv
<1>1. /\ refresh[p][t].on /\ Settings!Resume(p, t)
      /\ snapshot' = [snapshot EXCEPT ![p] = v]
      /\ failed' = [failed EXCEPT ![p] = IF t = "loop" THEN 0 ELSE @]
      /\ UNCHANGED <<rows, notices, subscribed, superseded, mishaps>>
  BY DEF Settings!Swap
<1>2. /\ refresh' \in [Procs -> [Settings!Tasks -> Settings!Refresh]] /\ sleep' \in [Procs -> 0 .. Interval]
      /\ put' \in [Procs -> {"idle", "committed", "publish"}]
      /\ \A q \in Procs : q # p => refresh'[q] = refresh[q] /\ sleep'[q] = sleep[q]
      /\ \A u \in Settings!Tasks : refresh'[p][u].on => u # t /\ refresh'[p][u] = refresh[p][u]
                                               /\ (u = "loop" => sleep'[p] = sleep[p])
      /\ t = "loop" => Remaining(p)' = Interval + MaxRefresh
      /\ t # "loop" => Remaining(p)' = Remaining(p)
  BY <1>1, ResumeDoes
<1>3. v \in Settings!Version /\ superseded[v] \in Nat /\ superseded[v] <= MaxRefresh
  BY <1>t, <1>1, Shape DEF SInv, Reading
<1> HIDE DEF v
<1>4. snapshot' \in [Procs -> Settings!Version \cup {None}] /\ snapshot'[p] = v
      /\ \A q \in Procs : q # p => snapshot'[q] = snapshot[q]
  BY <1>1, <1>3, <1>t DEF Settings!TypeOK
<1>5. /\ failed' \in [Procs -> 0 .. MaxMishaps] /\ failed'[p] \in Nat /\ failed'[p] <= mishaps
      /\ \A q \in Procs : q # p => failed'[q] = failed[q]
  <2>1. failed[p] \in Nat /\ failed[p] <= mishaps /\ mishaps \in Nat /\ MaxMishaps \in Nat
    BY <1>t, Shape DEF SInv, Timely
  <2> QED BY <1>1, <1>t, <2>1 DEF Settings!TypeOK
<1>6. superseded[v] + Remaining(p)' <= Settings!Bound
  <2>1. Remaining(p) \in Nat /\ Remaining(p) <= Interval + MaxRefresh
    BY <1>t, RemainingIs
  <2>2. Remaining(p)' \in Nat /\ Remaining(p)' <= Interval + MaxRefresh
    BY <1>t, <1>2, <2>1, Shape
  <2> QED BY <1>t, <1>3, <2>2, Shape
<1>7. superseded[v] + Remaining(p)' <= (1 + failed'[p]) * Settings!Bound
  <2>1. Settings!Bound \in Nat
    BY <1>t, Shape
  <2>2. Settings!Bound <= (1 + failed'[p]) * Settings!Bound /\ (1 + failed'[p]) * Settings!Bound \in Nat
    BY <1>5, <2>1, Turns
  <2>3. Remaining(p)' \in Nat
    BY <1>t, <1>2, RemainingIs, Shape
  <2> DEFINE m == (1 + failed'[p]) * Settings!Bound
  <2>4. m \in Nat /\ Settings!Bound <= m
    BY <2>2
  <2> HIDE DEF m
  <2>5. superseded[v] + Remaining(p)' <= m
    BY <1>3, <1>6, <2>1, <2>3, <2>4
  <2> QED BY <2>5 DEF m
<1>8. \A u \in Settings!Tasks : refresh'[p][u].on =>
         /\ superseded[refresh'[p][u].val] + refresh'[p][u].left <= MaxRefresh
         /\ u = "loop" => sleep'[p] = 0
  BY <1>2 DEF SInv, Reading
<1>9. Unborn' /\ Reading' /\ Timely'
  <2>1. mishaps' = mishaps /\ mishaps \in Nat
    BY <1>1, <1>t, Shape
  <2> QED BY <1>1, <1>2, <1>4, <1>5, <1>7, <1>8, <2>1, OneProcess
<1> QED BY <1>1, <1>2, <1>4, <1>5, <1>9 DEF SInv, Settings!TypeOK

LEMMA RefreshFailsKeeps == ASSUME Settings!Sane, SInv, NEW p \in Procs, NEW t \in Settings!Tasks, Settings!RefreshFails(p, t) PROVE SInv'
<1>t. Settings!TypeOK
  BY DEF SInv
<1>1. /\ refresh[p][t].on /\ Settings!Resume(p, t)
      /\ failed' = [failed EXCEPT ![p] = IF t = "loop" THEN @ + 1 ELSE @]
      /\ mishaps < MaxMishaps /\ mishaps' = mishaps + 1
      /\ UNCHANGED <<rows, snapshot, notices, subscribed, superseded>>
  BY DEF Settings!RefreshFails, Settings!Mishap
<1>2. /\ refresh' \in [Procs -> [Settings!Tasks -> Settings!Refresh]] /\ sleep' \in [Procs -> 0 .. Interval]
      /\ put' \in [Procs -> {"idle", "committed", "publish"}]
      /\ \A q \in Procs : q # p => refresh'[q] = refresh[q] /\ sleep'[q] = sleep[q]
      /\ \A u \in Settings!Tasks : refresh'[p][u].on => u # t /\ refresh'[p][u] = refresh[p][u]
                                               /\ (u = "loop" => sleep'[p] = sleep[p])
      /\ t = "loop" => Remaining(p)' = Interval + MaxRefresh
      /\ t # "loop" => Remaining(p)' = Remaining(p)
  BY <1>1, ResumeDoes
<1>3. failed[p] \in Nat /\ failed[p] <= mishaps /\ mishaps \in Nat /\ MaxMishaps \in Nat /\ Settings!Bound \in Nat
      /\ Interval \in Nat /\ MaxRefresh \in Nat /\ Settings!Bound = Interval + 2 * MaxRefresh
  BY <1>t, Shape DEF SInv, Timely
<1>4. /\ failed' \in [Procs -> 0 .. MaxMishaps] /\ failed'[p] <= mishaps'
      /\ failed'[p] = (IF t = "loop" THEN failed[p] + 1 ELSE failed[p])
      /\ \A q \in Procs : q # p => failed'[q] = failed[q]
      /\ mishaps' \in 0 .. MaxMishaps
  BY <1>1, <1>t, <1>3 DEF Settings!TypeOK
<1>5. ASSUME snapshot[p] # None PROVE superseded[snapshot[p]] + Remaining(p)' <= (1 + failed'[p]) * Settings!Bound
  <2>1. superseded[snapshot[p]] + Remaining(p) <= (1 + failed[p]) * Settings!Bound
    BY <1>5 DEF SInv, Timely
  <2>2. superseded[snapshot[p]] \in Nat /\ Remaining(p) \in Nat
    BY <1>t, <1>5, RemainingIs, Shape
  <2>3. CASE t = "loop"
    <3> DEFINE m == (1 + failed[p]) * Settings!Bound
    <3>1. (1 + failed'[p]) * Settings!Bound = m + Settings!Bound /\ m \in Nat
      BY <1>3, <1>4, <2>3, Turns
    <3>2. superseded[snapshot[p]] + Remaining(p) <= m
      BY <2>1
    <3> HIDE DEF m
    <3>3. superseded[snapshot[p]] + Remaining(p)' <= m + Settings!Bound
      BY <1>2, <1>3, <2>2, <2>3, <3>1, <3>2
    <3> QED BY <3>1, <3>3
  <2>4. CASE t # "loop"
    BY <1>2, <1>4, <2>1, <2>4
  <2> QED BY <2>3, <2>4
<1>6. \A u \in Settings!Tasks : refresh'[p][u].on =>
         /\ superseded[refresh'[p][u].val] + refresh'[p][u].left <= MaxRefresh
         /\ u = "loop" => sleep'[p] = 0
  BY <1>2 DEF SInv, Reading
<1>7. Unborn' /\ Reading' /\ Timely'
  <2>1. mishaps <= mishaps' /\ mishaps' \in Nat
    BY <1>1, <1>3
  <2> QED BY <1>1, <1>2, <1>4, <1>5, <1>6, <2>1, OneProcess
<1> QED BY <1>1, <1>2, <1>4, <1>7, <1>t DEF SInv, Settings!TypeOK

\* Steps that leave snapshots, refreshes and the loop alone.
LEMMA QuietStep ==
    ASSUME Settings!Sane, SInv, UNCHANGED <<rows, snapshot, refresh, sleep, superseded, failed>>,
           mishaps' \in Nat, mishaps <= mishaps'
    PROVE  Unborn' /\ Reading' /\ Timely'
<1>1. Unborn' /\ Reading'
  BY DEF SInv, Unborn, Reading
<1>2. \A p \in Procs : failed[p] <= mishaps'
  BY Shape DEF SInv, Timely
<1> QED BY <1>1, <1>2 DEF SInv, Timely, Remaining

LEMMA EditKeeps == ASSUME Settings!Sane, SInv, NEW p \in Procs, Settings!Edit(p) PROVE SInv'
<1>t. Settings!TypeOK
  BY DEF SInv
<1>1. rows < MaxOverrides /\ rows' = rows + 1 /\ put' = [put EXCEPT ![p] = "committed"]
      /\ UNCHANGED <<snapshot, refresh, sleep, notices, subscribed, superseded, failed, mishaps>>
  BY DEF Settings!Edit
<1>2. rows' \in Settings!Version
  BY <1>t, <1>1, Shape DEF Settings!Version
<1>3. put' \in [Procs -> {"idle", "committed", "publish"}]
  BY <1>t, <1>1 DEF Settings!TypeOK
<1>4. Unborn'
  <2> SUFFICES ASSUME NEW v \in Settings!Version, v >= rows + 1 PROVE superseded[v] = 0
    BY <1>1 DEF Unborn
  <2>1. v >= rows
    BY <1>t, Shape
  <2> QED BY <2>1 DEF SInv, Unborn
<1>5. Reading' /\ Timely'
  BY <1>1 DEF SInv, Reading, Timely, Remaining
<1> QED BY <1>1, <1>2, <1>3, <1>4, <1>5, <1>t DEF SInv, Settings!TypeOK

LEMMA PublishKeeps == ASSUME Settings!Sane, SInv, NEW p \in Procs, Settings!PublishEdit(p) PROVE SInv'
<1>t. Settings!TypeOK
  BY DEF SInv
<1>1. put' = [put EXCEPT ![p] = "idle"] /\ UNCHANGED <<rows, snapshot, refresh, sleep, subscribed, superseded, failed>>
  BY DEF Settings!PublishEdit
<1>2. mishaps' \in 0 .. MaxMishaps /\ mishaps' \in Nat /\ mishaps <= mishaps'
  BY <1>t, Shape DEF Settings!PublishEdit, Settings!Mishap, Settings!TypeOK
<1>3. notices' \in [Procs -> Nat]
  BY <1>t DEF Settings!PublishEdit, Settings!TypeOK
<1>4. put' \in [Procs -> {"idle", "committed", "publish"}]
  BY <1>t, <1>1 DEF Settings!TypeOK
<1>5. Unborn' /\ Reading' /\ Timely'
  BY <1>1, <1>2, QuietStep
<1> QED BY <1>1, <1>2, <1>3, <1>4, <1>5, <1>t DEF SInv, Settings!TypeOK

LEMMA SubscriptionKeeps ==
    ASSUME Settings!Sane, SInv, NEW p \in Procs, Settings!Disconnect(p) \/ Settings!Reconnect(p)
    PROVE  SInv'
<1>t. Settings!TypeOK
  BY DEF SInv
<1>1. UNCHANGED <<rows, snapshot, refresh, sleep, put, superseded, failed>>
  BY DEF Settings!Disconnect, Settings!Reconnect
<1>2. mishaps' \in 0 .. MaxMishaps /\ mishaps' \in Nat /\ mishaps <= mishaps'
  BY <1>t, Shape DEF Settings!Disconnect, Settings!Reconnect, Settings!Mishap, Settings!TypeOK
<1>3. notices' \in [Procs -> Nat] /\ subscribed' \in [Procs -> BOOLEAN]
  <2>0. notices \in [Procs -> Nat] /\ subscribed \in [Procs -> BOOLEAN] /\ 0 \in Nat
    BY <1>t DEF Settings!TypeOK
  <2>1. CASE Settings!Disconnect(p)
    <3>1. notices' = [notices EXCEPT ![p] = 0] /\ subscribed' = [subscribed EXCEPT ![p] = FALSE]
      BY <2>1 DEF Settings!Disconnect
    <3> QED BY <2>0, <3>1
  <2>2. CASE Settings!Reconnect(p)
    <3>1. notices' = notices /\ subscribed' = [subscribed EXCEPT ![p] = TRUE]
      BY <2>2 DEF Settings!Reconnect
    <3> QED BY <2>0, <3>1
  <2> QED BY <2>1, <2>2
<1>5. Unborn' /\ Reading' /\ Timely'
  BY <1>1, <1>2, QuietStep
<1> QED BY <1>1, <1>2, <1>3, <1>5, <1>t DEF SInv, Settings!TypeOK

LEMMA RestartKeeps == ASSUME Settings!Sane, SInv, NEW p \in Procs, Settings!Restart(p) PROVE SInv'
<1>t. Settings!TypeOK
  BY DEF SInv
<1> DEFINE none == [t \in Settings!Tasks |-> Settings!NoRefresh]
<1>1. /\ snapshot' = [snapshot EXCEPT ![p] = None] /\ refresh' = [refresh EXCEPT ![p] = none]
      /\ sleep' = [sleep EXCEPT ![p] = 0] /\ put' = [put EXCEPT ![p] = "idle"]
      /\ notices' = [notices EXCEPT ![p] = 0] /\ subscribed' = [subscribed EXCEPT ![p] = TRUE]
      /\ UNCHANGED <<rows, superseded, failed>>
  BY DEF Settings!Restart
<1>2. mishaps' \in 0 .. MaxMishaps /\ mishaps' \in Nat /\ mishaps <= mishaps'
  BY <1>t, Shape DEF Settings!Restart, Settings!Mishap, Settings!TypeOK
<1>3. none \in [Settings!Tasks -> Settings!Refresh] /\ \A t \in Settings!Tasks : none[t].on = FALSE
  BY Off
<1> HIDE DEF none
<1>4. /\ refresh' \in [Procs -> [Settings!Tasks -> Settings!Refresh]] /\ refresh'[p] = none
      /\ snapshot' \in [Procs -> Settings!Version \cup {None}] /\ snapshot'[p] = None
      /\ sleep' \in [Procs -> 0 .. Interval]
      /\ \A q \in Procs : q # p => /\ refresh'[q] = refresh[q] /\ sleep'[q] = sleep[q]
                                   /\ snapshot'[q] = snapshot[q] /\ failed'[q] = failed[q]
  BY <1>t, <1>1, <1>3, Shape DEF Settings!TypeOK
<1>5. put' \in [Procs -> {"idle", "committed", "publish"}] /\ notices' \in [Procs -> Nat]
      /\ subscribed' \in [Procs -> BOOLEAN]
  BY <1>t, <1>1 DEF Settings!TypeOK
<1>6. failed'[p] <= mishaps'
  BY <1>t, <1>1, <1>2, Shape DEF SInv, Timely
<1>7. Unborn' /\ Reading' /\ Timely'
  BY <1>1, <1>2, <1>3, <1>4, <1>6, OneProcess
<1> QED BY <1>1, <1>2, <1>4, <1>5, <1>7, <1>t DEF SInv, Settings!TypeOK

LEMMA TickKeeps == ASSUME Settings!Sane, SInv, Settings!Tick PROVE SInv'
<1>t. Settings!TypeOK
  BY DEF SInv
<1>1. /\ \A p \in Procs : /\ \A t \in Settings!Tasks : refresh[p][t].on => refresh[p][t].left > 0
                          /\ sleep[p] > 0 \/ refresh[p]["loop"].on
      /\ refresh' = [p \in Procs |-> [t \in Settings!Tasks |->
                       IF refresh[p][t].on THEN [refresh[p][t] EXCEPT !.left = @ - 1] ELSE Settings!NoRefresh]]
      /\ sleep' = [p \in Procs |-> IF sleep[p] > 0 THEN sleep[p] - 1 ELSE 0]
      /\ superseded' = [v \in Settings!Version |-> IF v < rows /\ superseded[v] <= Settings!MaxStale THEN superseded[v] + 1 ELSE superseded[v]]
      /\ UNCHANGED <<rows, snapshot, put, notices, subscribed, failed, mishaps>>
  BY DEF Settings!Tick
<1>2. ASSUME NEW p \in Procs, NEW t \in Settings!Tasks
      PROVE  /\ refresh'[p][t] \in Settings!Refresh /\ refresh'[p][t].on = refresh[p][t].on
             /\ refresh[p][t].on => /\ refresh'[p][t].val = refresh[p][t].val
                                    /\ refresh'[p][t].left = refresh[p][t].left - 1
                                    /\ refresh[p][t].left > 0
  <2> DEFINE less == refresh[p][t].left - 1
             x == [refresh[p][t] EXCEPT !.left = less]
  <2>1. refresh'[p][t] = IF refresh[p][t].on THEN x ELSE Settings!NoRefresh
    BY <1>1
  <2>2. refresh[p][t] \in Settings!Refresh /\ refresh[p][t].on \in BOOLEAN
    BY <1>t, Shape
  <2>3. refresh[p][t].on => less \in 0 .. MaxRefresh /\ refresh[p][t].left > 0
    BY <1>1, <1>t, Shape
  <2>4. CASE refresh[p][t].on
    <3>1. less \in 0 .. MaxRefresh
      BY <2>3, <2>4
    <3> HIDE DEF less
    <3>2. x \in Settings!Refresh /\ x.on = refresh[p][t].on /\ x.val = refresh[p][t].val /\ x.left = less
      BY <2>2, <3>1, Zenon DEF Settings!Refresh
    <3>3. refresh'[p][t] = x
      BY <2>1, <2>4
    <3> HIDE DEF x
    <3> QED BY <2>3, <2>4, <3>2, <3>3 DEF less
  <2>5. CASE ~refresh[p][t].on
    BY <2>1, <2>2, <2>5, Off
  <2> QED BY <2>4, <2>5
<1>3. refresh' \in [Procs -> [Settings!Tasks -> Settings!Refresh]]
  <2>1. \A p \in Procs : refresh'[p] = [t \in Settings!Tasks |-> refresh'[p][t]]
    BY <1>1
  <2>2. refresh' = [p \in Procs |-> refresh'[p]]
    BY <1>1
  <2>3. \A p \in Procs : refresh'[p] \in [Settings!Tasks -> Settings!Refresh]
    BY <1>2, <2>1
  <2> QED BY <2>2, <2>3
<1>4. sleep' \in [Procs -> 0 .. Interval]
  BY <1>1, <1>t, Shape
<1>5. Settings!MaxStale \in Nat
  BY <1>t, Shape DEF Settings!MaxStale
<1>6. superseded' \in [Settings!Version -> 0 .. Settings!MaxStale + 1] /\ \A v \in Settings!Version : superseded'[v] <= superseded[v] + 1 /\ superseded'[v] \in Nat
  BY <1>1, <1>5, <1>t, Shape DEF Settings!TypeOK
<1>7. Settings!TypeOK'
  BY <1>1, <1>3, <1>4, <1>6, <1>t DEF Settings!TypeOK
<1>8. Unborn'
  BY <1>1, <1>t, Shape DEF SInv, Unborn
<1>9. Reading'
  <2> SUFFICES ASSUME NEW p \in Procs, NEW t \in Settings!Tasks, refresh'[p][t].on
               PROVE  /\ superseded'[refresh'[p][t].val] + refresh'[p][t].left <= MaxRefresh
                      /\ t = "loop" => sleep'[p] = 0
    BY DEF Reading
  <2>1. /\ refresh[p][t].on /\ refresh'[p][t].val = refresh[p][t].val
        /\ refresh'[p][t].left = refresh[p][t].left - 1 /\ refresh[p][t].left > 0
    BY <1>2
  <2>2. superseded[refresh[p][t].val] + refresh[p][t].left <= MaxRefresh /\ (t = "loop" => sleep[p] = 0)
    BY <2>1 DEF SInv, Reading
  <2>3. refresh[p][t].val \in Settings!Version /\ refresh[p][t].left \in Nat /\ MaxRefresh \in Nat
    BY <1>t, Shape
  <2>4. superseded'[refresh[p][t].val] <= superseded[refresh[p][t].val] + 1 /\ superseded[refresh[p][t].val] \in Nat
        /\ superseded'[refresh[p][t].val] \in Nat
    BY <1>6, <1>t, <2>3, Shape
  <2>5. t = "loop" => sleep'[p] = 0
    BY <1>1, <2>2
  <2> QED BY <2>1, <2>2, <2>3, <2>4, <2>5
<1>10. Timely'
  <2> SUFFICES ASSUME NEW p \in Procs
               PROVE  /\ failed[p] <= mishaps
                      /\ snapshot[p] # None => superseded'[snapshot[p]] + Remaining(p)' <= (1 + failed[p]) * Settings!Bound
    BY <1>1 DEF Timely
  <2>1. "loop" \in Settings!Tasks /\ refresh[p]["loop"] \in Settings!Refresh
    BY <1>t, Shape DEF Settings!Tasks
  <2>2. Remaining(p)' = Remaining(p) - 1
    <3>1. CASE refresh[p]["loop"].on
      BY <1>2, <2>1, <3>1 DEF Remaining
    <3>2. CASE ~refresh[p]["loop"].on
      <4>1. ~refresh'[p]["loop"].on
        BY <1>2, <2>1, <3>2
      <4>2. sleep[p] > 0 /\ sleep'[p] = sleep[p] - 1
        BY <1>1, <3>2
      <4> QED BY <1>t, <3>2, <4>1, <4>2, Shape DEF Remaining
    <3> QED BY <3>1, <3>2
  <2>3. failed[p] <= mishaps
    BY DEF SInv, Timely
  <2>4. ASSUME snapshot[p] # None PROVE superseded'[snapshot[p]] + Remaining(p)' <= (1 + failed[p]) * Settings!Bound
    <3> DEFINE m == (1 + failed[p]) * Settings!Bound
    <3>1. m \in Nat
      BY <1>t, Shape, Turns
    <3>2. superseded[snapshot[p]] + Remaining(p) <= m
      BY <2>4 DEF SInv, Timely
    <3>3. snapshot[p] \in Settings!Version
      BY <1>t, <2>4, Shape
    <3>4. superseded'[snapshot[p]] <= superseded[snapshot[p]] + 1 /\ superseded[snapshot[p]] \in Nat /\ superseded'[snapshot[p]] \in Nat
          /\ Remaining(p) \in Nat
      BY <1>6, <1>t, <3>3, RemainingIs, Shape
    <3> HIDE DEF m
    <3>5. superseded'[snapshot[p]] + Remaining(p)' <= m
      BY <2>2, <3>1, <3>2, <3>4
    <3> QED BY <3>5 DEF m
  <2> QED BY <2>3, <2>4
<1> QED BY <1>7, <1>8, <1>9, <1>10 DEF SInv

LEMMA SInvNext == ASSUME Settings!Sane, SInv, [Settings!Next]_(Settings!settingsVars) PROVE SInv'
<1>1. ASSUME NEW p \in Procs, Settings!Wake(p) \/ Settings!Hear(p) \/ Settings!Edit(p) \/ Settings!RefreshAfterEdit(p) \/ Settings!PublishEdit(p)
                              \/ Settings!Disconnect(p) \/ Settings!Reconnect(p) \/ Settings!Restart(p)
      PROVE  SInv'
  BY <1>1, ReadersKeep, EditKeeps, PublishKeeps, SubscriptionKeeps, RestartKeeps
<1>2. ASSUME NEW p \in Procs, NEW t \in Settings!Tasks, Settings!Swap(p, t) \/ Settings!RefreshFails(p, t) PROVE SInv'
  BY <1>2, SwapKeeps, RefreshFailsKeeps
<1>3. CASE Settings!Tick
  BY <1>3, TickKeeps
<1>4. CASE UNCHANGED Settings!settingsVars
  BY <1>4 DEF Settings!settingsVars, SInv, Settings!TypeOK, Unborn, Reading, Timely, Remaining
<1> QED BY <1>1, <1>2, <1>3, <1>4 DEF Settings!Next

\* No process works with overrides that were superseded longer ago than one interval and
\* two refreshes, and one such turn more for every turn of its loop that failed, also
\* when notices are lost and an older read is swapped in after a newer one
\* (_refresh_loop, refresh_runtime_settings).
THEOREM SnapshotsCatchUp == ASSUME Settings!Sane PROVE Settings!Spec => [](Settings!TypeOK /\ Settings!SnapshotCatchesUp)
<1>1. Settings!Init => SInv
  BY SettingsStart
<1>2. SInv /\ [Settings!Next]_(Settings!settingsVars) => SInv'
  BY SInvNext
<1>3. SInv => Settings!TypeOK /\ Settings!SnapshotCatchesUp
  <2> SUFFICES ASSUME SInv, NEW p \in Procs, snapshot[p] # None
               PROVE  superseded[snapshot[p]] <= (1 + failed[p]) * Settings!Bound
    BY DEF SInv, Settings!SnapshotCatchesUp
  <2>1. superseded[snapshot[p]] + Remaining(p) <= (1 + failed[p]) * Settings!Bound
    BY DEF SInv, Timely
  <2>2. superseded[snapshot[p]] \in Nat /\ Remaining(p) \in Nat
    BY RemainingIs, Shape DEF SInv
  <2> DEFINE m == (1 + failed[p]) * Settings!Bound
  <2>3. m \in Nat
    BY Shape, Turns DEF SInv
  <2>4. superseded[snapshot[p]] + Remaining(p) <= m
    BY <2>1
  <2> HIDE DEF m
  <2>5. superseded[snapshot[p]] <= m
    BY <2>2, <2>3, <2>4
  <2> QED BY <2>5 DEF m
<1> QED BY <1>1, <1>2, <1>3, PTL DEF Settings!Spec

-----------------------------------------------------------------------------
(* The proposals and those who decide on them *)

Status == {"none", "pending", "approved", "rejected", "expired", "failed"}
Answer == {"none", "processing", "completed", "rejected"}

-----------------------------------------------------------------------------
(* The operators *)

LEMMA IdleIs ==
    /\ Remedy!Idle \in Remedy!Decider
    /\ Remedy!Idle.pc = "idle" /\ Remedy!Idle.prop = None /\ Remedy!Idle.event = None /\ ~Remedy!Idle.locked
BY DEF Remedy!Idle, Remedy!Decider

LEMMA NewTTL == ASSUME Remedy!Sane PROVE ProposalTTL \in 0 .. ProposalTTL
<1>1. ProposalTTL \in Nat
  BY Zenon DEF Remedy!Sane
<1> QED BY <1>1

LEMMA RowIs ==
    ASSUME NEW r \in Remedy!Row
    PROVE  r.status \in Status /\ r.action \in Actions
BY DEF Remedy!Row, Status

LEMMA DeciderIs ==
    ASSUME NEW r \in Remedy!Decider
    PROVE  /\ r.pc \in {"idle", "run", "finish"} /\ r.prop \in Proposals \cup {None}
           /\ r.event \in Remedy!CardEvents \cup {None} /\ r.locked \in BOOLEAN
BY DEF Remedy!Decider

\* A row whose status changes.
LEMMA StatusChange ==
    ASSUME proposal \in [Proposals -> Remedy!Row], NEW p \in Proposals, NEW s \in Status,
           proposal' = [proposal EXCEPT ![p].status = s]
    PROVE  /\ proposal' \in [Proposals -> Remedy!Row]
           /\ proposal'[p].status = s /\ proposal'[p].action = proposal[p].action
           /\ \A q \in Proposals \ {p} : proposal'[q] = proposal[q]
<1> DEFINE u == [proposal[p] EXCEPT !.status = s]
<1>1. proposal[p] \in Remedy!Row
  OBVIOUS
<1>2. u \in Remedy!Row /\ u.status = s /\ u.action = proposal[p].action
  BY <1>1, Zenon DEF Remedy!Row, Status
<1>3. proposal' = [proposal EXCEPT ![p] = u]
  OBVIOUS
<1> HIDE DEF u
<1> QED BY <1>2, <1>3

\* A receipt that is written.
LEMMA ReceiptWritten ==
    ASSUME receipt \in [Remedy!CardEvents -> Answer], NEW v \in Remedy!CardEvents \cup {None}, NEW a \in Answer \ {"none"},
           receipt' = IF v = None THEN receipt ELSE [receipt EXCEPT ![v] = a]
    PROVE  /\ receipt' \in [Remedy!CardEvents -> Answer]
           /\ \A x \in Remedy!CardEvents : receipt'[x] # receipt[x] => receipt'[x] # "none"
           /\ v \in Remedy!CardEvents /\ v # None => receipt'[v] # "none"
OBVIOUS

\* A decider that moves on.
LEMMA DeciderMoves ==
    ASSUME decider \in [Deciders -> Remedy!Decider], NEW d \in Deciders, NEW u \in Remedy!Decider,
           decider' = [decider EXCEPT ![d] = u]
    PROVE  /\ decider' \in [Deciders -> Remedy!Decider]
           /\ decider'[d] = u
           /\ \A e \in Deciders \ {d} : decider'[e] = decider[e]
OBVIOUS

LEMMA RemedyFaultType ==
    ASSUME Remedy!Sane, deciderFaults \in 0 .. MaxDeaths, Remedy!Fault
    PROVE  deciderFaults' \in 0 .. MaxDeaths
<1>1. MaxDeaths \in Nat
  BY Zenon DEF Remedy!Sane
<1> QED BY <1>1 DEF Remedy!Fault

LEMMA TypeOKIs ==
    Remedy!TypeOK <=> /\ proposal \in [Proposals -> Remedy!Row]
               /\ proposer \in [Proposers -> Actions \cup {None}]
               /\ decider \in [Deciders -> Remedy!Decider]
               /\ receipt \in [Remedy!CardEvents -> Answer]
               /\ readback \in SUBSET Proposals
               /\ runs \in [Proposals -> Nat] /\ died \in [Proposals -> Nat]
               /\ decisions \in [Remedy!CardEvents -> Nat]
               /\ deciderFaults \in 0 .. MaxDeaths
BY DEF Remedy!TypeOK, Answer

-----------------------------------------------------------------------------
(* What each step does, to the fields the properties read *)

\* A proposer's steps make pending what was not there.
LEMMA ProposeDoes ==
    ASSUME Remedy!Sane, Remedy!TypeOK, NEW x \in Proposers, Remedy!Propose(x)
    PROVE  /\ Remedy!TypeOK'
           /\ \A p \in Proposals : \/ proposal'[p] = proposal[p]
                                   \/ proposal[p].status = "none" /\ proposal'[p].status = "pending"
<1> USE DEF Remedy!Propose
<1>t. proposal \in [Proposals -> Remedy!Row] /\ proposer \in [Proposers -> Actions \cup {None}]
  BY TypeOKIs
<1>1. proposer' \in [Proposers -> Actions \cup {None}]
  BY <1>t
<1>2. /\ proposal' \in [Proposals -> Remedy!Row]
      /\ \A p \in Proposals : \/ proposal'[p] = proposal[p]
                              \/ proposal[p].status = "none" /\ proposal'[p].status = "pending"
  <2> DEFINE u == [status |-> "pending", action |-> proposer[x], left |-> ProposalTTL, verify |-> ""]
  <2>1. CASE UNCHANGED proposal
    BY <2>1, <1>t
  <2>2. CASE \E p \in Remedy!Unused : proposal' = [proposal EXCEPT ![p] = u]
    <3>1. PICK p \in Remedy!Unused : proposal' = [proposal EXCEPT ![p] = u]
      BY <2>2
    <3>2. p \in Proposals /\ proposal[p].status = "none"
      BY DEF Remedy!Unused
    <3>3. proposer[x] \in Actions
      BY <1>t
    <3>4. u \in Remedy!Row /\ u.status = "pending"
      <4>1. ProposalTTL \in 0 .. ProposalTTL
        BY NewTTL
      <4>2. \A a \in Actions : [status |-> "pending", action |-> a, left |-> ProposalTTL, verify |-> ""] \in Remedy!Row
        BY <4>1 DEF Remedy!Row
      <4> QED BY <3>3, <4>2
    <3> HIDE DEF u
    <3>5. proposal' \in [Proposals -> Remedy!Row] /\ proposal'[p] = u
      BY <1>t, <3>1, <3>2, <3>4
    <3>6. \A q \in Proposals \ {p} : proposal'[q] = proposal[q]
      BY <1>t, <3>1
    <3> QED BY <3>2, <3>4, <3>5, <3>6
  <2>3. \/ UNCHANGED proposal
        \/ \E p \in Remedy!Unused : proposal' = [proposal EXCEPT ![p] = u]
    BY Zenon
  <2> QED BY <2>1, <2>2, <2>3
<1>3. UNCHANGED <<decider, receipt, readback, runs, died, decisions, deciderFaults>>
  OBVIOUS
<1>4. Remedy!TypeOK'
  BY <1>1, <1>2, <1>3 DEF Remedy!TypeOK
<1> QED BY <1>2, <1>4

\* The branches of a decision: the press is refused, the proposal is settled, or
\* the decider goes on to run the command with the row locked.
LEMMA DecideDoes ==
    ASSUME Remedy!Sane, Remedy!TypeOK, NEW d \in Deciders, NEW p \in Proposals, NEW approve \in BOOLEAN,
           NEW v \in Remedy!CardEvents \cup {None}, Remedy!Decide(d, p, approve, v)
    PROVE  /\ proposal' \in [Proposals -> Remedy!Row]
           /\ decider' \in [Deciders -> Remedy!Decider]
           /\ receipt' \in [Remedy!CardEvents -> Answer]
           /\ proposal[p].status # "none" /\ Remedy!LockFree(p, d) /\ decider[d].pc = "idle"
           /\ \A q \in Proposals : proposal'[q].action = proposal[q].action
           /\ \A x \in Remedy!CardEvents : receipt'[x] # receipt[x] => receipt'[x] # "none"
           /\ \A q \in Proposals : \/ proposal'[q].status = proposal[q].status
                                   \/ /\ q = p /\ proposal[q].status = "pending"
                                      /\ proposal'[q].status \in {"expired", "rejected"}
           /\ \/ decider' = decider /\ (v # None => receipt'[v] # "none")
              \/ /\ proposal' = proposal /\ receipt' = receipt /\ proposal[p].status = "pending"
                 /\ decider'[d].pc = "run" /\ decider'[d].prop = p /\ decider'[d].event = v
                 /\ decider'[d].locked
                 /\ \A e \in Deciders \ {d} : decider'[e] = decider[e]
<1>t. /\ proposal \in [Proposals -> Remedy!Row] /\ decider \in [Deciders -> Remedy!Decider]
      /\ receipt \in [Remedy!CardEvents -> Answer]
  BY TypeOKIs
<1>g. proposal[p].status # "none" /\ Remedy!LockFree(p, d) /\ decider[d].pc = "idle"
  BY DEF Remedy!Decide
<1>1. CASE /\ v # None /\ receipt' = [receipt EXCEPT ![v] = "rejected"]
           /\ UNCHANGED <<proposal, decider>>
  <2>1. v \in Remedy!CardEvents
    BY <1>1
  <2>2. /\ receipt' \in [Remedy!CardEvents -> Answer] /\ receipt'[v] = "rejected"
        /\ \A x \in Remedy!CardEvents : receipt'[x] # receipt[x] => receipt'[x] = "rejected"
    BY <1>1, <1>t, <2>1 DEF Answer
  <2> QED BY <1>1, <1>t, <1>g, <2>2
<1>2. ASSUME NEW s \in {"expired", "rejected"}, proposal[p].status = "pending", Remedy!Settle(d, p, v, s)
      PROVE  /\ proposal' \in [Proposals -> Remedy!Row]
             /\ decider' = decider
             /\ receipt' \in [Remedy!CardEvents -> Answer]
             /\ \A q \in Proposals : proposal'[q].action = proposal[q].action
             /\ \A x \in Remedy!CardEvents : receipt'[x] # receipt[x] => receipt'[x] # "none"
             /\ \A q \in Proposals : \/ proposal'[q].status = proposal[q].status
                                     \/ /\ q = p /\ proposal[q].status = "pending"
                                        /\ proposal'[q].status \in {"expired", "rejected"}
             /\ v # None => receipt'[v] # "none"
  <2>1. s \in Status /\ "completed" \in Answer \ {"none"}
    BY DEF Status, Answer
  <2>2. proposal' = [proposal EXCEPT ![p].status = s]
    BY <1>2 DEF Remedy!Settle
  <2>3. receipt' = IF v = None THEN receipt ELSE [receipt EXCEPT ![v] = "completed"]
    BY <1>2 DEF Remedy!Settle
  <2>4. /\ proposal' \in [Proposals -> Remedy!Row]
        /\ proposal'[p].status = s /\ proposal'[p].action = proposal[p].action
        /\ \A q \in Proposals \ {p} : proposal'[q] = proposal[q]
    BY <1>t, <2>1, <2>2, StatusChange
  <2>5. /\ receipt' \in [Remedy!CardEvents -> Answer]
        /\ \A x \in Remedy!CardEvents : receipt'[x] # receipt[x] => receipt'[x] # "none"
        /\ v \in Remedy!CardEvents /\ v # None => receipt'[v] # "none"
    BY <1>t, <2>1, <2>3, ReceiptWritten
  <2> QED BY <1>2, <2>4, <2>5 DEF Remedy!Settle
<1>3. CASE /\ proposal[p].status = "pending"
           /\ decider' = [decider EXCEPT ![d] = [Remedy!Idle EXCEPT !.pc = "run", !.prop = p, !.event = v, !.locked = TRUE]]
           /\ UNCHANGED <<proposal, receipt>>
  <2> DEFINE u == [Remedy!Idle EXCEPT !.pc = "run", !.prop = p, !.event = v, !.locked = TRUE]
  <2>1. u \in Remedy!Decider /\ u.pc = "run" /\ u.prop = p /\ u.event = v /\ u.locked
    BY DEF Remedy!Idle, Remedy!Decider
  <2>2. decider' = [decider EXCEPT ![d] = u]
    BY <1>3
  <2> HIDE DEF u
  <2>3. /\ decider' \in [Deciders -> Remedy!Decider] /\ decider'[d] = u
        /\ \A e \in Deciders \ {d} : decider'[e] = decider[e]
    BY <1>t, <2>1, <2>2, DeciderMoves
  <2> QED BY <1>3, <1>t, <1>g, <2>1, <2>3
<1>4. \/ /\ v # None /\ receipt' = [receipt EXCEPT ![v] = "rejected"]
         /\ UNCHANGED <<proposal, decider>>
      \/ proposal[p].status = "pending" /\ Remedy!Settle(d, p, v, "expired")
      \/ proposal[p].status = "pending" /\ Remedy!Settle(d, p, v, "rejected")
      \/ /\ proposal[p].status = "pending"
         /\ decider' = [decider EXCEPT ![d] = [Remedy!Idle EXCEPT !.pc = "run", !.prop = p, !.event = v, !.locked = TRUE]]
         /\ UNCHANGED <<proposal, receipt>>
  BY Zenon DEF Remedy!Decide
<1>5. CASE \E s \in {"expired", "rejected"} : proposal[p].status = "pending" /\ Remedy!Settle(d, p, v, s)
  BY <1>5, <1>2, <1>t, <1>g
<1> QED BY <1>1, <1>3, <1>4, <1>5

\* The command takes effect at most once, and gives up the lock only by a commit
\* that leaves the receipt of the press behind.
LEMMA RunDoes ==
    ASSUME Remedy!Sane, Remedy!TypeOK, NEW d \in Deciders, Remedy!Run(d), NEW p \in Proposals, decider[d].prop = p
    PROVE  /\ Remedy!TypeOK' /\ UNCHANGED <<proposal, proposer, readback, died, decisions, deciderFaults>>
           /\ decider[d].pc = "run"
           /\ decider'[d].pc = "finish" /\ decider'[d].prop = p /\ decider'[d].event = decider[d].event
           /\ \A e \in Deciders \ {d} : decider'[e] = decider[e]
           /\ runs'[p] = runs[p] \/ runs'[p] = runs[p] + 1
           /\ \A q \in Proposals \ {p} : runs'[q] = runs[q]
           /\ ~Remedy!CommitsInside(proposal[p].action) => decider'[d].locked
           /\ decider'[d].locked \/ decider[d].event = None \/ receipt'[decider[d].event] # "none"
           /\ \A x \in Remedy!CardEvents : receipt'[x] # receipt[x] => receipt'[x] # "none"
<1>t. /\ decider \in [Deciders -> Remedy!Decider] /\ receipt \in [Remedy!CardEvents -> Answer]
      /\ runs \in [Proposals -> Nat] /\ decider[d] \in Remedy!Decider
  BY TypeOKIs
<1>1. PICK effect \in BOOLEAN, raises \in BOOLEAN : \E commits \in Remedy!Committed(proposal[decider[d].prop].action, effect, raises) :
        /\ decider' = [decider EXCEPT ![d] = [@ EXCEPT !.pc = "finish", !.ok = ~raises, !.changed = effect /\ ~raises,
                                                       !.locked = ~commits]]
        /\ runs' = [runs EXCEPT ![decider[d].prop] = IF effect THEN @ + 1 ELSE @]
        /\ receipt' = IF commits /\ decider[d].event # None
                      THEN [receipt EXCEPT ![decider[d].event] = "processing"] ELSE receipt
  BY Zenon DEF Remedy!Run
<1>2. PICK commits \in Remedy!Committed(proposal[p].action, effect, raises) :
        /\ decider' = [decider EXCEPT ![d] = [@ EXCEPT !.pc = "finish", !.ok = ~raises, !.changed = effect /\ ~raises,
                                                       !.locked = ~commits]]
        /\ runs' = [runs EXCEPT ![p] = IF effect THEN @ + 1 ELSE @]
        /\ receipt' = IF commits /\ decider[d].event # None
                      THEN [receipt EXCEPT ![decider[d].event] = "processing"] ELSE receipt
  BY <1>1, Zenon
<1>c. commits \in BOOLEAN /\ (~Remedy!CommitsInside(proposal[p].action) => ~commits)
  <2>1. CASE Remedy!CommitsInside(proposal[p].action)
    BY <2>1 DEF Remedy!Committed
  <2>2. CASE ~Remedy!CommitsInside(proposal[p].action)
    BY <2>2 DEF Remedy!Committed
  <2> QED BY <2>1, <2>2
<1> DEFINE a == ~raises
           b == effect /\ ~raises
           c == ~commits
           u == [decider[d] EXCEPT !.pc = "finish", !.ok = a, !.changed = b, !.locked = c]
<1>3. decider' = [decider EXCEPT ![d] = u] /\ c = ~commits
  BY <1>2
<1>b. a \in BOOLEAN /\ b \in BOOLEAN /\ c \in BOOLEAN
  BY <1>c
<1> HIDE DEF a, b, c
<1>4. /\ u \in Remedy!Decider /\ u.pc = "finish" /\ u.prop = p /\ u.event = decider[d].event /\ u.locked = c
  BY <1>t, <1>b, Zenon DEF Remedy!Decider
<1> HIDE DEF u
<1>5. /\ decider' \in [Deciders -> Remedy!Decider] /\ decider'[d] = u
      /\ \A e \in Deciders \ {d} : decider'[e] = decider[e]
  BY <1>t, <1>3, <1>4, DeciderMoves
<1>6. /\ runs' \in [Proposals -> Nat]
      /\ runs'[p] = runs[p] \/ runs'[p] = runs[p] + 1
      /\ \A q \in Proposals \ {p} : runs'[q] = runs[q]
  <2>1. runs' = [runs EXCEPT ![p] = IF effect THEN runs[p] + 1 ELSE runs[p]]
    BY <1>2
  <2> QED BY <2>1, <1>t
<1>7. /\ receipt' \in [Remedy!CardEvents -> Answer]
      /\ \A x \in Remedy!CardEvents : receipt'[x] # receipt[x] => receipt'[x] # "none"
      /\ commits /\ decider[d].event # None => receipt'[decider[d].event] # "none"
  <2>1. decider[d].event \in Remedy!CardEvents \cup {None}
    BY <1>t, DeciderIs
  <2>2. receipt' = IF commits /\ decider[d].event # None
                   THEN [receipt EXCEPT ![decider[d].event] = "processing"] ELSE receipt
    BY <1>2
  <2> QED BY <2>1, <2>2, <1>t DEF Answer
<1>8. UNCHANGED <<proposal, proposer, readback, died, decisions, deciderFaults>>
  BY DEF Remedy!Run
<1>9. Remedy!TypeOK'
  BY <1>5, <1>6, <1>7, <1>8 DEF Remedy!TypeOK, Answer
<1>10. decider[d].pc = "run"
  BY DEF Remedy!Run
<1>11. decider'[d].locked = ~commits
  BY <1>3, <1>4, <1>5, <1>c
<1>12. decider'[d].locked \/ decider[d].event = None \/ receipt'[decider[d].event] # "none"
  BY <1>7, <1>11, <1>c
<1>13. ~Remedy!CommitsInside(proposal[p].action) => decider'[d].locked
  BY <1>11, <1>c
<1>14. decider'[d].pc = "finish" /\ decider'[d].prop = p /\ decider'[d].event = decider[d].event
  BY <1>4, <1>5
<1> QED BY <1>5, <1>6, <1>7, <1>8, <1>9, <1>10, <1>12, <1>13, <1>14

\* The outcome is written and the decider is free again.
LEMMA FinishDoes ==
    ASSUME Remedy!Sane, Remedy!TypeOK, NEW d \in Deciders, Remedy!Finish(d), NEW p \in Proposals, decider[d].prop = p
    PROVE  /\ Remedy!TypeOK' /\ UNCHANGED <<proposer, runs, died, decisions>>
           /\ decider[d].pc = "finish" /\ Remedy!LockFree(p, d)
           /\ decider'[d] = Remedy!Idle /\ \A e \in Deciders \ {d} : decider'[e] = decider[e]
           /\ proposal'[p].status \in {"approved", "failed"} /\ proposal'[p].action = proposal[p].action
           /\ \A q \in Proposals \ {p} : proposal'[q] = proposal[q]
           /\ \A x \in Remedy!CardEvents : receipt'[x] # receipt[x] => receipt'[x] # "none"
           /\ decider[d].event # None => receipt'[decider[d].event] # "none"
<1>t. /\ decider \in [Deciders -> Remedy!Decider] /\ receipt \in [Remedy!CardEvents -> Answer]
      /\ proposal \in [Proposals -> Remedy!Row] /\ readback \in SUBSET Proposals
      /\ deciderFaults \in 0 .. MaxDeaths
      /\ decider[d] \in Remedy!Decider /\ proposal[p] \in Remedy!Row
  BY TypeOKIs
<1>1. /\ proposal' \in [Proposals -> Remedy!Row]
      /\ proposal'[p].status \in {"approved", "failed"} /\ proposal'[p].action = proposal[p].action
      /\ \A q \in Proposals \ {p} : proposal'[q] = proposal[q]
  <2> DEFINE s == IF decider[d].ok THEN "approved" ELSE "failed"
             v == IF decider[d].changed THEN "scheduled" ELSE proposal[p].verify
             u == [proposal[p] EXCEPT !.status = s, !.verify = v]
  <2>1. s \in {"approved", "failed"}
    OBVIOUS
  <2>2. v \in {"", "scheduled", "verified", "unrecovered", "unverifiable"}
    <3>1. proposal[p].verify \in {"", "scheduled", "verified", "unrecovered", "unverifiable"}
      BY <1>t, Zenon DEF Remedy!Row
    <3> QED BY <3>1
  <2>3. proposal' = [proposal EXCEPT ![p] = u]
    BY DEF Remedy!Finish
  <2> HIDE DEF s, v
  <2>4. u \in Remedy!Row /\ u.status = s /\ u.action = proposal[p].action
    <3>1. s \in {"none", "pending", "approved", "rejected", "expired", "failed"}
      BY <2>1
    <3> QED BY <1>t, <3>1, <2>2, Zenon DEF Remedy!Row
  <2> HIDE DEF u
  <2> QED BY <1>t, <2>1, <2>3, <2>4
<1>2. /\ decider' \in [Deciders -> Remedy!Decider] /\ decider'[d] = Remedy!Idle
      /\ \A e \in Deciders \ {d} : decider'[e] = decider[e]
  BY <1>t, IdleIs, DeciderMoves DEF Remedy!Finish
<1>3. /\ receipt' \in [Remedy!CardEvents -> Answer]
      /\ \A x \in Remedy!CardEvents : receipt'[x] # receipt[x] => receipt'[x] # "none"
      /\ decider[d].event # None => receipt'[decider[d].event] # "none"
  <2>1. decider[d].event \in Remedy!CardEvents \cup {None} /\ "completed" \in Answer \ {"none"}
    BY <1>t, DeciderIs DEF Answer
  <2>2. receipt' = IF decider[d].event = None THEN receipt ELSE [receipt EXCEPT ![decider[d].event] = "completed"]
    BY Zenon DEF Remedy!Finish
  <2> QED BY <1>t, <2>1, <2>2, ReceiptWritten
<1>4. readback' \in SUBSET Proposals /\ deciderFaults' \in 0 .. MaxDeaths
  <2>1. CASE /\ readback' = IF decider[d].changed THEN readback \cup {p} ELSE readback
             /\ UNCHANGED deciderFaults
    BY <1>t, <2>1
  <2>2. CASE Remedy!Fault /\ UNCHANGED readback
    BY <1>t, <2>2, RemedyFaultType
  <2> QED BY <2>1, <2>2 DEF Remedy!Finish
<1>5. UNCHANGED <<proposer, runs, died, decisions>>
  BY DEF Remedy!Finish
<1>6. Remedy!TypeOK'
  BY <1>1, <1>2, <1>3, <1>4, <1>5 DEF Remedy!TypeOK, Answer
<1>7. decider[d].pc = "finish" /\ Remedy!LockFree(p, d)
  BY DEF Remedy!Finish
<1> QED BY <1>1, <1>2, <1>3, <1>5, <1>6, <1>7

\* A decider that dies leaves everything committed as it is.
LEMMA DieDoes ==
    ASSUME Remedy!Sane, Remedy!TypeOK, NEW d \in Deciders, Remedy!Die(d), NEW p \in Proposals, decider[d].prop = p
    PROVE  /\ Remedy!TypeOK' /\ UNCHANGED <<proposal, receipt, runs, decisions>>
           /\ decider'[d] = Remedy!Idle /\ \A e \in Deciders \ {d} : decider'[e] = decider[e]
           /\ died'[p] = died[p] + 1 /\ \A q \in Proposals \ {p} : died'[q] = died[q]
<1>t. /\ decider \in [Deciders -> Remedy!Decider] /\ died \in [Proposals -> Nat] /\ deciderFaults \in 0 .. MaxDeaths
  BY TypeOKIs
<1>1. /\ decider' \in [Deciders -> Remedy!Decider] /\ decider'[d] = Remedy!Idle
      /\ \A e \in Deciders \ {d} : decider'[e] = decider[e]
  BY <1>t, IdleIs, DeciderMoves DEF Remedy!Die
<1>2. /\ died' \in [Proposals -> Nat]
      /\ died'[p] = died[p] + 1 /\ \A q \in Proposals \ {p} : died'[q] = died[q]
  <2>1. died' = [died EXCEPT ![p] = died[p] + 1]
    BY DEF Remedy!Die
  <2> QED BY <1>t, <2>1
<1>3. deciderFaults' \in 0 .. MaxDeaths
  BY <1>t, RemedyFaultType DEF Remedy!Die
<1>4. UNCHANGED <<proposal, proposer, receipt, readback, runs, decisions>>
  BY DEF Remedy!Die
<1>5. Remedy!TypeOK'
  BY <1>1, <1>2, <1>3, <1>4 DEF Remedy!TypeOK
<1> QED BY <1>1, <1>2, <1>4, <1>5

\* Reviews, readbacks and time leave the statuses and the commands as they are.
LEMMA QuietDoes ==
    ASSUME Remedy!Sane, Remedy!TypeOK,
           \/ \E x \in Proposers, a \in Actions : Remedy!Review(x, a)
           \/ \E p \in Proposals : Remedy!VerifyRemediation(p)
           \/ Remedy!Tick
    PROVE  /\ Remedy!TypeOK' /\ UNCHANGED <<decider, receipt, runs, died, decisions>>
           /\ \A q \in Proposals : /\ proposal'[q].status = proposal[q].status
                                   /\ proposal'[q].action = proposal[q].action
<1>t. /\ proposal \in [Proposals -> Remedy!Row] /\ proposer \in [Proposers -> Actions \cup {None}]
      /\ readback \in SUBSET Proposals
  BY TypeOKIs
<1>1. ASSUME NEW x \in Proposers, NEW a \in Actions, Remedy!Review(x, a)
      PROVE  proposer' \in [Proposers -> Actions \cup {None}] /\ UNCHANGED <<proposal, readback>>
  BY <1>t, <1>1 DEF Remedy!Review
<1>2. ASSUME NEW p \in Proposals, Remedy!VerifyRemediation(p)
      PROVE  /\ proposal' \in [Proposals -> Remedy!Row] /\ readback' \in SUBSET Proposals
             /\ \A q \in Proposals : /\ proposal'[q].status = proposal[q].status
                                     /\ proposal'[q].action = proposal[q].action
  <2>1. PICK v \in {"verified", "unrecovered", "unverifiable"} :
          proposal' = [proposal EXCEPT ![p].verify = v]
    BY <1>2, Zenon DEF Remedy!VerifyRemediation
  <2> DEFINE u == [proposal[p] EXCEPT !.verify = v]
  <2>2. u \in Remedy!Row /\ u.status = proposal[p].status /\ u.action = proposal[p].action
    <3>1. proposal[p] \in Remedy!Row /\ v \in {"", "scheduled", "verified", "unrecovered", "unverifiable"}
      BY <1>t
    <3> QED BY <3>1, Zenon DEF Remedy!Row
  <2>3. proposal' = [proposal EXCEPT ![p] = u]
    BY <2>1
  <2> HIDE DEF u
  <2>4. proposal' \in [Proposals -> Remedy!Row] /\ proposal'[p] = u
    BY <1>t, <2>2, <2>3
  <2>5. \A q \in Proposals \ {p} : proposal'[q] = proposal[q]
    BY <1>t, <2>3
  <2>6. readback' \in SUBSET Proposals
    BY <1>t, <1>2 DEF Remedy!VerifyRemediation
  <2> QED BY <2>2, <2>4, <2>5, <2>6
<1>3. ASSUME Remedy!Tick
      PROVE  /\ proposal' \in [Proposals -> Remedy!Row]
             /\ \A q \in Proposals : /\ proposal'[q].status = proposal[q].status
                                     /\ proposal'[q].action = proposal[q].action
  <2> DEFINE f(p) == IF p \in Remedy!Pending /\ proposal[p].left > 0
                     THEN [proposal[p] EXCEPT !.left = proposal[p].left - 1] ELSE proposal[p]
  <2>1. proposal' = [p \in Proposals |-> f(p)]
    BY <1>3 DEF Remedy!Tick
  <2>2. ASSUME NEW p \in Proposals
        PROVE  f(p) \in Remedy!Row /\ f(p).status = proposal[p].status /\ f(p).action = proposal[p].action
    <3>1. proposal[p] \in Remedy!Row /\ proposal[p].left \in 0 .. ProposalTTL /\ ProposalTTL \in Nat
      BY <1>t, Zenon DEF Remedy!Row, Remedy!Sane
    <3>2. CASE proposal[p].left > 0
      <4>1. proposal[p].left - 1 \in 0 .. ProposalTTL
        BY <3>1, <3>2
      <4> DEFINE n == proposal[p].left - 1
                 u == [proposal[p] EXCEPT !.left = n]
      <4> HIDE DEF n
      <4>2. u \in Remedy!Row /\ u.status = proposal[p].status /\ u.action = proposal[p].action
        BY <3>1, <4>1, Zenon DEF Remedy!Row, n
      <4> QED BY <3>1, <4>2, Zenon DEF n
    <3>3. CASE ~(proposal[p].left > 0)
      BY <3>1, <3>3
    <3> QED BY <3>2, <3>3
  <2> HIDE DEF f
  <2> QED BY <2>1, <2>2
<1>4. UNCHANGED <<decider, receipt, runs, died, decisions, deciderFaults>>
  BY DEF Remedy!Review, Remedy!VerifyRemediation, Remedy!Tick
<1>5. \/ UNCHANGED <<proposer, readback>>
      \/ proposer' \in [Proposers -> Actions \cup {None}] /\ UNCHANGED readback
      \/ UNCHANGED proposer /\ readback' \in SUBSET Proposals
  BY <1>1, <1>2 DEF Remedy!VerifyRemediation, Remedy!Tick
<1>6. /\ proposal' \in [Proposals -> Remedy!Row]
      /\ \A q \in Proposals : /\ proposal'[q].status = proposal[q].status
                              /\ proposal'[q].action = proposal[q].action
  BY <1>t, <1>1, <1>2, <1>3
<1>7. Remedy!TypeOK'
  BY <1>t, <1>4, <1>5, <1>6 DEF Remedy!TypeOK
<1> QED BY <1>4, <1>6, <1>7

-----------------------------------------------------------------------------
(* The invariants *)

\* A decider at work has a proposal, the one its press is about, and the row lock
\* until it has run the command; what a command committed answers the press.
Work ==
    \A d \in Deciders :
        /\ decider[d].pc = "idle" => decider[d].prop = None /\ decider[d].event = None /\ ~decider[d].locked
        /\ decider[d].pc # "idle" => decider[d].prop \in Proposals
        /\ decider[d].pc = "run" => decider[d].locked
        /\ decider[d].event # None =>
              /\ decider[d].prop = Presses[decider[d].event].proposal
              /\ decider[d].locked \/ receipt[decider[d].event] # "none"

\* A row lock has one holder.
OneLock ==
    \A d, e \in Deciders :
        decider[d].locked /\ decider[e].locked /\ decider[d].prop = decider[e].prop => d = e

\* Nothing has happened to a proposal that is not there.
Unproposed ==
    \A p \in Proposals : proposal[p].status = "none" =>
        runs[p] = 0 /\ \A d \in Deciders : decider[d].prop # p

\* A press nobody has answered and nobody is deciding was decided by the dead only.
Pressed ==
    \A v \in Remedy!CardEvents :
        receipt[v] = "none" /\ (\A d \in Deciders : ~(decider[d].event = v /\ decider[d].locked))
        => decisions[v] <= died[Presses[v].proposal]

\* While a command that leaves the transaction alone is decided on, the row is
\* locked and pending, and only the dead have run it before.
Alone ==
    \A p \in Proposals : ~Remedy!CommitsInside(proposal[p].action) =>
        /\ \A d \in Deciders : decider[d].prop = p => decider[d].locked /\ proposal[p].status = "pending"
        /\ proposal[p].status = "pending" /\ (\A d \in Deciders : ~(decider[d].prop = p /\ decider[d].pc = "finish"))
           => runs[p] <= died[p]

\* A command that took effect is on record, or a decider is about to record it.
Recording ==
    \A p \in Proposals :
        runs[p] > 0 /\ died[p] = 0 =>
            \/ proposal[p].status \in {"approved", "failed"}
            \/ \E d \in Deciders : decider[d].prop = p /\ decider[d].pc = "finish"

RemedyInv == Remedy!TypeOK /\ Work /\ OneLock /\ Unproposed /\ Pressed /\ Remedy!PressOnce /\ Alone /\ Remedy!LockedRunsOnce /\ Recording

\* One decision, from the console or for a press.
DecideFor(d, p, approve, v) ==
    /\ Remedy!Decide(d, p, approve, v)
    /\ \/ v = None /\ UNCHANGED decisions
       \/ /\ v \in Remedy!CardEvents /\ receipt[v] = "none" /\ Remedy!ReceiptFree(v, d)
          /\ p = Presses[v].proposal
          /\ decisions' = [decisions EXCEPT ![v] = @ + 1]

Quiet ==
    \/ \E x \in Proposers, a \in Actions : Remedy!Review(x, a)
    \/ \E p \in Proposals : Remedy!VerifyRemediation(p)
    \/ Remedy!Tick

LEMMA Steps ==
    ASSUME Remedy!Sane, Work, [Remedy!Next]_(Remedy!vars)
    PROVE  \/ UNCHANGED Remedy!vars
           \/ \E x \in Proposers : Remedy!Propose(x)
           \/ Quiet
           \/ \E d \in Deciders, p \in Proposals, approve \in BOOLEAN, v \in Remedy!CardEvents \cup {None} :
                 DecideFor(d, p, approve, v)
           \/ \E d \in Deciders, p \in Proposals :
                 decider[d].prop = p /\ (Remedy!Run(d) \/ Remedy!Finish(d) \/ Remedy!Die(d))
<1>1. ASSUME NEW d \in Deciders, NEW p \in Proposals, NEW approve \in BOOLEAN, Remedy!DecideAtConsole(d, p, approve)
      PROVE  DecideFor(d, p, approve, None)
  BY <1>1 DEF Remedy!DecideAtConsole, DecideFor
<1>2. ASSUME NEW d \in Deciders, NEW v \in Remedy!CardEvents, Remedy!DecideByCard(d, v)
      PROVE  /\ Presses[v].proposal \in Proposals /\ Presses[v].approve \in BOOLEAN
             /\ DecideFor(d, Presses[v].proposal, Presses[v].approve, v)
  <2>1. Presses[v].proposal \in Proposals /\ Presses[v].approve \in BOOLEAN
    BY Zenon DEF Remedy!Sane
  <2> QED BY <1>2, <2>1, Zenon DEF Remedy!DecideByCard, DecideFor
<1>3. ASSUME NEW d \in Deciders, Remedy!Run(d) \/ Remedy!Finish(d) \/ Remedy!Die(d)
      PROVE  decider[d].prop \in Proposals
  BY <1>3 DEF Remedy!Run, Remedy!Finish, Remedy!Die, Work
<1>4. CASE Remedy!Next
  <2>1. CASE \E d \in Deciders, p \in Proposals, approve \in BOOLEAN : Remedy!DecideAtConsole(d, p, approve)
    <3>1. None \in Remedy!CardEvents \cup {None}
      OBVIOUS
    <3> QED BY <2>1, <1>1, <3>1, Zenon
  <2>2. CASE \E d \in Deciders, v \in Remedy!CardEvents : Remedy!DecideByCard(d, v)
    BY <2>2, <1>2, Zenon
  <2>3. CASE \E d \in Deciders : Remedy!Run(d) \/ Remedy!Finish(d) \/ Remedy!Die(d)
    BY <2>3, <1>3, Zenon
  <2>4. CASE \/ \E x \in Proposers : Remedy!Propose(x) \/ \E a \in Actions : Remedy!Review(x, a)
             \/ \E p \in Proposals : Remedy!VerifyRemediation(p)
             \/ Remedy!Tick
    BY <2>4, Zenon DEF Quiet
  <2> QED BY <1>4, <2>1, <2>2, <2>3, <2>4, Zenon DEF Remedy!Next
<1> QED BY <1>4, Zenon

\* A decision, in the terms of DecideDoes.
LEMMA DecideForDoes ==
    ASSUME Remedy!Sane, Remedy!TypeOK, NEW d \in Deciders, NEW p \in Proposals, NEW approve \in BOOLEAN,
           NEW v \in Remedy!CardEvents \cup {None}, DecideFor(d, p, approve, v)
    PROVE  Remedy!TypeOK' /\ UNCHANGED <<runs, died>>
<1>1. /\ proposal' \in [Proposals -> Remedy!Row] /\ decider' \in [Deciders -> Remedy!Decider]
      /\ receipt' \in [Remedy!CardEvents -> Answer]
  BY DecideDoes DEF DecideFor
<1>2. UNCHANGED <<proposer, readback, runs, died, deciderFaults>>
  BY DEF DecideFor, Remedy!Decide
<1>3. decisions' \in [Remedy!CardEvents -> Nat]
  <2>1. decisions \in [Remedy!CardEvents -> Nat]
    BY TypeOKIs
  <2> QED BY <2>1 DEF DecideFor
<1>4. Remedy!TypeOK'
  BY <1>1, <1>2, <1>3 DEF Remedy!TypeOK, Answer
<1> QED BY <1>2, <1>4

LEMMA TypeNext ==
    ASSUME Remedy!Sane, Remedy!TypeOK, Work, [Remedy!Next]_(Remedy!vars)
    PROVE  Remedy!TypeOK'
<1>1. CASE UNCHANGED Remedy!vars
  BY <1>1 DEF Remedy!TypeOK, Remedy!vars
<1>2. ASSUME NEW d \in Deciders, NEW p \in Proposals, decider[d].prop = p, Remedy!Run(d) \/ Remedy!Finish(d) \/ Remedy!Die(d)
      PROVE  Remedy!TypeOK'
  BY <1>2, RunDoes, FinishDoes, DieDoes, Zenon
<1> QED BY <1>1, <1>2, Steps, ProposeDoes, QuietDoes, DecideForDoes, Zenon DEF Quiet

-----------------------------------------------------------------------------
(* Each invariant, step by step *)

LEMMA WorkNext ==
    ASSUME Remedy!Sane, Remedy!TypeOK, Work, OneLock, [Remedy!Next]_(Remedy!vars)
    PROVE  Work' /\ OneLock'
<1>t. decider \in [Deciders -> Remedy!Decider] /\ receipt \in [Remedy!CardEvents -> Answer]
  BY TypeOKIs
<1>n. None \notin Proposals /\ None \notin Remedy!CardEvents
  BY DEF Remedy!Sane
<1>e. \A d \in Deciders : decider[d].event \in Remedy!CardEvents \cup {None}
  BY <1>t, DeciderIs
<1>1. CASE UNCHANGED <<decider, receipt>>
  BY <1>1 DEF Work, OneLock
<1>2. ASSUME NEW d \in Deciders, NEW p \in Proposals, NEW approve \in BOOLEAN,
             NEW v \in Remedy!CardEvents \cup {None}, DecideFor(d, p, approve, v)
      PROVE  Work' /\ OneLock'
  <2>1. /\ Remedy!LockFree(p, d)
        /\ \A x \in Remedy!CardEvents : receipt'[x] # receipt[x] => receipt'[x] # "none"
        /\ \/ decider' = decider
           \/ /\ decider'[d].pc = "run" /\ decider'[d].prop = p /\ decider'[d].event = v
              /\ decider'[d].locked
              /\ \A e \in Deciders \ {d} : decider'[e] = decider[e]
    BY <1>2, DecideDoes DEF DecideFor
  <2>2. v # None => p = Presses[v].proposal
    BY <1>2 DEF DecideFor
  <2>3. CASE decider' = decider
    <3>1. OneLock'
      BY <2>3 DEF OneLock
    <3>2. Work'
      BY <2>1, <2>3, <1>e DEF Work
    <3> QED BY <3>1, <3>2
  <2>4. CASE /\ decider'[d].pc = "run" /\ decider'[d].prop = p /\ decider'[d].event = v
             /\ decider'[d].locked
             /\ \A e \in Deciders \ {d} : decider'[e] = decider[e]
    <3>1. OneLock'
      BY <2>1, <2>4 DEF OneLock, Remedy!LockFree
    <3>2. Work'
      BY <2>1, <2>2, <2>4, <1>e DEF Work
    <3> QED BY <3>1, <3>2
  <2> QED BY <2>1, <2>3, <2>4
<1>3. ASSUME NEW d \in Deciders, NEW p \in Proposals, decider[d].prop = p, Remedy!Run(d)
      PROVE  Work' /\ OneLock'
  <2>1. /\ decider[d].pc = "run"
        /\ decider'[d].pc = "finish" /\ decider'[d].prop = p /\ decider'[d].event = decider[d].event
        /\ \A e \in Deciders \ {d} : decider'[e] = decider[e]
        /\ decider'[d].locked \/ decider[d].event = None \/ receipt'[decider[d].event] # "none"
        /\ \A x \in Remedy!CardEvents : receipt'[x] # receipt[x] => receipt'[x] # "none"
    BY <1>3, RunDoes
  <2>2. decider[d].locked
    BY <2>1 DEF Work
  <2>3. OneLock'
    BY <1>3, <2>1, <2>2 DEF OneLock
  <2>4. Work'
    BY <1>3, <2>1, <2>2, <1>e DEF Work
  <2> QED BY <2>3, <2>4
<1>4. ASSUME NEW d \in Deciders, decider'[d] = Remedy!Idle, \A e \in Deciders \ {d} : decider'[e] = decider[e],
             \A x \in Remedy!CardEvents : receipt'[x] # receipt[x] => receipt'[x] # "none"
      PROVE  Work' /\ OneLock'
  <2>1. OneLock'
    BY <1>4, IdleIs DEF OneLock
  <2>2. Work'
    BY <1>4, <1>e, IdleIs DEF Work
  <2> QED BY <2>1, <2>2
<1>5. ASSUME NEW d \in Deciders, NEW p \in Proposals, decider[d].prop = p, Remedy!Finish(d) \/ Remedy!Die(d)
      PROVE  Work' /\ OneLock'
  <2>1. /\ decider'[d] = Remedy!Idle /\ \A e \in Deciders \ {d} : decider'[e] = decider[e]
        /\ \A x \in Remedy!CardEvents : receipt'[x] # receipt[x] => receipt'[x] # "none"
    BY <1>5, FinishDoes, DieDoes
  <2> QED BY <2>1, <1>4
<1>6. CASE UNCHANGED Remedy!vars \/ Quiet \/ \E x \in Proposers : Remedy!Propose(x)
  <2>1. UNCHANGED <<decider, receipt>>
    BY <1>6, QuietDoes DEF Remedy!vars, Remedy!Propose, Quiet
  <2> QED BY <2>1, <1>1
<1> QED BY <1>2, <1>3, <1>5, <1>6, Steps, Zenon

LEMMA UnbornNext ==
    ASSUME Remedy!Sane, Remedy!TypeOK, Work, Unproposed, [Remedy!Next]_(Remedy!vars)
    PROVE  Unproposed'
<1>n. None \notin Proposals
  BY DEF Remedy!Sane
<1>1. CASE UNCHANGED Remedy!vars \/ Quiet
  <2>1. /\ UNCHANGED <<decider, runs>>
        /\ \A p \in Proposals : proposal'[p].status = proposal[p].status
    BY <1>1, QuietDoes DEF Remedy!vars, Quiet
  <2> QED BY <2>1 DEF Unproposed
<1>2. ASSUME NEW x \in Proposers, Remedy!Propose(x) PROVE Unproposed'
  <2>1. UNCHANGED <<decider, runs>>
    BY <1>2 DEF Remedy!Propose
  <2> QED BY <1>2, <2>1, ProposeDoes DEF Unproposed
<1>3. ASSUME NEW d \in Deciders, NEW p \in Proposals, NEW approve \in BOOLEAN,
             NEW v \in Remedy!CardEvents \cup {None}, DecideFor(d, p, approve, v)
      PROVE  Unproposed'
  <2>1. /\ proposal[p].status # "none"
        /\ \A q \in Proposals : \/ proposal'[q].status = proposal[q].status
                                \/ /\ q = p /\ proposal[q].status = "pending"
                                   /\ proposal'[q].status \in {"expired", "rejected"}
        /\ \/ decider' = decider
           \/ decider'[d].prop = p /\ \A e \in Deciders \ {d} : decider'[e] = decider[e]
    BY <1>3, DecideDoes DEF DecideFor
  <2>2. UNCHANGED runs
    BY <1>3, DecideForDoes
  <2>3. ASSUME NEW q \in Proposals, proposal'[q].status = "none"
        PROVE  runs'[q] = 0 /\ \A e \in Deciders : decider'[e].prop # q
    <3>1. proposal[q].status = "none" /\ q # p
      BY <2>1, <2>3
    <3> QED BY <2>1, <2>2, <3>1 DEF Unproposed
  <2> QED BY <2>3 DEF Unproposed
<1>4. ASSUME NEW d \in Deciders, NEW p \in Proposals, decider[d].prop = p, Remedy!Run(d) \/ Remedy!Finish(d) \/ Remedy!Die(d)
      PROVE  Unproposed'
  <2>1. proposal[p].status # "none"
    BY <1>4 DEF Unproposed
  <2>2. /\ proposal'[p].status # "none"
        /\ \A q \in Proposals \ {p} : proposal'[q] = proposal[q] /\ runs'[q] = runs[q]
        /\ decider'[d].prop \in {p, None} /\ \A e \in Deciders \ {d} : decider'[e] = decider[e]
    BY <1>4, <2>1, RunDoes, FinishDoes, DieDoes, IdleIs
  <2>3. ASSUME NEW q \in Proposals, proposal'[q].status = "none"
        PROVE  runs'[q] = 0 /\ \A e \in Deciders : decider'[e].prop # q
    <3>1. q # p
      BY <2>2, <2>3
    <3>2. proposal'[q] = proposal[q] /\ runs'[q] = runs[q]
      BY <2>2, <3>1
    <3> QED BY <2>2, <2>3, <3>1, <3>2, <1>n DEF Unproposed
  <2> QED BY <2>3 DEF Unproposed
<1> QED BY <1>1, <1>2, <1>3, <1>4, Steps, Zenon

LEMMA PressedNext ==
    ASSUME Remedy!Sane, Remedy!TypeOK, Work, Pressed, Remedy!PressOnce, [Remedy!Next]_(Remedy!vars)
    PROVE  Pressed' /\ Remedy!PressOnce'
<1>t. /\ decisions \in [Remedy!CardEvents -> Nat] /\ died \in [Proposals -> Nat]
      /\ receipt \in [Remedy!CardEvents -> Answer] /\ decider \in [Deciders -> Remedy!Decider]
  BY TypeOKIs
<1>p. \A v \in Remedy!CardEvents : Presses[v].proposal \in Proposals
  BY DEF Remedy!Sane
<1>n. None \notin Remedy!CardEvents
  BY DEF Remedy!Sane
<1>1. CASE UNCHANGED <<receipt, decider, decisions, died>>
  BY <1>1 DEF Pressed, Remedy!PressOnce
<1>2. ASSUME NEW d \in Deciders, NEW p \in Proposals, NEW approve \in BOOLEAN,
             NEW v \in Remedy!CardEvents \cup {None}, DecideFor(d, p, approve, v)
      PROVE  Pressed' /\ Remedy!PressOnce'
  <2>1. /\ decider[d].pc = "idle"
        /\ \A x \in Remedy!CardEvents : receipt'[x] # receipt[x] => receipt'[x] # "none"
        /\ \/ decider' = decider /\ (v # None => receipt'[v] # "none")
           \/ /\ decider'[d].event = v /\ decider'[d].locked
              /\ \A e \in Deciders \ {d} : decider'[e] = decider[e]
    BY <1>2, DecideDoes DEF DecideFor
  <2>2. UNCHANGED died
    BY <1>2, DecideForDoes
  <2>3. decider[d].event = None
    BY <2>1 DEF Work
  <2>4. ASSUME NEW x \in Remedy!CardEvents, x # v
        PROVE  decisions'[x] = decisions[x]
    BY <1>2, <2>4, <1>t DEF DecideFor
  <2>5. ASSUME NEW x \in Remedy!CardEvents, x # v, receipt'[x] = "none",
               \A e \in Deciders : ~(decider'[e].event = x /\ decider'[e].locked)
        PROVE  decisions'[x] <= died'[Presses[x].proposal]
    <3>1. receipt[x] = "none"
      BY <2>1, <2>5
    <3>2. \A e \in Deciders : ~(decider[e].event = x /\ decider[e].locked)
      BY <2>1, <2>3, <2>5, <1>n
    <3> QED BY <2>2, <2>4, <2>5, <3>1, <3>2 DEF Pressed
  <2>6. v \in Remedy!CardEvents => ~(receipt'[v] = "none" /\ \A e \in Deciders : ~(decider'[e].event = v /\ decider'[e].locked))
    BY <2>1, <1>n
  <2>7. Pressed'
    BY <2>5, <2>6 DEF Pressed
  <2>8. ASSUME v \in Remedy!CardEvents
        PROVE  decisions'[v] <= 1 + died'[Presses[v].proposal]
    <3>1. receipt[v] = "none" /\ decisions' = [decisions EXCEPT ![v] = decisions[v] + 1] /\ Remedy!ReceiptFree(v, d)
      BY <1>2, <2>8, <1>n DEF DecideFor
    <3>2. \A e \in Deciders : ~(decider[e].event = v /\ decider[e].locked)
      BY <2>3, <2>8, <3>1, <1>n DEF Remedy!ReceiptFree
    <3>3. decisions[v] <= died[Presses[v].proposal]
      BY <2>8, <3>1, <3>2 DEF Pressed
    <3>4. decisions'[v] = decisions[v] + 1 /\ decisions[v] \in Nat /\ died[Presses[v].proposal] \in Nat
      BY <2>8, <3>1, <1>t, <1>p
    <3> QED BY <2>2, <3>3, <3>4
  <2>9. Remedy!PressOnce'
    BY <2>2, <2>4, <2>8 DEF Remedy!PressOnce
  <2> QED BY <2>7, <2>9
<1>3. ASSUME NEW d \in Deciders, NEW p \in Proposals, decider[d].prop = p, Remedy!Run(d) \/ Remedy!Finish(d)
      PROVE  Pressed' /\ Remedy!PressOnce'
  <2>1. /\ UNCHANGED <<died, decisions>>
        /\ \A e \in Deciders \ {d} : decider'[e] = decider[e]
        /\ \A x \in Remedy!CardEvents : receipt'[x] # receipt[x] => receipt'[x] # "none"
        /\ \/ decider[d].event = None \/ receipt'[decider[d].event] # "none"
           \/ decider'[d].locked /\ decider'[d].event = decider[d].event
    BY <1>3, RunDoes, FinishDoes
  <2>2. ASSUME NEW x \in Remedy!CardEvents, receipt'[x] = "none",
               \A e \in Deciders : ~(decider'[e].event = x /\ decider'[e].locked)
        PROVE  decisions'[x] <= died'[Presses[x].proposal]
    <3>1. receipt[x] = "none"
      BY <2>1, <2>2
    <3>2. \A e \in Deciders : ~(decider[e].event = x /\ decider[e].locked)
      BY <2>1, <2>2, <1>n
    <3> QED BY <2>1, <3>1, <3>2 DEF Pressed
  <2> QED BY <2>1, <2>2 DEF Pressed, Remedy!PressOnce
<1>4. ASSUME NEW d \in Deciders, NEW p \in Proposals, decider[d].prop = p, Remedy!Die(d)
      PROVE  Pressed' /\ Remedy!PressOnce'
  <2>1. /\ UNCHANGED <<receipt, decisions>>
        /\ \A e \in Deciders \ {d} : decider'[e] = decider[e]
        /\ died'[p] = died[p] + 1 /\ \A q \in Proposals \ {p} : died'[q] = died[q]
    BY <1>4, DieDoes
  <2>2. \A q \in Proposals : died'[q] \in Nat /\ died[q] \in Nat /\ died[q] <= died'[q]
    BY <2>1, <1>t
  <2>3. ASSUME NEW x \in Remedy!CardEvents
        PROVE  decisions'[x] <= 1 + died'[Presses[x].proposal]
    <3>1. decisions[x] <= 1 + died[Presses[x].proposal]
      BY DEF Remedy!PressOnce
    <3> QED BY <2>1, <2>2, <3>1, <1>t, <1>p
  <2>4. ASSUME NEW x \in Remedy!CardEvents, receipt'[x] = "none",
               \A e \in Deciders : ~(decider'[e].event = x /\ decider'[e].locked)
        PROVE  decisions'[x] <= died'[Presses[x].proposal]
    <3>1. CASE decider[d].event = x
      <4>1. Presses[x].proposal = p
        BY <1>4, <3>1, <1>n DEF Work
      <4>2. decisions[x] <= 1 + died[p]
        BY <4>1 DEF Remedy!PressOnce
      <4> QED BY <4>1, <4>2, <2>1, <2>2, <1>t
    <3>2. CASE decider[d].event # x
      <4>1. \A e \in Deciders : ~(decider[e].event = x /\ decider[e].locked)
        BY <2>1, <2>4, <3>2
      <4>2. decisions[x] <= died[Presses[x].proposal]
        BY <2>1, <2>4, <4>1 DEF Pressed
      <4> QED BY <2>1, <2>2, <4>2, <1>t, <1>p
    <3> QED BY <3>1, <3>2
  <2> QED BY <2>3, <2>4 DEF Pressed, Remedy!PressOnce
<1>5. CASE UNCHANGED Remedy!vars \/ Quiet \/ \E x \in Proposers : Remedy!Propose(x)
  <2>1. UNCHANGED <<receipt, decider, decisions, died>>
    BY <1>5, QuietDoes DEF Remedy!vars, Remedy!Propose, Quiet
  <2> QED BY <2>1, <1>1
<1> QED BY <1>2, <1>3, <1>4, <1>5, Steps, Zenon

LEMMA AloneNext ==
    ASSUME Remedy!Sane, Remedy!TypeOK, Work, OneLock, Unproposed, Alone, Remedy!LockedRunsOnce, [Remedy!Next]_(Remedy!vars)
    PROVE  Alone' /\ Remedy!LockedRunsOnce'
<1>t. runs \in [Proposals -> Nat] /\ died \in [Proposals -> Nat]
  BY TypeOKIs
<1>n. None \notin Proposals
  BY DEF Remedy!Sane
<1>1. CASE UNCHANGED Remedy!vars \/ Quiet
  <2>1. /\ UNCHANGED <<decider, runs, died>>
        /\ \A p \in Proposals : /\ proposal'[p].status = proposal[p].status
                                /\ proposal'[p].action = proposal[p].action
    BY <1>1, QuietDoes DEF Remedy!vars, Quiet
  <2> QED BY <2>1 DEF Alone, Remedy!LockedRunsOnce
<1>2. ASSUME NEW x \in Proposers, Remedy!Propose(x) PROVE Alone' /\ Remedy!LockedRunsOnce'
  <2>1. UNCHANGED <<decider, runs, died>>
    BY <1>2 DEF Remedy!Propose
  <2>2. ASSUME NEW p \in Proposals, proposal[p].status = "none"
        PROVE  /\ \A d \in Deciders : decider[d].prop # p
               /\ runs[p] <= died[p] /\ runs[p] <= 1 + died[p]
    BY <2>2, <1>t DEF Unproposed
  <2>3. \A p \in Proposals : proposal'[p] = proposal[p] \/ proposal[p].status = "none"
    BY <1>2, ProposeDoes
  <2>4. Alone'
    BY <2>1, <2>2, <2>3 DEF Alone
  <2>5. Remedy!LockedRunsOnce'
    BY <2>1, <2>2, <2>3 DEF Remedy!LockedRunsOnce
  <2> QED BY <2>4, <2>5
<1>3. ASSUME NEW d \in Deciders, NEW p \in Proposals, NEW approve \in BOOLEAN,
             NEW v \in Remedy!CardEvents \cup {None}, DecideFor(d, p, approve, v)
      PROVE  Alone' /\ Remedy!LockedRunsOnce'
  <2>1. /\ Remedy!LockFree(p, d) /\ decider[d].pc = "idle"
        /\ \A q \in Proposals : proposal'[q].action = proposal[q].action
        /\ \A q \in Proposals : \/ proposal'[q].status = proposal[q].status
                                \/ /\ q = p /\ proposal[q].status = "pending"
                                   /\ proposal'[q].status \in {"expired", "rejected"}
        /\ \/ decider' = decider
           \/ /\ proposal' = proposal /\ proposal[p].status = "pending"
              /\ decider'[d].pc = "run" /\ decider'[d].prop = p /\ decider'[d].locked
              /\ \A e \in Deciders \ {d} : decider'[e] = decider[e]
    BY <1>3, DecideDoes DEF DecideFor
  <2>2. UNCHANGED <<runs, died>>
    BY <1>3, DecideForDoes
  <2>3. Remedy!LockedRunsOnce'
    BY <2>1, <2>2 DEF Remedy!LockedRunsOnce
  <2>4. decider[d].prop = None
    BY <2>1 DEF Work
  <2>5. ASSUME NEW q \in Proposals, ~Remedy!CommitsInside(proposal'[q].action)
        PROVE  /\ \A e \in Deciders : decider'[e].prop = q => decider'[e].locked /\ proposal'[q].status = "pending"
               /\ proposal'[q].status = "pending" /\ (\A e \in Deciders : ~(decider'[e].prop = q /\ decider'[e].pc = "finish"))
                  => runs'[q] <= died'[q]
    <3>1. ~Remedy!CommitsInside(proposal[q].action)
      BY <2>1, <2>5
    <3>2. CASE decider' = decider
      <4>1. q = p => \A e \in Deciders : decider[e].prop # q
        BY <2>1, <2>4, <3>1, <1>n DEF Alone, Remedy!LockFree
      <4> QED BY <2>1, <2>2, <3>1, <3>2, <4>1 DEF Alone
    <3>3. CASE /\ proposal' = proposal /\ proposal[p].status = "pending"
               /\ decider'[d].pc = "run" /\ decider'[d].prop = p /\ decider'[d].locked
               /\ \A e \in Deciders \ {d} : decider'[e] = decider[e]
      <4>1. ASSUME NEW e \in Deciders, decider'[e].prop = q
            PROVE  decider'[e].locked /\ proposal'[q].status = "pending"
        BY <3>1, <3>3, <4>1 DEF Alone
      <4>2. ASSUME \A e \in Deciders : ~(decider'[e].prop = q /\ decider'[e].pc = "finish")
            PROVE  \A e \in Deciders : ~(decider[e].prop = q /\ decider[e].pc = "finish")
        BY <2>1, <3>3, <4>2
      <4> QED BY <2>2, <3>1, <3>3, <4>1, <4>2 DEF Alone
    <3> QED BY <2>1, <3>2, <3>3
  <2> QED BY <2>3, <2>5 DEF Alone
<1>4. ASSUME NEW d \in Deciders, NEW p \in Proposals, decider[d].prop = p, Remedy!Run(d)
      PROVE  Alone' /\ Remedy!LockedRunsOnce'
  <2>1. /\ UNCHANGED <<proposal, died>> /\ decider[d].pc = "run"
        /\ decider'[d].pc = "finish" /\ decider'[d].prop = p
        /\ \A e \in Deciders \ {d} : decider'[e] = decider[e]
        /\ runs'[p] = runs[p] \/ runs'[p] = runs[p] + 1
        /\ \A q \in Proposals \ {p} : runs'[q] = runs[q]
        /\ ~Remedy!CommitsInside(proposal[p].action) => decider'[d].locked
    BY <1>4, RunDoes
  <2>2. ASSUME NEW q \in Proposals, q # p, ~Remedy!CommitsInside(proposal[q].action)
        PROVE  /\ \A e \in Deciders : decider'[e].prop = q => decider'[e].locked /\ proposal'[q].status = "pending"
               /\ proposal'[q].status = "pending" /\ (\A e \in Deciders : ~(decider'[e].prop = q /\ decider'[e].pc = "finish"))
                  => runs'[q] <= died'[q]
               /\ runs'[q] <= 1 + died'[q]
    <3>1. \A e \in Deciders : decider'[e].prop = q => decider[e].prop = q /\ decider'[e] = decider[e]
      BY <2>1, <2>2
    <3>2. \A e \in Deciders : decider[e].prop = q => decider'[e] = decider[e]
      BY <1>4, <2>1, <2>2
    <3> QED BY <2>1, <2>2, <3>1, <3>2 DEF Alone, Remedy!LockedRunsOnce
  <2>3. ASSUME ~Remedy!CommitsInside(proposal[p].action)
        PROVE  /\ \A e \in Deciders : decider'[e].prop = p => decider'[e].locked /\ proposal'[p].status = "pending"
               /\ \E e \in Deciders : decider'[e].prop = p /\ decider'[e].pc = "finish"
               /\ runs'[p] <= 1 + died'[p]
    <3>1. \A e \in Deciders : decider[e].prop = p => e = d
      BY <1>4, <2>3 DEF Alone, OneLock
    <3>2. proposal[p].status = "pending"
      BY <1>4, <2>3 DEF Alone
    <3>3. runs[p] <= died[p]
      BY <2>1, <2>3, <3>1, <3>2 DEF Alone
    <3>4. runs'[p] <= 1 + died'[p]
      BY <2>1, <3>3, <1>t
    <3> QED BY <2>1, <2>3, <3>1, <3>2, <3>4 DEF Alone
  <2>4. Alone'
    BY <2>1, <2>2, <2>3 DEF Alone
  <2>5. Remedy!LockedRunsOnce'
    BY <2>1, <2>2, <2>3 DEF Remedy!LockedRunsOnce
  <2> QED BY <2>4, <2>5
<1>5. ASSUME NEW d \in Deciders, NEW p \in Proposals, decider[d].prop = p, Remedy!Finish(d)
      PROVE  Alone' /\ Remedy!LockedRunsOnce'
  <2>1. /\ UNCHANGED <<runs, died>> /\ decider[d].pc = "finish" /\ Remedy!LockFree(p, d)
        /\ decider'[d] = Remedy!Idle /\ \A e \in Deciders \ {d} : decider'[e] = decider[e]
        /\ proposal'[p].status \in {"approved", "failed"} /\ proposal'[p].action = proposal[p].action
        /\ \A q \in Proposals \ {p} : proposal'[q] = proposal[q]
    BY <1>5, FinishDoes
  <2>2. \A q \in Proposals : proposal'[q].action = proposal[q].action
    BY <2>1
  <2>3. ASSUME NEW q \in Proposals, ~Remedy!CommitsInside(proposal[q].action)
        PROVE  /\ \A e \in Deciders : decider'[e].prop = q => decider'[e].locked /\ proposal'[q].status = "pending"
               /\ proposal'[q].status = "pending" /\ (\A e \in Deciders : ~(decider'[e].prop = q /\ decider'[e].pc = "finish"))
                  => runs'[q] <= died'[q]
    <3>1. CASE q = p
      <4>1. \A e \in Deciders : decider[e].prop = p => e = d
        BY <1>5, <2>1, <2>3, <3>1 DEF Alone, Remedy!LockFree
      <4>2. \A e \in Deciders : decider'[e].prop # p
        BY <2>1, <4>1, IdleIs, <1>n
      <4> QED BY <2>1, <3>1, <4>2
    <3>2. CASE q # p
      <4>1. \A e \in Deciders : decider'[e].prop = q => decider'[e] = decider[e]
        BY <2>1, IdleIs, <1>n
      <4>2. \A e \in Deciders : decider[e].prop = q => decider'[e] = decider[e]
        BY <1>5, <2>1, <3>2
      <4> QED BY <2>1, <2>3, <3>2, <4>1, <4>2 DEF Alone
    <3> QED BY <3>1, <3>2
  <2>4. Alone'
    BY <2>2, <2>3 DEF Alone
  <2>5. Remedy!LockedRunsOnce'
    BY <2>1, <2>2 DEF Remedy!LockedRunsOnce
  <2> QED BY <2>4, <2>5
<1>6. ASSUME NEW d \in Deciders, NEW p \in Proposals, decider[d].prop = p, Remedy!Die(d)
      PROVE  Alone' /\ Remedy!LockedRunsOnce'
  <2>1. /\ UNCHANGED <<proposal, runs>>
        /\ decider'[d] = Remedy!Idle /\ \A e \in Deciders \ {d} : decider'[e] = decider[e]
        /\ died'[p] = died[p] + 1 /\ \A q \in Proposals \ {p} : died'[q] = died[q]
    BY <1>6, DieDoes
  <2>2. \A q \in Proposals : died'[q] \in Nat /\ died[q] \in Nat /\ runs[q] \in Nat /\ died[q] <= died'[q]
    BY <2>1, <1>t
  <2>3. Remedy!LockedRunsOnce'
    <3>1. \A q \in Proposals : runs[q] <= 1 + died[q] => runs[q] <= 1 + died'[q]
      BY <2>2
    <3> QED BY <2>1, <3>1 DEF Remedy!LockedRunsOnce
  <2>4. ASSUME NEW q \in Proposals, ~Remedy!CommitsInside(proposal[q].action)
        PROVE  /\ \A e \in Deciders : decider'[e].prop = q => decider'[e].locked /\ proposal'[q].status = "pending"
               /\ proposal'[q].status = "pending" /\ (\A e \in Deciders : ~(decider'[e].prop = q /\ decider'[e].pc = "finish"))
                  => runs'[q] <= died'[q]
    <3>1. \A e \in Deciders : decider'[e].prop = q => decider'[e] = decider[e]
      BY <2>1, IdleIs, <1>n
    <3>2. CASE q = p
      <4>1. runs[p] <= 1 + died[p]
        BY <2>4, <3>2 DEF Remedy!LockedRunsOnce
      <4> QED BY <2>1, <2>2, <2>4, <3>1, <3>2, <4>1 DEF Alone
    <3>3. CASE q # p
      <4>1. \A e \in Deciders : decider[e].prop = q => decider'[e] = decider[e]
        BY <1>6, <2>1, <3>3
      <4> QED BY <2>1, <2>4, <3>1, <3>3, <4>1 DEF Alone
    <3> QED BY <3>2, <3>3
  <2>5. Alone'
    BY <2>1, <2>4 DEF Alone
  <2> QED BY <2>3, <2>5
<1> QED BY <1>1, <1>2, <1>3, <1>4, <1>5, <1>6, Steps, Zenon

LEMMA RecordingNext ==
    ASSUME Remedy!Sane, Remedy!TypeOK, Work, Unproposed, Recording, [Remedy!Next]_(Remedy!vars)
    PROVE  Recording'
<1>t. runs \in [Proposals -> Nat] /\ died \in [Proposals -> Nat]
  BY TypeOKIs
<1>1. CASE UNCHANGED Remedy!vars \/ Quiet
  <2>1. /\ UNCHANGED <<decider, runs, died>>
        /\ \A p \in Proposals : proposal'[p].status = proposal[p].status
    BY <1>1, QuietDoes DEF Remedy!vars, Quiet
  <2> QED BY <2>1 DEF Recording
<1>2. ASSUME NEW x \in Proposers, Remedy!Propose(x) PROVE Recording'
  <2>1. UNCHANGED <<decider, runs, died>>
    BY <1>2 DEF Remedy!Propose
  <2>2. \A p \in Proposals : proposal'[p] = proposal[p] \/ ~(runs[p] > 0)
    BY <1>2, ProposeDoes DEF Unproposed
  <2> QED BY <2>1, <2>2 DEF Recording
<1>3. ASSUME NEW d \in Deciders, NEW p \in Proposals, NEW approve \in BOOLEAN,
             NEW v \in Remedy!CardEvents \cup {None}, DecideFor(d, p, approve, v)
      PROVE  Recording'
  <2>1. /\ decider[d].pc = "idle"
        /\ \A q \in Proposals : proposal'[q].status = proposal[q].status \/ proposal[q].status = "pending"
        /\ decider' = decider \/ \A e \in Deciders \ {d} : decider'[e] = decider[e]
    BY <1>3, DecideDoes DEF DecideFor
  <2>2. UNCHANGED <<runs, died>>
    BY <1>3, DecideForDoes
  <2>3. \A e \in Deciders : decider[e].pc = "finish" => decider'[e] = decider[e]
    BY <2>1
  <2> QED BY <2>1, <2>2, <2>3 DEF Recording
<1>4. ASSUME NEW d \in Deciders, NEW p \in Proposals, decider[d].prop = p, Remedy!Run(d)
      PROVE  Recording'
  <2>1. /\ UNCHANGED <<proposal, died>> /\ decider[d].pc = "run"
        /\ decider'[d].pc = "finish" /\ decider'[d].prop = p
        /\ \A e \in Deciders \ {d} : decider'[e] = decider[e]
        /\ \A q \in Proposals \ {p} : runs'[q] = runs[q]
    BY <1>4, RunDoes
  <2> QED BY <2>1 DEF Recording
<1>5. ASSUME NEW d \in Deciders, NEW p \in Proposals, decider[d].prop = p, Remedy!Finish(d)
      PROVE  Recording'
  <2>1. /\ UNCHANGED <<runs, died>>
        /\ \A e \in Deciders \ {d} : decider'[e] = decider[e]
        /\ proposal'[p].status \in {"approved", "failed"}
        /\ \A q \in Proposals \ {p} : proposal'[q] = proposal[q]
    BY <1>5, FinishDoes
  <2> QED BY <1>5, <2>1 DEF Recording
<1>6. ASSUME NEW d \in Deciders, NEW p \in Proposals, decider[d].prop = p, Remedy!Die(d)
      PROVE  Recording'
  <2>1. /\ UNCHANGED <<proposal, runs>>
        /\ \A e \in Deciders \ {d} : decider'[e] = decider[e]
        /\ died'[p] = died[p] + 1 /\ \A q \in Proposals \ {p} : died'[q] = died[q]
    BY <1>6, DieDoes
  <2>2. died'[p] # 0
    BY <2>1, <1>t
  <2> QED BY <1>6, <2>1, <2>2 DEF Recording
<1> QED BY <1>1, <1>2, <1>3, <1>4, <1>5, <1>6, Steps, Zenon

-----------------------------------------------------------------------------
(* The theorems *)

LEMMA RemedyStart == ASSUME Remedy!Sane, Remedy!Init PROVE RemedyInv
<1>1. Remedy!TypeOK
  <2>1. [status |-> "none", action |-> CHOOSE a \in Actions : TRUE, left |-> 0, verify |-> ""] \in Remedy!Row
    <3>1. (CHOOSE a \in Actions : TRUE) \in Actions
      BY Zenon DEF Remedy!Sane
    <3>2. 0 \in 0 .. ProposalTTL
      BY NewTTL
    <3> DEFINE a0 == CHOOSE a \in Actions : TRUE
    <3> HIDE DEF a0
    <3>3. [status |-> "none", action |-> a0, left |-> 0, verify |-> ""] \in Remedy!Row
      BY <3>1, <3>2 DEF Remedy!Row, a0
    <3> QED BY <3>3 DEF a0
  <2>2. 0 \in 0 .. MaxDeaths
    BY DEF Remedy!Sane
  <2>3. proposal \in [Proposals -> Remedy!Row]
    BY <2>1 DEF Remedy!Init
  <2>4. proposer \in [Proposers -> Actions \cup {None}] /\ decider \in [Deciders -> Remedy!Decider]
    BY IdleIs DEF Remedy!Init
  <2>5. receipt \in [Remedy!CardEvents -> Answer] /\ readback \in SUBSET Proposals
    BY DEF Remedy!Init, Answer
  <2>6. runs \in [Proposals -> Nat] /\ died \in [Proposals -> Nat] /\ decisions \in [Remedy!CardEvents -> Nat]
    BY DEF Remedy!Init
  <2> QED BY <2>2, <2>3, <2>4, <2>5, <2>6, TypeOKIs DEF Remedy!Init
<1>2. \A d \in Deciders : decider[d] = Remedy!Idle
  BY DEF Remedy!Init
<1>3. /\ \A p \in Proposals : runs[p] = 0 /\ died[p] = 0 /\ proposal[p].status = "none"
      /\ \A v \in Remedy!CardEvents : decisions[v] = 0
  BY DEF Remedy!Init
<1>4. Work /\ OneLock
  BY <1>2, IdleIs DEF Work, OneLock
<1>5. Unproposed
  BY <1>2, <1>3, IdleIs DEF Unproposed, Remedy!Sane
<1>6. Pressed /\ Remedy!PressOnce
  BY <1>3 DEF Pressed, Remedy!PressOnce, Remedy!Sane
<1>7. Alone /\ Remedy!LockedRunsOnce
  BY <1>2, <1>3, IdleIs DEF Alone, Remedy!LockedRunsOnce, Remedy!Sane
<1>8. Recording
  BY <1>3 DEF Recording
<1> QED BY <1>1, <1>4, <1>5, <1>6, <1>7, <1>8 DEF RemedyInv

LEMMA RemedyInvNext == ASSUME Remedy!Sane, RemedyInv, [Remedy!Next]_(Remedy!vars) PROVE RemedyInv'
BY TypeNext, WorkNext, UnbornNext, PressedNext, AloneNext, RecordingNext DEF RemedyInv

LEMMA RemedyInductive == ASSUME Remedy!Sane PROVE Remedy!Spec => []RemedyInv
<1>1. Remedy!Init => RemedyInv
  BY RemedyStart
<1>2. RemedyInv /\ [Remedy!Next]_(Remedy!vars) => RemedyInv'
  BY RemedyInvNext
<1> QED BY <1>1, <1>2, PTL DEF Remedy!Spec

\* Every proposal, decider, receipt and counter keeps its type.
THEOREM RemediationTypeCorrect == ASSUME Remedy!Sane PROVE Remedy!Spec => []Remedy!TypeOK
<1>1. RemedyInv => Remedy!TypeOK
  BY DEF RemedyInv
<1> QED BY <1>1, RemedyInductive, PTL

\* A command that took effect is on record as approved or failed once nobody is
\* deciding, whoever else decided meanwhile, unless its decider died: _decide writes
\* the outcome over whatever the row says by then.
THEOREM OutcomeStays == ASSUME Remedy!Sane PROVE Remedy!Spec => []Remedy!OutcomeRecorded
<1>1. RemedyInv => Remedy!OutcomeRecorded
  BY DEF RemedyInv, Recording, Remedy!OutcomeRecorded
<1> QED BY <1>1, RemedyInductive, PTL

\* A press is acted on once however often its callback is delivered, by the receipt
\* of process_proposal_card_action; again only for a decider that died.
THEOREM PressedOnce == ASSUME Remedy!Sane PROVE Remedy!Spec => []Remedy!PressOnce
<1>1. RemedyInv => Remedy!PressOnce
  BY DEF RemedyInv
<1> QED BY <1>1, RemedyInductive, PTL

\* A command that leaves its decider's transaction alone takes effect once, by the row
\* lock of decide_proposal; again only for a decider that died.
THEOREM LockedRunOnce == ASSUME Remedy!Sane PROVE Remedy!Spec => []Remedy!LockedRunsOnce
<1>1. RemedyInv => Remedy!LockedRunsOnce
  BY DEF RemedyInv
<1> QED BY <1>1, RemedyInductive, PTL

-----------------------------------------------------------------------------
(* Together *)

\* A notice that was honoured leaves nothing older in the cache, an edit every process
\* heard of is live, and neither a cache nor a snapshot serves what was superseded longer
\* ago than its bound.
THEOREM ConfigIsFresh ==
    ASSUME ControlsSane
    PROVE  ControlsSpec => []ConfigFresh
<1>1. CacheSane /\ Settings!Sane
  BY DEF ControlsSane
<1> QED BY <1>1, ConfigTypeCorrect, NoticesHonoured, EditsAreLive, StalenessBounded, SnapshotsCatchUp,
           PTL DEF ConfigFresh, ControlsSpec

\* All that DecisionsKept says of outcomes, presses and runs, at once.
THEOREM DecisionsAreKept ==
    ASSUME ControlsSane
    PROVE  ControlsSpec => []DecisionsKept
<1>1. Remedy!Sane
  BY DEF ControlsSane
<1> QED BY <1>1, RemediationTypeCorrect, OutcomeStays, PressedOnce, LockedRunOnce,
           PTL DEF DecisionsKept, Remedy!DecisionsKept, ControlsSpec
=============================================================================
