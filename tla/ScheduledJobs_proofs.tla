------------------------- MODULE ScheduledJobs_proofs -------------------------
(***************************************************************************)
(* What holds of the scheduled jobs for any number of workers, any length  *)
(* of the interval and any number of faults and restarts: the leader, the  *)
(* marker, the missed occurrences, the repeats and the budget tiers.       *)
(***************************************************************************)
EXTENDS ScheduledJobs, TLAPS

-----------------------------------------------------------------------------
(* The inductive invariant *)

\* Which kind of run is where.
Kinds ==
    \A w \in Workers :
        /\ job[w].pc \in {"check", "claim"} => job[w].kind = "catchup"
        /\ job[w].pc \in {"next", "budget", "alert", "leave"} => job[w].kind = "regular"
        /\ (job[w].pc \in {"run", "mark"} /\ job[w].kind = "regular") => job[w].task = "report"
        /\ (job[w].kind = "catchup" /\ Active(w)) => job[w].ran < ClaimTTL
        /\ job[w].tier # 0 <=> job[w].pc = "alert"

\* Until it outlives its lock, a leader owns it, and the lock has as much left
\* as the run has not used up.
Led ==
    \A w \in Workers : (Leading(w) /\ job[w].ran < LockTTL) =>
        lock[job[w].task].owner = w /\ lock[job[w].task].left = LockTTL - job[w].ran

\* A run of an earlier occurrence shows, and what is about to be marked was sent.
Written ==
    /\ \A w \in Workers :
        /\ (Active(w) /\ job[w].old) => carried
        /\ (job[w].pc = "mark" /\ ~job[w].old) => sent > 0
    /\ MarkerMeansSent

\* A tier claimed is sent once, by the worker that claimed it.
SentOnce ==
    \A t \in 1 .. MaxTier :
        /\ told[t] + unsent[t] <= 1
        /\ t \in tiers /\ (\A w \in Workers : job[w].tier # t) => told[t] + unsent[t] = 1

\* A worker that is about to alert on a tier has claimed it, alone.
Claimed ==
    /\ \A w \in Workers : job[w].tier # 0 => job[w].tier \in tiers /\ told[job[w].tier] + unsent[job[w].tier] = 0
    /\ \A v, w \in Workers : (v # w /\ job[v].tier # 0) => job[v].tier # job[w].tier
    /\ \A t \in 1 .. MaxTier : t \notin tiers => told[t] + unsent[t] = 0
    /\ SentOnce

Running(w) == job[w].pc = "run" /\ job[w].kind = "regular"
SomeoneRuns == \E w \in Workers : Running(w)

\* The report's lock was taken as this occurrence or the last fell due; one of
\* this occurrence is its leader's unless something went wrong; and after a
\* quiet occurrence the report is sent, or dispatched, or being sent.
Explained ==
    /\ queue > 0 => clock = 0
    /\ lock["report"].owner # None => lock["report"].left \in {LockTTL - clock, Interval - clock}
    /\ (calm >= 1 /\ lock["report"].owner # None /\ lock["report"].left = LockTTL - clock) =>
          lock["report"].owner \in Workers /\ Leading(lock["report"].owner) /\ job[lock["report"].owner].task = "report"
    /\ (calm >= 2 /\ (queue = 0 \/ lock["report"].owner # None)) => (sent > 0 \/ SomeoneRuns)
    /\ MissExplained

Calm == faults = echoes /\ ~carried /\ Schedulers = 1

CatchingUp(w) == job[w].pc = "run" /\ job[w].kind = "catchup"
CaughtUp(w) == job[w].pc = "mark" /\ job[w].kind = "catchup"
Spent == sent = regular + 1 \/ \E w \in Workers : CatchingUp(w)

\* One scheduled run and one catch-up of an occurrence with which nothing goes
\* wrong: while the catch-up runs its claim lasts, and after that the marker
\* stands.
Once ==
    Calm =>
        /\ regular <= 1 /\ (queue > 0 => regular = 0)
        /\ \A w \in Workers : Running(w) => queue = 0 /\ regular = 0
        /\ \A v, w \in Workers : (Running(v) /\ Running(w)) => v = w
        /\ sent = regular \/ sent = regular + 1
        /\ \A w \in Workers : CatchingUp(w) => sent = regular
        /\ \A v, w \in Workers : (CatchingUp(v) /\ CatchingUp(w)) => v = w
        /\ \A w \in Workers : (CatchingUp(w) \/ CaughtUp(w)) => claim + job[w].ran >= ClaimTTL
        /\ Spent => \A w \in Workers : job[w].pc = "claim" => claim > 0
        /\ Spent => (marked \/ \E w \in Workers : CatchingUp(w) \/ CaughtUp(w))

\* The posts of an alert under way, and those of every tier.
Posts ==
    /\ \A w \in Workers : job[w].tier # 0 => told[job[w].tier] = 0 /\ echoed[job[w].tier] <= tries[w]
    /\ \A t \in 1 .. MaxTier : t \notin tiers => told[t] = 0 /\ echoed[t] = 0
    /\ \A t \in 1 .. MaxTier : told[t] + echoed[t] <= Attempts

IInv == TypeOK /\ Kinds /\ Led /\ Written /\ Claimed /\ Posts /\ Explained /\ Once

-----------------------------------------------------------------------------
(* Lemmas on the records *)

Pcs == {"idle", "run", "mark", "next", "budget", "alert", "leave", "check", "claim"}

\* One worker's job changes and no other's.
LEMMA Update ==
    ASSUME NEW f \in [Workers -> Job], NEW w \in Workers, NEW j \in Job, NEW g, g = [f EXCEPT ![w] = j]
    PROVE  g \in [Workers -> Job] /\ g[w] = j /\ \A u \in Workers : u # w => g[u] = f[u]
  BY Zenon

\* A job moves on: nothing of it changes but where it is.
LEMMA MovedOn ==
    ASSUME NEW r \in Job, NEW p \in Pcs, NEW j, j = [r EXCEPT !.pc = p]
    PROVE  /\ j \in Job /\ j.pc = p
           /\ j.task = r.task /\ j.kind = r.kind /\ j.old = r.old /\ j.ran = r.ran /\ j.tier = r.tier
  BY Zenon DEF Job, Pcs

\* The job a worker starts with.
LEMMA Fresh ==
    ASSUME Sane
    PROVE  /\ NoJob \in Job /\ NoJob.pc = "idle" /\ NoJob.task = "report" /\ NoJob.kind = "regular"
           /\ NoJob.old = FALSE /\ NoJob.ran = 0 /\ NoJob.tier = 0
<1>1. 0 \in 0 .. MaxRun /\ 0 \in 0 .. MaxTier
  BY SMT DEF Sane
<1>2. FALSE \in BOOLEAN
  OBVIOUS
<1>3. NoJob \in Job
  BY <1>1, <1>2, SMT DEF NoJob, Job, Tasks
<1>4. /\ NoJob.pc = "idle" /\ NoJob.task = "report" /\ NoJob.kind = "regular"
      /\ NoJob.old = FALSE /\ NoJob.ran = 0 /\ NoJob.tier = 0
  BY SMT DEF NoJob
<1>5. QED
  BY <1>3, <1>4

\* One worker's job changes; what becomes of it.
Changes(w) ==
    /\ job' \in [Workers -> Job]
    /\ \A u \in Workers : u # w => job'[u] = job[u]

Becomes(w, p, t, k, o, r, i) ==
    /\ Changes(w)
    /\ job'[w].pc = p /\ job'[w].task = t /\ job'[w].kind = k
    /\ job'[w].old = o /\ job'[w].ran = r /\ job'[w].tier = i

Moves(w, p) == Becomes(w, p, job[w].task, job[w].kind, job[w].old, job[w].ran, job[w].tier)

LEMMA StepMoves ==
    ASSUME job \in [Workers -> Job], NEW w \in Workers, NEW p \in Pcs, Step(w, p)
    PROVE  Moves(w, p)
<1> DEFINE j == [job[w] EXCEPT !.pc = p]
<1>1. job[w] \in Job
  OBVIOUS
<1>2. /\ j \in Job /\ j.pc = p
      /\ j.task = job[w].task /\ j.kind = job[w].kind /\ j.old = job[w].old
      /\ j.ran = job[w].ran /\ j.tier = job[w].tier
  BY <1>1, MovedOn
<1>3. job' = [job EXCEPT ![w] = j]
  BY DEF Step
<1> HIDE DEF j
<1>4. job' \in [Workers -> Job] /\ job'[w] = j /\ \A u \in Workers : u # w => job'[u] = job[u]
  BY <1>2, <1>3, Update
<1>5. QED
  BY <1>2, <1>4 DEF Moves, Becomes, Changes

\* A run under a lock, a job skipped, a job over, and a catch-up as a worker starts.
LEMMA StartsAfresh ==
    ASSUME Sane, job \in [Workers -> Job], NEW w \in Workers, NEW p \in Pcs
    PROVE  /\ \A t \in Tasks : job' = [job EXCEPT ![w] = [NoJob EXCEPT !.pc = p, !.task = t]]
              => Becomes(w, p, t, "regular", FALSE, 0, 0)
           /\ job' = [job EXCEPT ![w] = [NoJob EXCEPT !.pc = p]]
              => Becomes(w, p, "report", "regular", FALSE, 0, 0)
           /\ job' = [job EXCEPT ![w] = [NoJob EXCEPT !.pc = p, !.kind = "catchup"]]
              => Becomes(w, p, "report", "catchup", FALSE, 0, 0)
<1>0. /\ NoJob \in Job /\ NoJob.task = "report" /\ NoJob.kind = "regular"
      /\ NoJob.old = FALSE /\ NoJob.ran = 0 /\ NoJob.tier = 0
  BY Fresh
<1>1. ASSUME NEW t \in Tasks, job' = [job EXCEPT ![w] = [NoJob EXCEPT !.pc = p, !.task = t]]
      PROVE  Becomes(w, p, t, "regular", FALSE, 0, 0)
  <2> DEFINE j == [NoJob EXCEPT !.pc = p, !.task = t]
  <2>1. j \in Job /\ j.pc = p /\ j.task = t
    BY <1>0, Zenon DEF Job, Pcs
  <2>2. j.kind = "regular" /\ j.old = FALSE /\ j.ran = 0 /\ j.tier = 0
    BY <1>0, Zenon DEF Job, Pcs
  <2>3. job' = [job EXCEPT ![w] = j]
    BY <1>1
  <2> HIDE DEF j
  <2>4. job' \in [Workers -> Job] /\ job'[w] = j /\ \A u \in Workers : u # w => job'[u] = job[u]
    BY <2>1, <2>3, Update
  <2>5. QED
    BY <2>1, <2>2, <2>4 DEF Becomes, Changes
<1>2. ASSUME job' = [job EXCEPT ![w] = [NoJob EXCEPT !.pc = p]]
      PROVE  Becomes(w, p, "report", "regular", FALSE, 0, 0)
  <2> DEFINE j == [NoJob EXCEPT !.pc = p]
  <2>1. j \in Job /\ j.pc = p /\ j.task = "report" /\ j.kind = "regular" /\ j.old = FALSE /\ j.ran = 0 /\ j.tier = 0
    BY <1>0, MovedOn
  <2>2. job' = [job EXCEPT ![w] = j]
    BY <1>2
  <2> HIDE DEF j
  <2>3. job' \in [Workers -> Job] /\ job'[w] = j /\ \A u \in Workers : u # w => job'[u] = job[u]
    BY <2>1, <2>2, Update
  <2>4. QED
    BY <2>1, <2>3 DEF Becomes, Changes
<1>3. ASSUME job' = [job EXCEPT ![w] = [NoJob EXCEPT !.pc = p, !.kind = "catchup"]]
      PROVE  Becomes(w, p, "report", "catchup", FALSE, 0, 0)
  <2> DEFINE j == [NoJob EXCEPT !.pc = p, !.kind = "catchup"]
  <2>1. j \in Job /\ j.pc = p /\ j.kind = "catchup"
    BY <1>0, Zenon DEF Job, Pcs
  <2>2. j.task = "report" /\ j.old = FALSE /\ j.ran = 0 /\ j.tier = 0
    BY <1>0, Zenon DEF Job, Pcs
  <2>3. job' = [job EXCEPT ![w] = j]
    BY <1>3
  <2> HIDE DEF j
  <2>4. job' \in [Workers -> Job] /\ job'[w] = j /\ \A u \in Workers : u # w => job'[u] = job[u]
    BY <2>1, <2>3, Update
  <2>5. QED
    BY <2>1, <2>2, <2>4 DEF Becomes, Changes
<1>4. QED
  BY <1>1, <1>2, <1>3

-----------------------------------------------------------------------------
(* What a step leaves as it was *)

\* Something went wrong, or nothing did.
FaultOrNot == (faults' = faults /\ calm' = calm) \/ (faults < MaxFaults /\ faults' = faults + 1 /\ calm' = 0)

LEMMA KindsKept ==
    ASSUME Kinds, NEW w \in Workers, Changes(w),
           job'[w].pc \in {"check", "claim"} => job'[w].kind = "catchup",
           job'[w].pc \in {"next", "budget", "alert", "leave"} => job'[w].kind = "regular",
           (job'[w].pc \in {"run", "mark"} /\ job'[w].kind = "regular") => job'[w].task = "report",
           (job'[w].kind = "catchup" /\ job'[w].pc # "idle") => job'[w].ran < ClaimTTL,
           job'[w].tier # 0 <=> job'[w].pc = "alert"
    PROVE  Kinds'
<1> SUFFICES ASSUME NEW u \in Workers
    PROVE  /\ job'[u].pc \in {"check", "claim"} => job'[u].kind = "catchup"
           /\ job'[u].pc \in {"next", "budget", "alert", "leave"} => job'[u].kind = "regular"
           /\ (job'[u].pc \in {"run", "mark"} /\ job'[u].kind = "regular") => job'[u].task = "report"
           /\ (job'[u].kind = "catchup" /\ job'[u].pc # "idle") => job'[u].ran < ClaimTTL
           /\ job'[u].tier # 0 <=> job'[u].pc = "alert"
  BY DEF Kinds, Active
<1>1. CASE u = w
  BY <1>1 DEF Changes
<1>2. CASE u # w
  BY <1>2 DEF Changes, Kinds, Active
<1>3. QED
  BY <1>1, <1>2

LEMMA LedKept ==
    ASSUME Led, NEW w \in Workers, Changes(w),
           lock' = lock,
           (job'[w].kind = "regular" /\ job'[w].pc \notin {"idle", "next"}) => Leading(w) /\ job'[w].task = job[w].task /\ job'[w].ran = job[w].ran
    PROVE  Led'
<1> SUFFICES ASSUME NEW u \in Workers, job'[u].kind = "regular", job'[u].pc \notin {"idle", "next"}, job'[u].ran < LockTTL
    PROVE  lock[job'[u].task].owner = u /\ lock[job'[u].task].left = LockTTL - job'[u].ran
  BY DEF Led, Leading, LockTTL
<1>1. CASE u = w
  BY <1>1 DEF Changes, Led
<1>2. CASE u # w
  BY <1>2 DEF Changes, Led, Leading
<1>3. QED
  BY <1>1, <1>2

LEMMA WrittenKept ==
    ASSUME TypeOK, Written, NEW w \in Workers, Changes(w),
           carried' = carried, sent' = sent \/ sent' = sent + 1, marked' => marked \/ sent' > 0 \/ carried,
           (job'[w].pc # "idle" /\ job'[w].old = TRUE) => carried,
           (job'[w].pc = "mark" /\ job'[w].old = FALSE) => sent' > 0
    PROVE  Written'
<1>0. sent \in Nat
  BY DEF TypeOK
<1>1. ASSUME NEW u \in Workers
      PROVE  /\ (job'[u].pc # "idle" /\ job'[u].old) => carried
             /\ (job'[u].pc = "mark" /\ ~job'[u].old) => sent' > 0
  <2>1. CASE u = w
    <3>1. job'[u].old \in BOOLEAN
      BY DEF Changes, Job
    <3>2. QED
      BY <2>1, <3>1 DEF Changes
  <2>2. CASE u # w
    BY <1>0, <2>2 DEF Changes, Written, Active
  <2>3. QED
    BY <2>1, <2>2
<1>2. marked' => sent' > 0 \/ carried
  BY <1>0 DEF Written, MarkerMeansSent
<1>3. QED
  BY <1>1, <1>2 DEF Written, MarkerMeansSent, Active

LEMMA ClaimedKept ==
    ASSUME Claimed, Posts, NEW w \in Workers, Changes(w), job'[w].tier = job[w].tier,
           tries' = tries \/ (job[w].tier = 0 /\ \A u \in Workers : u # w => tries'[u] = tries[u]),
           tiers' = tiers, told' = told, echoed' = echoed, unsent' = unsent
    PROVE  Claimed' /\ Posts'
<1>1. \A u \in Workers : job'[u].tier = job[u].tier
  BY DEF Changes
<1>2. \A u \in Workers : job[u].tier # 0 => tries'[u] = tries[u]
  OBVIOUS
<1>3. Claimed'
  BY <1>1 DEF Claimed, SentOnce
<1>4. Posts'
  BY <1>1, <1>2 DEF Posts
<1>5. QED
  BY <1>3, <1>4

\* The count of the posts of one worker's send changes and no other's.
LEMMA TriesMove ==
    ASSUME Sane, tries \in [Workers -> 0 .. Attempts - 1], NEW w \in Workers,
           tries' = [tries EXCEPT ![w] = 0] \/ Again(w)
    PROVE  tries' \in [Workers -> 0 .. Attempts - 1] /\ \A u \in Workers : u # w => tries'[u] = tries[u]
<1>1. Attempts \in Nat /\ Attempts > 0 /\ tries[w] \in 0 .. Attempts - 1
  BY DEF Sane
<1>2. PICK n \in 0 .. Attempts - 1 : tries' = [tries EXCEPT ![w] = n]
  <2>1. CASE tries' = [tries EXCEPT ![w] = 0]
    <3>1. 0 \in 0 .. Attempts - 1
      BY <1>1
    <3>2. QED
      BY <2>1, <3>1
  <2>2. CASE Again(w)
    <3>1. tries[w] + 1 \in 0 .. Attempts - 1
      BY <1>1, <2>2 DEF Again
    <3>2. tries' = [tries EXCEPT ![w] = tries[w] + 1]
      BY <2>2 DEF Again
    <3>3. QED
      BY <3>1, <3>2
  <2>3. QED
    BY <2>1, <2>2
<1>3. QED
  BY <1>2

LEMMA ExplainedKept ==
    ASSUME Explained, NEW w \in Workers, Changes(w),
           clock' = clock, missed' = missed, FaultOrNot, TypeOK,
           queue' > 0 => queue > 0,
           (calm' > 0 /\ queue' = 0 /\ queue # 0) => lock'["report"].owner # None,
           lock'["report"] = lock["report"] \/ lock'["report"].owner = None,
           sent' = sent \/ sent' = sent + 1,
           (calm' > 0 /\ lock'["report"].owner = w) => (Leading(w) /\ job[w].task = "report" => job'[w].kind = "regular" /\ job'[w].pc \notin {"idle", "next"} /\ job'[w].task = "report"),
           calm' > 0 => (Running(w) => sent' > 0 \/ (job'[w].pc = "run" /\ job'[w].kind = "regular"))
    PROVE  Explained'
<1>0. sent \in Nat /\ calm \in 0 .. 3 /\ calm' \in {0, calm}
  BY DEF TypeOK, FaultOrNot
<1>1. ASSUME calm' >= 1, lock'["report"].owner # None, lock'["report"].left = LockTTL - clock
      PROVE  LET u == lock'["report"].owner
             IN  u \in Workers /\ job'[u].kind = "regular" /\ job'[u].pc \notin {"idle", "next"} /\ job'[u].task = "report"
  <2> DEFINE u == lock'["report"].owner
  <2>1. u \in Workers /\ Leading(u) /\ job[u].task = "report"
    BY <1>0, <1>1 DEF Explained
  <2>2. CASE u = w
    BY <1>0, <1>1, <2>1, <2>2 DEF Changes
  <2>3. CASE u # w
    BY <2>1, <2>3 DEF Changes, Leading
  <2>4. QED
    BY <2>2, <2>3
<1>2. ASSUME calm' >= 2, queue' = 0 \/ lock'["report"].owner # None
      PROVE  sent' > 0 \/ \E u \in Workers : job'[u].pc = "run" /\ job'[u].kind = "regular"
  <2>1. CASE sent > 0
    BY <1>0, <2>1
  <2>2. ASSUME NEW u \in Workers, Running(u)
        PROVE  sent' > 0 \/ \E x \in Workers : job'[x].pc = "run" /\ job'[x].kind = "regular"
    <3>1. CASE u = w
      BY <1>0, <1>2, <2>2, <3>1 DEF Changes
    <3>2. CASE u # w
      BY <2>2, <3>2 DEF Changes, Running
    <3>3. QED
      BY <3>1, <3>2
  <2>3. QED
    BY <1>0, <1>2, <2>1, <2>2 DEF Explained, SomeoneRuns
<1>3. missed => calm' <= 2
  BY <1>0 DEF Explained, MissExplained
<1>4. LockTTL' = LockTTL
  BY DEF LockTTL
<1>5. (queue' > 0 => clock = 0) /\ (lock'["report"].owner # None => lock'["report"].left \in {LockTTL - clock, Interval - clock})
  BY DEF Explained
<1>6. QED
  BY <1>1, <1>2, <1>3, <1>4, <1>5 DEF Explained, Leading, SomeoneRuns, Running, MissExplained

LEMMA OnceKept ==
    ASSUME Once, NEW w \in Workers, Changes(w),
           TypeOK, FaultOrNot, carried' = carried, queue' > 0 => queue > 0, queue = 0 => queue' = 0, claim' = claim, marked' = marked,
           sent' = sent, regular' = regular, echoes' = echoes,
           faults' = faults => job[w].pc \notin {"run", "mark"},
           job'[w].pc \notin {"run", "mark", "claim"}
    PROVE  Once'
<1> SUFFICES ASSUME Calm'
    PROVE  Once'
  BY DEF Once
<1>0. Calm /\ faults' = faults
  BY SMT DEF Calm, FaultOrNot, TypeOK
<1>1. ASSUME NEW u \in Workers
      PROVE  /\ (Running(u)' <=> Running(u)) /\ (CatchingUp(u)' <=> CatchingUp(u)) /\ (CaughtUp(u)' <=> CaughtUp(u))
             /\ (CatchingUp(u) \/ CaughtUp(u)) => job'[u].ran = job[u].ran
             /\ job'[u].pc = "claim" => job[u].pc = "claim"
  <2>1. CASE u = w
    BY <1>0, <2>1 DEF Changes, Running, CatchingUp, CaughtUp
  <2>2. CASE u # w
    BY <2>2 DEF Changes, Running, CatchingUp, CaughtUp
  <2>3. QED
    BY <2>1, <2>2
<1>2. Spent' <=> Spent
  BY <1>1 DEF Spent
<1>3. QED
  BY <1>0, <1>1, <1>2, Zenon DEF Once, Calm

Locks == [Tasks -> [owner : Workers \cup {None}, left : 0 .. LockTTL]]

LEMMA TypeKept ==
    ASSUME Sane, TypeOK, job' \in [Workers -> Job], lock' \in Locks, clock' = clock, queue' \in 0 .. Schedulers,
           marked' \in BOOLEAN, claim' \in 0 .. ClaimTTL, sent' \in Nat, regular' \in Nat,
           carried' = carried, missed' = missed, FaultOrNot, spend' = spend, tiers' \subseteq 1 .. MaxTier,
           tries' \in [Workers -> 0 .. Attempts - 1], echoed' \in [1 .. MaxTier -> Nat],
           echoes' = echoes \/ (echoes' = echoes + 1 /\ faults' = faults + 1),
           told' \in [1 .. MaxTier -> Nat], unsent' \in [1 .. MaxTier -> Nat], restarts' \in 0 .. MaxRestarts
    PROVE  TypeOK'
<1>1. faults' \in 0 .. MaxFaults /\ calm' \in 0 .. 3 /\ echoes' \in 0 .. faults'
  BY SMT DEF TypeOK, FaultOrNot, Sane
<1>2. Locks' = Locks /\ Job' = Job
  BY DEF Locks, LockTTL, Job
<1>3. QED
  BY <1>1, <1>2, Zenon DEF TypeOK, Locks

LEMMA Ticks ==
    ASSUME Sane
    PROVE  LockTTL \in Nat /\ LockTTL > Interval /\ Interval > 0 /\ LockTTL = Interval + Interval
  BY DEF Sane, LockTTL

\* A lock taken, and a lock given up.
LEMMA LedTaken ==
    ASSUME Sane, TypeOK, Led, NEW w \in Workers, NEW t \in Tasks, NEW p, lock[t].owner = None,
           lock' = [lock EXCEPT ![t] = [owner |-> w, left |-> LockTTL]], Becomes(w, p, t, "regular", FALSE, 0, 0)
    PROVE  /\ lock' \in Locks /\ lock'[t].owner = w /\ lock'[t].left = LockTTL
           /\ \A x \in Tasks : x # t => lock'[x] = lock[x]
           /\ Led'
<1> DEFINE l == [owner |-> w, left |-> LockTTL]
<1>0. lock \in Locks /\ job \in [Workers -> Job] /\ LockTTL \in Nat
  BY Ticks DEF TypeOK, Locks
<1>1. l \in [owner : Workers \cup {None}, left : 0 .. LockTTL] /\ l.owner = w /\ l.left = LockTTL
  BY <1>0
<1>2. lock' = [lock EXCEPT ![t] = l]
  OBVIOUS
<1> HIDE DEF l
<1>3. lock' \in Locks /\ lock'[t] = l /\ \A x \in Tasks : x # t => lock'[x] = lock[x]
  BY <1>0, <1>1, <1>2, Zenon DEF Locks
<1>4. ASSUME NEW u \in Workers, job'[u].kind = "regular", job'[u].pc \notin {"idle", "next"}, job'[u].ran < LockTTL
      PROVE  lock'[job'[u].task].owner = u /\ lock'[job'[u].task].left = LockTTL - job'[u].ran
  <2>1. CASE u = w
    BY <1>0, <1>1, <1>3, <2>1 DEF Becomes, Changes
  <2>2. CASE u # w
    <3>1. job'[u] = job[u]
      BY <2>2 DEF Becomes, Changes
    <3>2. lock[job[u].task].owner = u /\ lock[job[u].task].left = LockTTL - job[u].ran
      BY <1>4, <3>1 DEF Led, Leading
    <3>3. job[u].task \in Tasks /\ job[u].task # t
      BY <1>0, <3>2 DEF Job, Sane
    <3>4. QED
      BY <1>3, <3>1, <3>2, <3>3
  <2>3. QED
    BY <2>1, <2>2
<1>5. QED
  BY <1>1, <1>3, <1>4 DEF Led, Leading, LockTTL

LEMMA LedReleased ==
    ASSUME Sane, TypeOK, Led, NEW w \in Workers, NEW t \in Tasks, NEW p \in {"idle", "next"}, Release(w, t),
           Becomes(w, p, "report", "regular", FALSE, 0, 0)
    PROVE  /\ lock' \in Locks
           /\ \A x \in Tasks : lock'[x] = lock[x] \/ (lock[x].owner = w /\ lock'[x].owner = None)
           /\ Led'
<1> DEFINE l == [owner |-> None, left |-> 0]
<1>0. lock \in Locks /\ job \in [Workers -> Job] /\ LockTTL \in Nat
  BY Ticks DEF TypeOK, Locks
<1>1. l \in [owner : Workers \cup {None}, left : 0 .. LockTTL] /\ l.owner = None
  BY <1>0
<1>2. lock' = lock \/ (lock[t].owner = w /\ lock' = [lock EXCEPT ![t] = l])
  BY DEF Release, Free
<1> HIDE DEF l
<1>3. lock' \in Locks
  BY <1>0, <1>1, <1>2, Zenon DEF Locks
<1>4. \A x \in Tasks : lock'[x] = lock[x] \/ (lock[x].owner = w /\ lock'[x].owner = None)
  BY <1>0, <1>1, <1>2, Zenon DEF Locks
<1>5. ASSUME NEW u \in Workers, job'[u].kind = "regular", job'[u].pc \notin {"idle", "next"}, job'[u].ran < LockTTL
      PROVE  lock'[job'[u].task].owner = u /\ lock'[job'[u].task].left = LockTTL - job'[u].ran
  <2>1. u # w /\ job'[u] = job[u]
    BY <1>5 DEF Becomes, Changes
  <2>2. lock[job[u].task].owner = u /\ lock[job[u].task].left = LockTTL - job[u].ran
    BY <1>5, <2>1 DEF Led, Leading
  <2>3. job[u].task \in Tasks
    BY <1>0 DEF Job
  <2>4. QED
    BY <1>4, <2>1, <2>2, <2>3
<1>6. QED
  BY <1>3, <1>4, <1>5 DEF Led, Leading, LockTTL

-----------------------------------------------------------------------------
(* The steps *)

LEMMA StartReportStep ==
    ASSUME Sane, IInv, NEW w \in Workers, StartReport(w)
    PROVE  IInv'
<1>0. /\ job \in [Workers -> Job] /\ TypeOK /\ "report" \in Tasks /\ {"run", "next"} \subseteq Pcs
      /\ queue \in 0 .. Schedulers /\ queue > 0 /\ queue' = queue - 1 /\ Schedulers \in Nat
      /\ job[w].pc = "idle" /\ job[w].tier = 0
  BY DEF IInv, TypeOK, Tasks, Pcs, StartReport, Kinds, Sane
<1>1. CASE /\ lock["report"].owner = None
           /\ lock' = [lock EXCEPT !["report"] = [owner |-> w, left |-> LockTTL]]
           /\ job' = [job EXCEPT ![w] = [NoJob EXCEPT !.pc = "run", !.task = "report"]]
           /\ faults' = faults /\ calm' = calm
  <2>1. Becomes(w, "run", "report", "regular", FALSE, 0, 0)
    BY <1>0, <1>1, StartsAfresh
  <2>2. /\ lock' \in Locks /\ lock'["report"].owner = w /\ lock'["report"].left = LockTTL /\ Led'
    BY <1>0, <1>1, <2>1, LedTaken DEF IInv
  <2>3. TypeOK'
    <3>1. queue' \in 0 .. Schedulers /\ job' \in [Workers -> Job] /\ FaultOrNot
      BY <1>0, <1>1, <2>1 DEF Becomes, Changes, FaultOrNot
    <3>2. QED
      BY <1>0, <2>2, <3>1, TypeKept, Zenon DEF TypeOK, StartReport, reportVars, budgetVars
  <2>4. Kinds'
    BY <2>1, KindsKept DEF IInv, Becomes
  <2>5. Written'
    BY <1>0, <2>1, WrittenKept DEF IInv, Becomes, StartReport, reportVars
  <2>6. Claimed' /\ Posts'
    BY <1>0, <2>1, ClaimedKept DEF IInv, Becomes, StartReport, budgetVars
  <2>7. Explained'
    <3>1. /\ job'[w].pc = "run" /\ job'[w].kind = "regular" /\ job'[w].task = "report"
          /\ clock = 0 /\ clock' = clock /\ missed' = missed
      BY <1>0, <2>1 DEF Becomes, Changes, IInv, Explained, StartReport
    <3>2. Running(w)' /\ Leading(w)'
      BY <3>1 DEF Running, Leading
    <3>3. MissExplained'
      BY <1>1, <3>1 DEF IInv, Explained, MissExplained
    <3>4. LockTTL' = LockTTL /\ LockTTL \in Nat /\ LockTTL - 0 = LockTTL
      BY Ticks DEF LockTTL
    <3>5. QED
      BY <2>2, <3>1, <3>2, <3>3, <3>4 DEF Explained, SomeoneRuns
  <2>8. Once'
    <3> SUFFICES ASSUME Calm'
        PROVE  Once'
      BY DEF Once
    <3>0. /\ Calm /\ carried' = carried /\ claim' = claim /\ marked' = marked /\ sent' = sent /\ regular' = regular
      BY <1>1 DEF Calm, StartReport, reportVars
    <3>1. queue' = 0 /\ regular = 0 /\ \A u \in Workers : ~Running(u)
      BY <1>0, <3>0 DEF IInv, Once, Calm
    <3>2. ASSUME NEW u \in Workers
          PROVE  /\ Running(u)' => u = w
                 /\ (CatchingUp(u)' <=> CatchingUp(u)) /\ (CaughtUp(u)' <=> CaughtUp(u))
                 /\ (CatchingUp(u) \/ CaughtUp(u)) => job'[u].ran = job[u].ran
                 /\ job'[u].pc = "claim" => job[u].pc = "claim"
      <4>1. CASE u = w
        BY <1>0, <2>1, <4>1 DEF Becomes, Changes, Running, CatchingUp, CaughtUp
      <4>2. CASE u # w
        BY <2>1, <3>1, <4>2 DEF Becomes, Changes, Running, CatchingUp, CaughtUp
      <4>3. QED
        BY <4>1, <4>2
    <3>3. Spent' <=> Spent
      BY <3>0, <3>2 DEF Spent
    <3>4. QED
      BY <3>0, <3>1, <3>2, <3>3, Zenon DEF IInv, Once, Calm
  <2>9. QED
    BY <2>2, <2>3, <2>4, <2>5, <2>6, <2>7, <2>8 DEF IInv
<1>2. CASE /\ lock' = lock
           /\ job' = [job EXCEPT ![w] = [NoJob EXCEPT !.pc = "next"]]
           /\ (lock["report"].owner # None /\ faults' = faults /\ calm' = calm) \/ Fault
  <2>1. Becomes(w, "next", "report", "regular", FALSE, 0, 0)
    BY <1>0, <1>2, StartsAfresh
  <2>2. FaultOrNot
    BY <1>2 DEF FaultOrNot, Fault
  <2>3. TypeOK'
    <3>1. queue' \in 0 .. Schedulers /\ job' \in [Workers -> Job] /\ lock' \in Locks
      BY <1>0, <1>2, <2>1 DEF Becomes, Changes, TypeOK, Locks
    <3>2. QED
      BY <1>0, <2>2, <3>1, TypeKept, Zenon DEF TypeOK, StartReport, reportVars, budgetVars
  <2>4. Kinds' /\ Led'
    BY <1>2, <2>1, KindsKept, LedKept DEF IInv, Becomes
  <2>5. Written'
    BY <1>0, <2>1, WrittenKept DEF IInv, Becomes, StartReport, reportVars
  <2>6. Claimed' /\ Posts'
    BY <1>0, <2>1, ClaimedKept DEF IInv, Becomes, StartReport, budgetVars
  <2>7. Explained'
    BY <1>0, <1>2, <2>1, <2>2, ExplainedKept DEF IInv, Becomes, StartReport, reportVars, Fault, Leading, Running
  <2>8. Once'
    BY <1>0, <1>2, <2>1, <2>2, OnceKept DEF IInv, Becomes, StartReport, reportVars
  <2>9. QED
    BY <2>3, <2>4, <2>5, <2>6, <2>7, <2>8 DEF IInv
<1>3. QED
  BY <1>1, <1>2 DEF StartReport, Acquire

LEMMA StartBudgetStep ==
    ASSUME Sane, IInv, NEW w \in Workers, StartBudget(w)
    PROVE  IInv'
<1>0. /\ job \in [Workers -> Job] /\ TypeOK /\ "report" \in Tasks /\ "budget" \in Tasks /\ "report" # "budget" /\ {"idle", "budget"} \subseteq Pcs
      /\ job[w].pc = "next" /\ job[w].tier = 0 /\ queue' = queue /\ queue \in 0 .. Schedulers
  BY DEF IInv, TypeOK, Tasks, Pcs, StartBudget, Kinds
<1>1. CASE /\ lock["budget"].owner = None
           /\ lock' = [lock EXCEPT !["budget"] = [owner |-> w, left |-> LockTTL]]
           /\ job' = [job EXCEPT ![w] = [NoJob EXCEPT !.pc = "budget", !.task = "budget"]]
           /\ faults' = faults /\ calm' = calm
  <2>1. Becomes(w, "budget", "budget", "regular", FALSE, 0, 0) /\ FaultOrNot
    BY <1>0, <1>1, StartsAfresh DEF FaultOrNot
  <2>2. lock' \in Locks /\ lock'["report"] = lock["report"] /\ Led'
    <3>1. Led
      BY DEF IInv
    <3>2. lock' \in Locks /\ Led' /\ \A x \in Tasks : x # "budget" => lock'[x] = lock[x]
      BY <1>0, <1>1, <2>1, <3>1, LedTaken, Zenon
    <3>3. QED
      BY <1>0, <3>2
  <2>3. TypeOK'
    <3>1. job' \in [Workers -> Job]
      BY <2>1 DEF Becomes, Changes
    <3>2. QED
      BY <1>0, <2>1, <2>2, <3>1, TypeKept, Zenon DEF TypeOK, StartBudget, reportVars, budgetVars
  <2>4. Kinds'
    BY <2>1, KindsKept DEF IInv, Becomes
  <2>5. Written'
    BY <1>0, <2>1, WrittenKept DEF IInv, Becomes, StartBudget, reportVars
  <2>6. Claimed' /\ Posts'
    BY <1>0, <2>1, ClaimedKept DEF IInv, Becomes, StartBudget, budgetVars
  <2>7. Explained'
    BY <1>0, <2>1, <2>2, ExplainedKept DEF IInv, Becomes, StartBudget, reportVars, Leading, Running
  <2>8. Once'
    BY <1>0, <2>1, OnceKept DEF IInv, Becomes, StartBudget, reportVars
  <2>9. QED
    BY <2>2, <2>3, <2>4, <2>5, <2>6, <2>7, <2>8 DEF IInv
<1>2. CASE /\ lock' = lock
           /\ job' = [job EXCEPT ![w] = [NoJob EXCEPT !.pc = "idle"]]
           /\ (faults' = faults /\ calm' = calm) \/ Fault
  <2>1. Becomes(w, "idle", "report", "regular", FALSE, 0, 0) /\ FaultOrNot
    BY <1>0, <1>2, StartsAfresh DEF FaultOrNot, Fault
  <2>3. TypeOK'
    <3>1. job' \in [Workers -> Job] /\ lock' \in Locks
      BY <1>0, <1>2, <2>1 DEF Becomes, Changes, TypeOK, Locks
    <3>2. QED
      BY <1>0, <2>1, <3>1, TypeKept, Zenon DEF TypeOK, StartBudget, reportVars, budgetVars
  <2>4. Kinds' /\ Led'
    BY <1>2, <2>1, KindsKept, LedKept DEF IInv, Becomes
  <2>5. Written'
    BY <1>0, <2>1, WrittenKept DEF IInv, Becomes, StartBudget, reportVars
  <2>6. Claimed' /\ Posts'
    BY <1>0, <2>1, ClaimedKept DEF IInv, Becomes, StartBudget, budgetVars
  <2>7. Explained'
    BY <1>0, <1>2, <2>1, ExplainedKept DEF IInv, Becomes, StartBudget, reportVars, Leading, Running
  <2>8. Once'
    BY <1>0, <1>2, <2>1, OnceKept DEF IInv, Becomes, StartBudget, reportVars
  <2>9. QED
    BY <2>3, <2>4, <2>5, <2>6, <2>7, <2>8 DEF IInv
<1>3. QED
  BY <1>1, <1>2 DEF StartBudget, Acquire

\* A release takes away only the lock of its own run.
LEMMA LeaveStep ==
    ASSUME Sane, IInv, NEW w \in Workers, Leave(w)
    PROVE  IInv'
<1> DEFINE p == IF job[w].task = "report" THEN "next" ELSE "idle"
<1>0. /\ job \in [Workers -> Job] /\ TypeOK /\ "report" \in Tasks /\ p \in {"idle", "next"} /\ p \in Pcs
      /\ job[w].pc = "leave" /\ job[w].tier = 0 /\ queue' = queue /\ queue \in 0 .. Schedulers
      /\ job[w].task \in Tasks /\ None # w
  BY DEF IInv, TypeOK, Tasks, Pcs, Leave, Kinds, Job, Sane
<1>1. job' = [job EXCEPT ![w] = [NoJob EXCEPT !.pc = p]]
  BY DEF Leave
<1> HIDE DEF p
<1>2. Becomes(w, p, "report", "regular", FALSE, 0, 0)
  BY <1>0, <1>1, StartsAfresh
<1>3. FaultOrNot
  BY DEF FaultOrNot, Fault, Leave
<1>4. /\ lock' \in Locks /\ Led'
      /\ lock'["report"] = lock["report"] \/ (lock'["report"].owner = None)
      /\ (calm' > 0 /\ lock'["report"].owner = w) => ~(Leading(w) /\ job[w].task = "report")
  <2>1. CASE Release(w, job[w].task)
    <3>1. /\ lock' \in Locks /\ Led'
          /\ \A x \in Tasks : lock'[x] = lock[x] \/ (lock[x].owner = w /\ lock'[x].owner = None)
      BY <1>0, <1>2, <2>1, LedReleased DEF IInv
    <3>2. ~(lock'["report"].owner = w /\ job[w].task = "report")
      BY <1>0, <2>1 DEF Release, Free, TypeOK
    <3>3. QED
      BY <1>0, <3>1, <3>2
  <2>2. CASE Fault /\ lock' = lock
    BY <1>0, <1>2, <2>2, LedKept DEF IInv, Becomes, Fault, TypeOK, Locks
  <2>3. QED
    BY <2>1, <2>2 DEF Leave
<1>5. TypeOK'
  <2>1. job' \in [Workers -> Job]
    BY <1>2 DEF Becomes, Changes
  <2>2. QED
    BY <1>0, <1>3, <1>4, <2>1, TypeKept, Zenon DEF TypeOK, Leave, reportVars, budgetVars
<1>6. Kinds'
  BY <1>0, <1>2, KindsKept DEF IInv, Becomes
<1>7. Written'
  BY <1>0, <1>2, WrittenKept DEF IInv, Becomes, Leave, reportVars
<1>8. Claimed' /\ Posts'
  BY <1>0, <1>2, ClaimedKept DEF IInv, Becomes, Leave, budgetVars
<1>9. Explained'
  BY <1>0, <1>2, <1>3, <1>4, ExplainedKept DEF IInv, Becomes, Leave, reportVars, Running
<1>10. Once'
  BY <1>0, <1>2, <1>3, OnceKept DEF IInv, Becomes, Leave, reportVars
<1>11. QED
  BY <1>4, <1>5, <1>6, <1>7, <1>8, <1>9, <1>10 DEF IInv

LEMMA SendReportStep ==
    ASSUME Sane, IInv, NEW w \in Workers, SendReport(w)
    PROVE  IInv'
<1>0. /\ job \in [Workers -> Job] /\ TypeOK /\ {"mark", "leave", "idle"} \subseteq Pcs /\ job[w] \in Job
      /\ job[w].pc = "run" /\ job[w].tier = 0 /\ queue' = queue /\ queue \in 0 .. Schedulers
      /\ AfterReport(w) \in {"leave", "idle"} /\ (AfterReport(w) = "leave" <=> job[w].kind = "regular")
      /\ sent \in Nat /\ regular \in Nat /\ echoes \in 0 .. faults /\ faults \in Nat /\ lock' = lock /\ lock \in Locks
  BY DEF IInv, TypeOK, Pcs, SendReport, Kinds, AfterReport, Locks
<1>t. ASSUME tries' = [tries EXCEPT ![w] = 0] \/ Again(w)
      PROVE  tries' \in [Workers -> 0 .. Attempts - 1] /\ \A u \in Workers : u # w => tries'[u] = tries[u]
  BY <1>t, TriesMove DEF IInv, TypeOK
<1>1. CASE /\ sent' = sent + 1
           /\ regular' = IF job[w].kind = "regular" THEN regular + 1 ELSE regular
           /\ Step(w, "mark") /\ tries' = [tries EXCEPT ![w] = 0]
           /\ echoes' = echoes /\ faults' = faults /\ calm' = calm
  <2>1. Moves(w, "mark") /\ FaultOrNot
    BY <1>0, <1>1, StepMoves DEF FaultOrNot
  <2>2. TypeOK'
    <3>1. job' \in [Workers -> Job] /\ sent' \in Nat /\ regular' \in Nat
      BY <1>0, <1>1, <2>1 DEF Moves, Becomes, Changes
    <3>2. QED
      BY <1>0, <1>1, <1>t, <2>1, <3>1, TypeKept, Zenon DEF TypeOK, SendReport, budgetVars
  <2>3. Kinds' /\ Led'
    BY <1>0, <2>1, KindsKept, LedKept DEF IInv, Moves, Becomes, Kinds, Leading, Active
  <2>4. Written'
    <3>1. /\ carried' = carried /\ marked' = marked /\ sent' > 0
          /\ job'[w].old = job[w].old /\ Changes(w)
      BY <1>0, <1>1, <2>1 DEF Moves, Becomes, SendReport
    <3>2. job[w].old = TRUE => carried
      BY <1>0 DEF IInv, Written, Active
    <3>3. QED
      BY <1>1, <3>1, <3>2, WrittenKept DEF IInv
  <2>5. Claimed' /\ Posts'
    BY <1>0, <1>1, <1>t, <2>1, ClaimedKept DEF IInv, Moves, Becomes, SendReport, budgetVars
  <2>6. Explained'
    BY <1>0, <1>1, <2>1, ExplainedKept DEF IInv, Moves, Becomes, SendReport, Leading
  <2>7. Once'
    <3> SUFFICES ASSUME Calm'
        PROVE  Once'
      BY DEF Once
    <3>0. Calm /\ carried' = carried /\ claim' = claim /\ marked' = marked
      BY <1>1 DEF Calm, SendReport
    <3>1. ASSUME NEW u \in Workers
          PROVE  /\ Running(u)' <=> Running(u) /\ u # w
                 /\ CatchingUp(u)' <=> CatchingUp(u) /\ u # w
                 /\ (CatchingUp(u) \/ CaughtUp(u))' <=> (CatchingUp(u) \/ CaughtUp(u))
                 /\ job'[u].ran = job[u].ran
                 /\ job'[u].pc = "claim" => job[u].pc = "claim"
      <4>1. CASE u = w
        BY <1>0, <2>1, <4>1 DEF Moves, Becomes, Running, CatchingUp, CaughtUp
      <4>2. CASE u # w
        BY <2>1, <4>2 DEF Moves, Becomes, Changes, Running, CatchingUp, CaughtUp
      <4>3. QED
        BY <4>1, <4>2
    <3>2. CASE job[w].kind = "regular"
      <4>1. /\ Running(w) /\ regular' = regular + 1 /\ regular' = 1 /\ queue = 0
            /\ \A u \in Workers : ~Running(u)'
        BY <1>0, <1>1, <3>0, <3>1, <3>2 DEF Running, IInv, Once
      <4>2. sent' = regular' + 1 <=> sent = regular + 1
        BY <1>0, <1>1, <4>1
      <4>3. \A u \in Workers : CatchingUp(u)' <=> CatchingUp(u)
        BY <3>1, <3>2 DEF CatchingUp
      <4>4. Spent' <=> Spent
        BY <4>2, <4>3 DEF Spent
      <4>5. QED
        BY <1>0, <1>1, <3>0, <3>1, <4>1, <4>2, <4>3, <4>4 DEF IInv, Once
    <3>3. CASE job[w].kind = "catchup"
      <4>1. /\ CatchingUp(w) /\ sent = regular /\ regular' = regular /\ sent' = regular' + 1
            /\ \A u \in Workers : ~CatchingUp(u)'
        BY <1>0, <1>1, <3>0, <3>1, <3>3 DEF CatchingUp, IInv, Once
      <4>2. \A u \in Workers : Running(u)' <=> Running(u)
        BY <3>1, <3>3 DEF Running
      <4>3. Spent /\ (CatchingUp(w) \/ CaughtUp(w))'
        BY <3>1, <4>1 DEF Spent
      <4>4. QED
        BY <1>0, <1>1, <3>0, <3>1, <4>1, <4>2, <4>3 DEF IInv, Once
    <3>4. QED
      BY <1>0, <3>2, <3>3 DEF Job
  <2>8. QED
    BY <2>2, <2>3, <2>4, <2>5, <2>6, <2>7 DEF IInv
<1>2. CASE /\ Fault /\ sent' = sent /\ regular' = regular
           /\ echoes' \in {echoes, echoes + 1}
           /\ Again(w) \/ tries' = [tries EXCEPT ![w] = 0]
           /\ job' = job \/ Step(w, AfterReport(w))
  <2>0. faults' = faults + 1 /\ FaultOrNot
    BY <1>2 DEF FaultOrNot, Fault
  <2>1. PICK p \in {"run", "leave", "idle"} : Moves(w, p) /\ (p = "run" \/ p = AfterReport(w))
    <3>1. CASE job' = job
      BY <1>0, <3>1 DEF Moves, Becomes, Changes
    <3>2. CASE Step(w, AfterReport(w))
      BY <1>0, <3>2, StepMoves
    <3>3. QED
      BY <1>2, <3>1, <3>2
  <2>2. TypeOK'
    <3>1. job' \in [Workers -> Job]
      BY <2>1 DEF Moves, Becomes, Changes
    <3>2. echoes' = echoes \/ (echoes' = echoes + 1 /\ faults' = faults + 1)
      BY <1>2, <2>0
    <3>3. QED
      BY <1>0, <1>2, <1>t, <2>0, <3>1, <3>2, TypeKept, Zenon DEF TypeOK, SendReport, budgetVars
  <2>3. Kinds' /\ Led'
    BY <1>0, <2>1, KindsKept, LedKept DEF IInv, Moves, Becomes, Kinds, Leading, Active
  <2>4. Written'
    <3>1. job'[w].pc # "mark" /\ job'[w].old = job[w].old /\ Changes(w) /\ carried' = carried /\ marked' = marked
      BY <2>1 DEF Moves, Becomes, SendReport
    <3>2. job[w].old = TRUE => carried
      BY <1>0 DEF IInv, Written, Active
    <3>3. QED
      BY <1>2, <3>1, <3>2, WrittenKept DEF IInv
  <2>5. Claimed' /\ Posts'
    BY <1>0, <1>2, <1>t, <2>1, ClaimedKept DEF IInv, Moves, Becomes, SendReport, budgetVars
  <2>6. Explained'
    BY <1>0, <1>2, <2>0, <2>1, ExplainedKept DEF IInv, Moves, Becomes, SendReport, Fault
  <2>7. Once'
    <3> SUFFICES ASSUME Calm'
        PROVE  Once'
      BY DEF Once
    <3>0. Calm /\ carried' = carried /\ claim' = claim /\ marked' = marked
      BY <1>0, <1>2, <2>0 DEF Calm, SendReport
    <3>1. ASSUME NEW u \in Workers
          PROVE  /\ Running(u)' => Running(u)
                 /\ CatchingUp(u)' => CatchingUp(u)
                 /\ u # w => (CatchingUp(u)' <=> CatchingUp(u))
                 /\ CaughtUp(u)' <=> CaughtUp(u)
                 /\ job'[u].ran = job[u].ran
                 /\ job'[u].pc = "claim" => job[u].pc = "claim"
      <4>1. CASE u = w
        BY <1>0, <2>1, <4>1 DEF Moves, Becomes, Running, CatchingUp, CaughtUp
      <4>2. CASE u # w
        BY <2>1, <4>2 DEF Moves, Becomes, Changes, Running, CatchingUp, CaughtUp
      <4>3. QED
        BY <4>1, <4>2
    <3>2. Spent' => Spent
      BY <1>2, <3>1 DEF Spent
    <3>3. Spent' => (marked \/ \E u \in Workers : (CatchingUp(u) \/ CaughtUp(u))')
      <4> SUFFICES ASSUME Spent'
          PROVE  marked \/ \E u \in Workers : (CatchingUp(u) \/ CaughtUp(u))'
        OBVIOUS
      <4>1. CASE \E u \in Workers : CatchingUp(u)'
        BY <4>1
      <4>2. CASE sent = regular + 1
        <5>1. ~CatchingUp(w)
          BY <1>0, <3>0, <4>2 DEF IInv, Once
        <5>2. QED
          BY <3>0, <3>1, <3>2, <5>1 DEF IInv, Once
      <4>3. QED
        BY <1>2, <4>1, <4>2 DEF Spent
    <3>4. QED
      BY <1>0, <1>2, <3>0, <3>1, <3>2, <3>3 DEF IInv, Once
  <2>8. QED
    BY <2>2, <2>3, <2>4, <2>5, <2>6, <2>7 DEF IInv
<1>3. QED
  BY <1>1, <1>2 DEF SendReport, GiveUp

\* Only a sent report is marked, and the marker takes over from the claim.
LEMMA RecordStep ==
    ASSUME Sane, IInv, NEW w \in Workers, RecordReportSent(w)
    PROVE  IInv'
<1>0. /\ job \in [Workers -> Job] /\ TypeOK /\ {"leave", "idle"} \subseteq Pcs /\ job[w] \in Job
      /\ job[w].pc = "mark" /\ job[w].tier = 0 /\ queue' = queue /\ queue \in 0 .. Schedulers
      /\ AfterReport(w) \in {"leave", "idle"} /\ (AfterReport(w) = "leave" <=> job[w].kind = "regular")
      /\ sent' = sent /\ regular' = regular /\ echoes' = echoes /\ tries' = tries /\ lock' = lock /\ lock \in Locks /\ carried' = carried /\ claim' = claim
      /\ Step(w, AfterReport(w)) /\ AfterReport(w) \in Pcs
  BY DEF IInv, TypeOK, Pcs, RecordReportSent, Kinds, AfterReport, Locks
<1>1. Moves(w, AfterReport(w))
  BY <1>0, StepMoves
<1>2. FaultOrNot
  BY DEF RecordReportSent, FaultOrNot, Fault
<1>3. marked' \in BOOLEAN /\ (marked' => marked \/ job[w].kind = "regular" \/ ~job[w].old)
  <2>1. marked' = (job[w].kind = "regular" \/ ~job[w].old) \/ marked' = marked
    BY DEF RecordReportSent
  <2>2. marked \in BOOLEAN
    BY <1>0 DEF TypeOK
  <2>3. CASE marked' = marked
    BY <2>2, <2>3
  <2>4. CASE marked' = (job[w].kind = "regular" \/ ~job[w].old)
    <3>1. (job[w].kind = "regular" \/ ~job[w].old) \in BOOLEAN
      BY Zenon
    <3>2. marked' \in BOOLEAN
      BY <2>4, <3>1, Zenon
    <3>3. marked' => job[w].kind = "regular" \/ ~job[w].old
      BY <2>4, Zenon
    <3>4. QED
      BY <3>2, <3>3, Zenon
  <2>5. QED
    BY <2>1, <2>3, <2>4, Zenon
<1>4. TypeOK'
  <2>1. job' \in [Workers -> Job]
    BY <1>1 DEF Moves, Becomes, Changes
  <2>2. QED
    BY <1>0, <1>2, <1>3, <2>1, TypeKept, Zenon DEF TypeOK, RecordReportSent, budgetVars
<1>5. Kinds' /\ Led'
  BY <1>0, <1>1, KindsKept, LedKept DEF IInv, Moves, Becomes, Kinds, Leading, Active
<1>6. Written'
  <2>1. job[w].old \in BOOLEAN /\ (job[w].old => carried) /\ (~job[w].old => sent > 0)
    BY <1>0 DEF IInv, Written, Active, Job
  <2>2. marked' => (marked \/ sent' > 0 \/ carried)
    BY <1>0, <1>3, <2>1
  <2>3. job'[w].old = job[w].old /\ job'[w].pc # "mark" /\ Changes(w)
    BY <1>0, <1>1 DEF Moves, Becomes
  <2>4. QED
    BY <1>0, <2>1, <2>2, <2>3, WrittenKept DEF IInv
<1>7. Claimed' /\ Posts'
  BY <1>0, <1>1, ClaimedKept DEF IInv, Moves, Becomes, RecordReportSent, budgetVars
<1>8. Explained'
  BY <1>0, <1>1, <1>2, ExplainedKept DEF IInv, Moves, Becomes, RecordReportSent, Leading, Running
<1>9. Once'
  <2> SUFFICES ASSUME Calm'
      PROVE  Once'
    BY DEF Once
  <2>1. Calm /\ faults' = faults
    BY <1>0, <1>2 DEF Calm, FaultOrNot, TypeOK
  <2>2. marked' = TRUE
    <3>1. ~carried /\ job[w].old \in BOOLEAN /\ faults' # faults + 1
      BY <1>0, <2>1 DEF Calm, Job, TypeOK
    <3>2. ~job[w].old
      BY <1>0, <3>1 DEF IInv, Written, Active
    <3>3. QED
      BY <3>1, <3>2 DEF RecordReportSent, Fault
  <2>3. ASSUME NEW u \in Workers
        PROVE  /\ Running(u)' <=> Running(u)
               /\ CatchingUp(u)' <=> CatchingUp(u)
               /\ (CatchingUp(u) \/ CaughtUp(u))' => (CatchingUp(u) \/ CaughtUp(u))
               /\ job'[u].ran = job[u].ran
               /\ job'[u].pc = "claim" => job[u].pc = "claim"
    <3>1. CASE u = w
      BY <1>0, <1>1, <3>1 DEF Moves, Becomes, Running, CatchingUp, CaughtUp
    <3>2. CASE u # w
      BY <1>1, <3>2 DEF Moves, Becomes, Changes, Running, CatchingUp, CaughtUp
    <3>3. QED
      BY <3>1, <3>2
  <2>4. Spent' <=> Spent
    BY <1>0, <2>3 DEF Spent
  <2>5. QED
    BY <1>0, <2>1, <2>2, <2>3, <2>4 DEF IInv, Once
<1>10. QED
  BY <1>4, <1>5, <1>6, <1>7, <1>8, <1>9 DEF IInv

LEMMA LastSentFireStep ==
    ASSUME Sane, IInv, NEW w \in Workers, LastSentFire(w)
    PROVE  IInv'
<1>0. /\ job \in [Workers -> Job] /\ TypeOK /\ "idle" \in Pcs /\ "claim" \in Pcs /\ job[w] \in Job
      /\ job[w].pc = "check" /\ job[w].kind = "catchup" /\ job[w].tier = 0 /\ queue' = queue /\ queue \in 0 .. Schedulers
      /\ sent' = sent /\ regular' = regular /\ echoes' = echoes /\ tries' = tries /\ lock' = lock /\ lock \in Locks /\ carried' = carried /\ claim' = claim
      /\ marked' = marked /\ claim \in 0 .. ClaimTTL
  BY DEF IInv, TypeOK, Pcs, LastSentFire, Kinds, Locks, reportVars
<1>1. PICK p \in {"idle", "claim"} : Step(w, p) /\ ((~marked /\ faults' = faults) \/ p = "idle" \/ faults' = faults + 1)
  BY DEF LastSentFire, Fault
<1>2. Moves(w, p) /\ p \in Pcs
  BY <1>0, <1>1, StepMoves
<1>3. FaultOrNot
  BY DEF LastSentFire, FaultOrNot, Fault
<1>4. TypeOK'
  <2>1. job' \in [Workers -> Job]
    BY <1>2 DEF Moves, Becomes, Changes
  <2>2. QED
    BY <1>0, <1>3, <2>1, TypeKept, Zenon DEF TypeOK, LastSentFire, budgetVars
<1>5. Kinds' /\ Led'
  BY <1>0, <1>1, <1>2, KindsKept, LedKept DEF IInv, Moves, Becomes, Kinds, Leading, Active
<1>6. Written'
  <2>1. job[w].old = TRUE => carried
    BY <1>0 DEF IInv, Written, Active
  <2>2. job'[w].old = job[w].old /\ job'[w].pc # "mark" /\ Changes(w)
    BY <1>0, <1>1, <1>2 DEF Moves, Becomes
  <2>3. QED
    BY <1>0, <2>1, <2>2, WrittenKept DEF IInv
<1>7. Claimed' /\ Posts'
  BY <1>0, <1>2, ClaimedKept DEF IInv, Moves, Becomes, LastSentFire, budgetVars
<1>8. Explained'
  BY <1>0, <1>2, <1>3, ExplainedKept DEF IInv, Moves, Becomes, LastSentFire, Leading, Running
<1>9. Once'
  <2> SUFFICES ASSUME Calm'
      PROVE  Once'
    BY DEF Once
  <2>1. Calm /\ faults' = faults /\ faults' # faults + 1
    BY <1>0, <1>3 DEF Calm, FaultOrNot, TypeOK
  <2>2. ASSUME NEW u \in Workers
        PROVE  /\ Running(u)' <=> Running(u)
               /\ CatchingUp(u)' <=> CatchingUp(u)
               /\ CaughtUp(u)' <=> CaughtUp(u)
               /\ job'[u].ran = job[u].ran
               /\ job'[u].pc = "claim" => job[u].pc = "claim" \/ p = "claim"
    <3>1. CASE u = w
      BY <1>0, <1>1, <1>2, <3>1 DEF Moves, Becomes, Running, CatchingUp, CaughtUp
    <3>2. CASE u # w
      BY <1>2, <3>2 DEF Moves, Becomes, Changes, Running, CatchingUp, CaughtUp
    <3>3. QED
      BY <3>1, <3>2
  <2>3. Spent' <=> Spent
    BY <1>0, <2>2 DEF Spent
  <2>4. ASSUME Spent, p = "claim"
        PROVE  claim > 0
    <3>1. ~marked
      BY <1>1, <2>1, <2>4
    <3>2. PICK u \in Workers : CatchingUp(u) \/ CaughtUp(u)
      BY <2>1, <2>4, <3>1 DEF IInv, Once
    <3>3. claim + job[u].ran >= ClaimTTL /\ job[u].ran < ClaimTTL
      BY <2>1, <3>2 DEF IInv, Once, Kinds, CatchingUp, CaughtUp, Active
    <3>4. job[u].ran \in Nat /\ ClaimTTL \in Nat /\ claim \in Nat
      BY <1>0 DEF Job, Sane
    <3>5. QED
      BY <3>3, <3>4
  <2>5. QED
    BY <1>0, <2>1, <2>2, <2>3, <2>4 DEF IInv, Once
<1>10. QED
  BY <1>4, <1>5, <1>6, <1>7, <1>8, <1>9 DEF IInv

\* A claim taken while no other catch-up can be under way.
LEMMA ClaimCatchupStep ==
    ASSUME Sane, IInv, NEW w \in Workers, ClaimCatchup(w)
    PROVE  IInv'
<1>0. /\ job \in [Workers -> Job] /\ TypeOK /\ "idle" \in Pcs /\ "run" \in Pcs /\ job[w] \in Job
      /\ job[w].pc = "claim" /\ job[w].kind = "catchup" /\ job[w].tier = 0 /\ queue' = queue /\ queue \in 0 .. Schedulers
      /\ sent' = sent /\ regular' = regular /\ echoes' = echoes /\ tries' = tries /\ lock' = lock /\ lock \in Locks /\ carried' = carried
      /\ marked' = marked /\ claim \in Nat /\ ClaimTTL \in Nat /\ job[w].ran \in Nat
  <2>1. /\ job \in [Workers -> Job] /\ TypeOK /\ job[w].pc = "claim" /\ queue \in 0 .. Schedulers /\ lock \in Locks
        /\ claim \in Nat /\ ClaimTTL \in Nat /\ "idle" \in Pcs /\ "run" \in Pcs
    <3>1. TypeOK
      BY DEF IInv
    <3>2. QED
      BY <3>1, SMTT(30) DEF TypeOK, Pcs, ClaimCatchup, Locks, Sane
  <2>2. job[w] \in Job /\ job[w].ran \in Nat
    BY <2>1 DEF Job
  <2>3. job[w].kind = "catchup" /\ job[w].tier = 0
    BY <2>1 DEF IInv, Kinds
  <2>4. QED
    BY <2>1, <2>2, <2>3 DEF ClaimCatchup
<1>1. PICK p \in {"idle", "run"} :
        /\ Step(w, p)
        /\ \/ p = "idle" /\ claim' = claim
           \/ /\ p = "run" /\ (claim = 0 \/ job[w].old) /\ claim' = IF job[w].old THEN claim ELSE ClaimTTL
              /\ faults' = faults
  BY DEF ClaimCatchup
<1>2. Moves(w, p) /\ p \in Pcs
  BY <1>0, <1>1, StepMoves
<1>3. FaultOrNot
  BY DEF ClaimCatchup, FaultOrNot, Fault
<1>4. TypeOK'
  <2>1. job' \in [Workers -> Job] /\ claim' \in 0 .. ClaimTTL
    BY <1>0, <1>1, <1>2 DEF Moves, Becomes, Changes, TypeOK
  <2>2. QED
    BY <1>0, <1>3, <2>1, TypeKept, Zenon DEF TypeOK, ClaimCatchup, budgetVars
<1>5. Kinds' /\ Led'
  BY <1>0, <1>1, <1>2, KindsKept, LedKept DEF IInv, Moves, Becomes, Kinds, Leading, Active
<1>6. Written'
  <2>1. job[w].old = TRUE => carried
    BY <1>0 DEF IInv, Written, Active
  <2>2. job'[w].old = job[w].old /\ job'[w].pc # "mark" /\ Changes(w)
    BY <1>0, <1>1, <1>2 DEF Moves, Becomes
  <2>3. QED
    BY <1>0, <2>1, <2>2, WrittenKept DEF IInv
<1>7. Claimed' /\ Posts'
  BY <1>0, <1>2, ClaimedKept DEF IInv, Moves, Becomes, ClaimCatchup, budgetVars
<1>8. Explained'
  BY <1>0, <1>2, <1>3, ExplainedKept DEF IInv, Moves, Becomes, ClaimCatchup, Leading, Running
<1>9. Once'
  <2> SUFFICES ASSUME Calm'
      PROVE  Once'
    BY DEF Once
  <2>1. Calm /\ faults' = faults /\ ~job[w].old
    <3>1. Calm /\ faults' = faults
      BY <1>0, <1>3 DEF Calm, FaultOrNot, TypeOK
    <3>2. QED
      BY <1>0, <3>1 DEF Calm, IInv, Written, Active
  <2>2. \A u \in Workers : u # w => job'[u] = job[u]
    BY <1>2 DEF Moves, Becomes, Changes
  <2>3. job'[w].pc = p /\ job'[w].kind = "catchup" /\ job'[w].ran = job[w].ran
    BY <1>0, <1>2 DEF Moves, Becomes
  <2>4. \A u \in Workers : job'[u].ran = job[u].ran /\ (Running(u)' <=> Running(u)) /\ (CaughtUp(u)' <=> CaughtUp(u))
    BY <1>0, <2>2, <2>3 DEF Running, CaughtUp
  <2>5. CASE p = "idle"
    <3>1. claim' = claim
      BY <1>1, <2>5
    <3>2. \A u \in Workers : (CatchingUp(u)' <=> CatchingUp(u)) /\ (job'[u].pc = "claim" => job[u].pc = "claim")
      BY <1>0, <2>2, <2>3, <2>5 DEF CatchingUp
    <3>3. Spent' <=> Spent
      BY <1>0, <3>2 DEF Spent
    <3>4. QED
      BY <1>0, <2>1, <2>4, <3>1, <3>2, <3>3 DEF IInv, Once
  <2>6. CASE p = "run"
    <3>1. claim = 0 /\ claim' = ClaimTTL /\ ClaimTTL > 0
      BY <1>1, <2>1, <2>6 DEF Sane
    <3>2. ~Spent
      BY <1>0, <2>1, <3>1 DEF IInv, Once
    <3>3. sent = regular /\ \A u \in Workers : ~CatchingUp(u)
      BY <2>1, <3>2 DEF Spent, IInv, Once
    <3>4. \A u \in Workers : CatchingUp(u)' <=> u = w
      BY <2>2, <2>3, <2>6, <3>3 DEF CatchingUp
    <3>5. \A u \in Workers : CaughtUp(u) => job'[u].ran \in Nat /\ claim' + job'[u].ran >= ClaimTTL
      BY <1>0, <2>4, <3>1 DEF Job
    <3>6. QED
      BY <1>0, <2>1, <2>3, <2>4, <3>1, <3>3, <3>4, <3>5 DEF IInv, Once
  <2>7. QED
    BY <2>5, <2>6
<1>10. QED
  BY <1>4, <1>5, <1>6, <1>7, <1>8, <1>9 DEF IInv

LEMMA TierMoves ==
    ASSUME job \in [Workers -> Job], NEW w \in Workers, NEW p \in Pcs, NEW i \in 0 .. MaxTier,
           job' = [job EXCEPT ![w] = [job[w] EXCEPT !.pc = p, !.tier = i]]
    PROVE  Becomes(w, p, job[w].task, job[w].kind, job[w].old, job[w].ran, i)
<1> DEFINE j == [job[w] EXCEPT !.pc = p, !.tier = i]
<1>1. job[w] \in Job
  OBVIOUS
<1>2. j \in Job /\ j.pc = p /\ j.tier = i
  BY <1>1, Zenon DEF Job, Pcs
<1>3. j.task = job[w].task /\ j.kind = job[w].kind /\ j.old = job[w].old /\ j.ran = job[w].ran
  BY <1>1, Zenon DEF Job, Pcs
<1>4. job' = [job EXCEPT ![w] = j]
  OBVIOUS
<1> HIDE DEF j
<1>5. job' \in [Workers -> Job] /\ job'[w] = j /\ \A u \in Workers : u # w => job'[u] = job[u]
  <2>1. j \in Job
    BY <1>2
  <2>2. QED
    BY <2>1, <1>4, Update
<1>6. QED
  BY <1>2, <1>3, <1>5 DEF Becomes, Changes

LEMMA ClaimTierStep ==
    ASSUME Sane, IInv, NEW w \in Workers, ClaimBudgetTier(w)
    PROVE  IInv'
<1>0. /\ job \in [Workers -> Job] /\ TypeOK /\ "alert" \in Pcs /\ "leave" \in Pcs /\ job[w] \in Job
      /\ job[w].pc = "budget" /\ job[w].kind = "regular" /\ job[w].tier = 0 /\ queue' = queue /\ queue \in 0 .. Schedulers
      /\ sent' = sent /\ regular' = regular /\ echoes' = echoes /\ tries' = tries /\ lock' = lock /\ lock \in Locks /\ carried' = carried
      /\ marked' = marked /\ claim' = claim /\ spend \in 0 .. MaxTier /\ tiers \subseteq 1 .. MaxTier
      /\ told' = told /\ echoed' = echoed /\ unsent' = unsent
  BY DEF IInv, TypeOK, Pcs, ClaimBudgetTier, Kinds, Locks, Sane, reportVars
<1>1. FaultOrNot
  BY DEF ClaimBudgetTier, FaultOrNot, Fault
<1>2. PICK p \in {"alert", "leave"}, i \in 0 .. MaxTier :
        /\ Becomes(w, p, job[w].task, job[w].kind, job[w].old, job[w].ran, i)
        /\ \/ p = "leave" /\ i = 0 /\ tiers' = tiers
           \/ p = "alert" /\ i \in (1 .. MaxTier) \ tiers /\ tiers' = tiers \cup {i}
  <2>1. CASE /\ spend \in (1 .. MaxTier) \ tiers /\ tiers' = tiers \cup {spend}
             /\ job' = [job EXCEPT ![w].pc = "alert", ![w].tier = spend]
    <3>1. job' = [job EXCEPT ![w] = [job[w] EXCEPT !.pc = "alert", !.tier = spend]]
      BY <2>1
    <3>2. Becomes(w, "alert", job[w].task, job[w].kind, job[w].old, job[w].ran, spend)
      BY <1>0, <3>1, TierMoves
    <3>3. QED
      BY <1>0, <2>1, <3>2
  <2>2. CASE Step(w, "leave") /\ tiers' = tiers
    <3>1. Moves(w, "leave") /\ 0 \in 0 .. MaxTier
      BY <1>0, <2>2, StepMoves DEF Sane
    <3>2. Becomes(w, "leave", job[w].task, job[w].kind, job[w].old, job[w].ran, 0)
      BY <1>0, <3>1 DEF Moves
    <3>3. QED
      BY <2>2, <3>1, <3>2
  <2>3. QED
    BY <2>1, <2>2 DEF ClaimBudgetTier
<1>3. TypeOK'
  <2>1. job' \in [Workers -> Job] /\ tiers' \subseteq 1 .. MaxTier
    BY <1>0, <1>2 DEF Becomes, Changes
  <2>2. QED
    BY <1>0, <1>1, <2>1, TypeKept, Zenon DEF TypeOK, ClaimBudgetTier
<1>4. Kinds' /\ Led'
  <2>1. i # 0 <=> p = "alert"
    BY <1>2
  <2>2. QED
    BY <1>0, <1>2, <2>1, KindsKept, LedKept DEF IInv, Becomes, Leading
<1>5. Written'
  <2>1. job[w].old = TRUE => carried
    BY <1>0 DEF IInv, Written, Active
  <2>2. job'[w].old = job[w].old /\ job'[w].pc # "mark" /\ Changes(w)
    BY <1>0, <1>2 DEF Becomes
  <2>3. QED
    BY <1>0, <2>1, <2>2, WrittenKept DEF IInv
<1>6. Claimed'
  <2>1. CASE tiers' = tiers /\ i = 0
    BY <1>0, <1>2, <2>1, ClaimedKept DEF IInv, Becomes
  <2>2. CASE i \in (1 .. MaxTier) \ tiers /\ tiers' = tiers \cup {i}
    <3>1. /\ told[i] + unsent[i] = 0 /\ i # 0 /\ job'[w].tier = i
          /\ \A u \in Workers : u # w => job'[u].tier = job[u].tier /\ job[u].tier # i
      BY <1>0, <1>2, <2>2 DEF IInv, Claimed, Becomes, Changes
    <3>2. \A v \in Workers : job'[v].tier # 0 => job'[v].tier \in tiers' /\ told[job'[v].tier] + unsent[job'[v].tier] = 0
      BY <2>2, <3>1 DEF IInv, Claimed
    <3>3. \A v, u \in Workers : (v # u /\ job'[v].tier # 0) => job'[v].tier # job'[u].tier
      BY <3>1 DEF IInv, Claimed
    <3>4. \A x \in 1 .. MaxTier : x \notin tiers' => told[x] + unsent[x] = 0
      BY <2>2 DEF IInv, Claimed
    <3>5. ASSUME NEW x \in 1 .. MaxTier
          PROVE  /\ told[x] + unsent[x] <= 1
                 /\ (x \in tiers' /\ (\A u \in Workers : job'[u].tier # x)) => told[x] + unsent[x] = 1
      <4>1. CASE x = i
        BY <3>1, <4>1
      <4>2. CASE x # i
        <5>1. told[x] + unsent[x] <= 1
          BY DEF IInv, Claimed, SentOnce
        <5>2. ASSUME x \in tiers', \A u \in Workers : job'[u].tier # x
              PROVE  told[x] + unsent[x] = 1
          <6>1. x \in tiers /\ \A u \in Workers : job[u].tier # x
            BY <1>0, <2>2, <3>1, <4>2, <5>2
          <6>2. QED
            BY <6>1 DEF IInv, Claimed, SentOnce
        <5>3. QED
          BY <5>1, <5>2
      <4>3. QED
        BY <4>1, <4>2
    <3>6. QED
      BY <1>0, <3>2, <3>3, <3>4, <3>5, Zenon DEF Claimed, SentOnce
  <2>3. QED
    BY <1>2, <2>1, <2>2
<1>p. Posts'
  <2>0. told' = told /\ echoed' = echoed /\ tries' = tries
    BY <1>0
  <2>1. \A u \in Workers : u # w => job'[u].tier = job[u].tier
    BY <1>2 DEF Becomes, Changes
  <2>2. CASE i = 0 /\ tiers' = tiers
    BY <1>2, <2>0, <2>1, <2>2 DEF IInv, Posts, Becomes
  <2>3. CASE i \in (1 .. MaxTier) \ tiers /\ tiers' = tiers \cup {i}
    <3>1. told[i] = 0 /\ echoed[i] = 0 /\ tries[w] \in Nat
      BY <1>0, <2>3 DEF IInv, Posts, TypeOK
    <3>2. QED
      BY <1>2, <2>0, <2>1, <2>3, <3>1 DEF IInv, Posts, Becomes
  <2>4. QED
    BY <1>2, <2>2, <2>3
<1>7. Explained'
  BY <1>0, <1>1, <1>2, ExplainedKept DEF IInv, Becomes, ClaimBudgetTier, Leading, Running
<1>8. Once'
  BY <1>0, <1>1, <1>2, OnceKept DEF IInv, Becomes
<1>9. QED
  BY <1>3, <1>4, <1>5, <1>6, <1>p, <1>7, <1>8 DEF IInv

\* An alert out, or one lost: its tier counts once.
LEMMA TierDone ==
    ASSUME TypeOK, Claimed, NEW w \in Workers, Changes(w), job'[w].tier = 0, job[w].tier # 0, tiers' = tiers,
           \/ told' = [told EXCEPT ![job[w].tier] = @ + 1] /\ unsent' = unsent
           \/ unsent' = [unsent EXCEPT ![job[w].tier] = @ + 1] /\ told' = told
    PROVE  told' \in [1 .. MaxTier -> Nat] /\ unsent' \in [1 .. MaxTier -> Nat] /\ Claimed'
<1> DEFINE i == job[w].tier
<1>0. /\ told \in [1 .. MaxTier -> Nat] /\ unsent \in [1 .. MaxTier -> Nat] /\ tiers \subseteq 1 .. MaxTier
      /\ i \in tiers /\ told[i] + unsent[i] = 0 /\ i # 0
      /\ \A u \in Workers : u # w => job'[u].tier = job[u].tier /\ job[u].tier # i
  BY DEF TypeOK, Claimed, Changes
<1>1. told' \in [1 .. MaxTier -> Nat] /\ unsent' \in [1 .. MaxTier -> Nat]
  BY <1>0
<1>2. /\ told'[i] + unsent'[i] = 1
      /\ \A x \in 1 .. MaxTier : x # i => told'[x] = told[x] /\ unsent'[x] = unsent[x]
  <2>1. i \in 1 .. MaxTier /\ told[i] \in Nat /\ unsent[i] \in Nat
    BY <1>0
  <2>2. CASE told' = [told EXCEPT ![i] = @ + 1] /\ unsent' = unsent
    BY <1>0, <2>1, <2>2
  <2>3. CASE unsent' = [unsent EXCEPT ![i] = @ + 1] /\ told' = told
    BY <1>0, <2>1, <2>3
  <2>4. QED
    BY <2>2, <2>3
<1> HIDE DEF i
<1>3. \A v \in Workers : job'[v].tier # 0 => job'[v].tier \in tiers /\ told'[job'[v].tier] + unsent'[job'[v].tier] = 0
  <2> SUFFICES ASSUME NEW v \in Workers, job'[v].tier # 0
      PROVE  job'[v].tier \in tiers /\ told'[job'[v].tier] + unsent'[job'[v].tier] = 0
    OBVIOUS
  <2>1. v # w /\ job'[v].tier = job[v].tier /\ job[v].tier # i
    BY <1>0
  <2>2. job[v].tier \in tiers /\ told[job[v].tier] + unsent[job[v].tier] = 0
    BY <2>1 DEF Claimed
  <2>3. job[v].tier \in 1 .. MaxTier
    BY <1>0, <2>2
  <2>4. QED
    BY <1>2, <2>1, <2>2, <2>3
<1>4. \A v, u \in Workers : (v # u /\ job'[v].tier # 0) => job'[v].tier # job'[u].tier
  BY <1>0 DEF Claimed
<1>5. \A x \in 1 .. MaxTier : x \notin tiers => told'[x] + unsent'[x] = 0
  BY <1>0, <1>2 DEF Claimed
<1>6. ASSUME NEW x \in 1 .. MaxTier
      PROVE  /\ told'[x] + unsent'[x] <= 1
             /\ (x \in tiers /\ (\A u \in Workers : job'[u].tier # x)) => told'[x] + unsent'[x] = 1
  <2>1. CASE x = i
    BY <1>2, <2>1
  <2>2. CASE x # i
    <3>1. told'[x] + unsent'[x] <= 1
      BY <1>2, <2>2 DEF Claimed, SentOnce
    <3>2. ASSUME x \in tiers, \A u \in Workers : job'[u].tier # x
          PROVE  told'[x] + unsent'[x] = 1
      <4>1. \A u \in Workers : job[u].tier # x
        BY <1>0, <2>2, <3>2 DEF i
      <4>2. QED
        BY <1>2, <2>2, <3>2, <4>1 DEF Claimed, SentOnce
    <3>3. QED
      BY <3>1, <3>2
  <2>3. QED
    BY <2>1, <2>2
<1>7. QED
  BY <1>1, <1>3, <1>4, <1>5, <1>6, Zenon DEF Claimed, SentOnce

\* A post of an alert is one of its send's, which ends with its last.
LEMMA PostsMade ==
    ASSUME Sane, TypeOK, Posts, NEW w \in Workers, job[w].tier # 0, Changes(w), tiers' = tiers,
           tiers \subseteq 1 .. MaxTier, job[w].tier \in tiers,
           \A u \in Workers : u # w => job[u].tier # job[w].tier,
           \/ /\ told' = [told EXCEPT ![job[w].tier] = @ + 1] /\ echoed' = echoed
              /\ job'[w].tier = 0 /\ tries' = [tries EXCEPT ![w] = 0]
           \/ /\ told' = told /\ (echoed' = echoed \/ echoed' = [echoed EXCEPT ![job[w].tier] = @ + 1])
              /\ \/ job'[w].tier = job[w].tier /\ Again(w)
                 \/ job'[w].tier = 0 /\ tries' = [tries EXCEPT ![w] = 0]
    PROVE  /\ tries' \in [Workers -> 0 .. Attempts - 1] /\ echoed' \in [1 .. MaxTier -> Nat]
           /\ Posts'
<1> DEFINE i == job[w].tier
<1>0. /\ told \in [1 .. MaxTier -> Nat] /\ echoed \in [1 .. MaxTier -> Nat] /\ i \in 1 .. MaxTier
      /\ tries \in [Workers -> 0 .. Attempts - 1] /\ Attempts \in Nat \ {0}
      /\ told[i] = 0 /\ echoed[i] <= tries[w] /\ tries[w] \in 0 .. Attempts - 1 /\ echoed[i] \in Nat
  BY DEF TypeOK, Sane, Posts
<1>2. tries' \in [Workers -> 0 .. Attempts - 1] /\ \A u \in Workers : u # w => tries'[u] = tries[u]
  BY <1>0, TriesMove
<1>3. echoed' \in [1 .. MaxTier -> Nat]
  BY <1>0
<1>4. \A x \in 1 .. MaxTier : x # i => told'[x] = told[x] /\ echoed'[x] = echoed[x]
  BY <1>0
<1>5. told'[i] + echoed'[i] <= Attempts
  <2>1. CASE told' = [told EXCEPT ![i] = @ + 1] /\ echoed' = echoed
    BY <1>0, <2>1
  <2>2. CASE told' = told /\ (echoed' = echoed \/ echoed' = [echoed EXCEPT ![i] = @ + 1])
    <3>1. echoed'[i] = echoed[i] \/ echoed'[i] = echoed[i] + 1
      BY <1>0, <2>2
    <3>2. told'[i] = 0
      BY <1>0, <2>2
    <3> HIDE DEF i
    <3>3. QED
      BY <1>0, <3>1, <3>2
  <2>3. QED
    BY <2>1, <2>2
<1>6. job'[w].tier # 0 => job'[w].tier = i /\ told'[i] = 0 /\ echoed'[i] <= tries'[w]
  <2> SUFFICES ASSUME job'[w].tier # 0
      PROVE  job'[w].tier = i /\ told'[i] = 0 /\ echoed'[i] <= tries'[w]
    OBVIOUS
  <2>1. /\ told' = told /\ job'[w].tier = i /\ tries' = [tries EXCEPT ![w] = @ + 1]
        /\ (echoed' = echoed \/ echoed' = [echoed EXCEPT ![i] = @ + 1])
    BY DEF Again
  <2>2. echoed'[i] = echoed[i] \/ echoed'[i] = echoed[i] + 1
    BY <1>0, <2>1
  <2>3. tries'[w] = tries[w] + 1 /\ told'[i] = 0 /\ job'[w].tier = i
    BY <1>0, <2>1
  <2> HIDE DEF i
  <2>4. QED
    BY <1>0, <2>2, <2>3
<1>7. \A u \in Workers : u # w => job'[u].tier = job[u].tier /\ job[u].tier # i
  BY DEF Changes
<1>8. i \in tiers
  OBVIOUS
<1> HIDE DEF i
<1>9. \A u \in Workers : job'[u].tier # 0 => told'[job'[u].tier] = 0 /\ echoed'[job'[u].tier] <= tries'[u]
  <2> SUFFICES ASSUME NEW u \in Workers, job'[u].tier # 0
      PROVE  told'[job'[u].tier] = 0 /\ echoed'[job'[u].tier] <= tries'[u]
    OBVIOUS
  <2>1. CASE u = w
    BY <1>6, <2>1
  <2>2. CASE u # w
    <3>1. job'[u].tier = job[u].tier /\ job[u].tier # i /\ job[u].tier \in 1 .. MaxTier
      BY <1>7, <2>2 DEF TypeOK, Job
    <3>2. QED
      BY <1>2, <1>4, <2>2, <3>1 DEF Posts
  <2>3. QED
    BY <2>1, <2>2
<1>10. \A x \in 1 .. MaxTier : x \notin tiers => told'[x] = 0 /\ echoed'[x] = 0
  BY <1>4, <1>8 DEF Posts
<1>11. \A x \in 1 .. MaxTier : told'[x] + echoed'[x] <= Attempts
  BY <1>4, <1>5 DEF Posts
<1>12. QED
  BY <1>2, <1>3, <1>9, <1>10, <1>11 DEF Posts

LEMMA SendAlertStep ==
    ASSUME Sane, IInv, NEW w \in Workers, SendBudgetAlert(w)
    PROVE  IInv'
<1>0. /\ job \in [Workers -> Job] /\ TypeOK /\ "leave" \in Pcs /\ job[w] \in Job
      /\ job[w].pc = "alert" /\ job[w].kind = "regular" /\ job[w].tier # 0 /\ queue' = queue /\ queue \in 0 .. Schedulers
      /\ sent' = sent /\ regular' = regular /\ echoes' = echoes /\ lock' = lock /\ lock \in Locks /\ carried' = carried
      /\ marked' = marked /\ claim' = claim /\ tiers' = tiers /\ 0 \in 0 .. MaxTier
      /\ told \in [1 .. MaxTier -> Nat] /\ unsent \in [1 .. MaxTier -> Nat] /\ tiers \subseteq 1 .. MaxTier
  <2>1. /\ job \in [Workers -> Job] /\ TypeOK /\ job[w].pc = "alert" /\ queue \in 0 .. Schedulers /\ lock \in Locks
        /\ told \in [1 .. MaxTier -> Nat] /\ unsent \in [1 .. MaxTier -> Nat] /\ tiers \subseteq 1 .. MaxTier
    BY DEF IInv, TypeOK, SendBudgetAlert, Locks
  <2>2. job[w].kind = "regular" /\ job[w].tier # 0
    BY <2>1 DEF IInv, Kinds
  <2>3. "leave" \in Pcs /\ 0 \in 0 .. MaxTier
    BY DEF Pcs, Sane
  <2>4. QED
    BY <2>1, <2>2, <2>3 DEF SendBudgetAlert, reportVars
<1>1. FaultOrNot
  BY DEF SendBudgetAlert, FaultOrNot, Fault
<1> DEFINE over == [job EXCEPT ![w].pc = "leave", ![w].tier = 0]
<1>2. PICK p \in {"alert", "leave"} :
        \/ /\ p = "leave" /\ job' = over /\ unsent' = unsent
           /\ told' = [told EXCEPT ![job[w].tier] = @ + 1] /\ echoed' = echoed
           /\ tries' = [tries EXCEPT ![w] = 0]
        \/ /\ told' = told /\ (echoed' = echoed \/ echoed' = [echoed EXCEPT ![job[w].tier] = @ + 1])
           /\ p = "leave" /\ job' = over /\ tries' = [tries EXCEPT ![w] = 0]
           /\ unsent' = [unsent EXCEPT ![job[w].tier] = @ + 1]
        \/ /\ told' = told /\ (echoed' = echoed \/ echoed' = [echoed EXCEPT ![job[w].tier] = @ + 1])
           /\ p = "alert" /\ job' = job /\ unsent' = unsent /\ Again(w)
  BY DEF SendBudgetAlert, GiveUp
<1>3. Becomes(w, p, job[w].task, job[w].kind, job[w].old, job[w].ran, IF p = "leave" THEN 0 ELSE job[w].tier)
  <2>1. CASE p = "leave"
    <3>1. job' = [job EXCEPT ![w] = [job[w] EXCEPT !.pc = "leave", !.tier = 0]]
      BY <1>0, <1>2, <2>1
    <3>2. QED
      BY <1>0, <2>1, <3>1, TierMoves
  <2>2. CASE p = "alert"
    <3>1. job' = job
      BY <1>2, <2>2
    <3>2. QED
      BY <1>0, <2>2, <3>1 DEF Becomes, Changes
  <2>3. QED
    BY <2>1, <2>2
<1> HIDE DEF over
<1>4. /\ job[w].tier \in tiers /\ \A u \in Workers : u # w => job[u].tier # job[w].tier
      /\ Changes(w) /\ (p = "leave" => job'[w].tier = 0) /\ (p = "alert" => job'[w].tier = job[w].tier)
  BY <1>0, <1>3 DEF IInv, Claimed, Becomes
<1>5. tries' \in [Workers -> 0 .. Attempts - 1] /\ echoed' \in [1 .. MaxTier -> Nat] /\ Posts'
  <2>1. Posts
    BY DEF IInv
  <2>2. QED
    BY <1>0, <1>2, <1>4, <2>1, PostsMade
<1>6. told' \in [1 .. MaxTier -> Nat] /\ unsent' \in [1 .. MaxTier -> Nat] /\ Claimed'
  <2>1. CASE p = "leave"
    BY <1>0, <1>2, <1>4, <2>1, TierDone DEF IInv
  <2>2. CASE p = "alert"
    <3>1. told' = told /\ unsent' = unsent /\ \A u \in Workers : job'[u].tier = job[u].tier
      BY <1>2, <1>4, <2>2 DEF Changes
    <3>2. QED
      BY <1>0, <3>1 DEF IInv, Claimed, SentOnce
  <2>3. QED
    BY <2>1, <2>2
<1>7. TypeOK'
  <2>1. job' \in [Workers -> Job]
    BY <1>3 DEF Becomes, Changes
  <2>2. QED
    BY <1>0, <1>1, <1>5, <1>6, <2>1, TypeKept, Zenon DEF TypeOK, SendBudgetAlert
<1>8. Kinds' /\ Led'
  <2>1. (job'[w].tier # 0 <=> job'[w].pc = "alert") /\ job'[w].pc = p
    BY <1>0, <1>3, <1>4 DEF Becomes
  <2>2. QED
    BY <1>0, <1>3, <2>1, KindsKept, LedKept DEF IInv, Becomes, Leading
<1>9. Written'
  <2>1. job[w].old = TRUE => carried
    BY <1>0 DEF IInv, Written, Active
  <2>2. job'[w].old = job[w].old /\ job'[w].pc # "mark" /\ Changes(w)
    BY <1>0, <1>3 DEF Becomes
  <2>3. QED
    BY <1>0, <2>1, <2>2, WrittenKept DEF IInv
<1>10. Explained'
  BY <1>0, <1>1, <1>3, ExplainedKept DEF IInv, Becomes, SendBudgetAlert, Leading, Running
<1>11. Once'
  BY <1>0, <1>1, <1>3, OnceKept DEF IInv, Becomes
<1>12. QED
  BY <1>5, <1>6, <1>7, <1>8, <1>9, <1>10, <1>11 DEF IInv

LEMMA RestartStep ==
    ASSUME Sane, IInv, NEW w \in Workers, Restart(w)
    PROVE  IInv'
<1>0. /\ job \in [Workers -> Job] /\ TypeOK /\ "check" \in Pcs /\ job[w] \in Job
      /\ (job[w].tier # 0 <=> job[w].pc = "alert") /\ queue' = queue /\ queue \in 0 .. Schedulers
      /\ sent' = sent /\ regular' = regular /\ echoes' = echoes /\ lock' = lock /\ lock \in Locks /\ carried' = carried
      /\ marked' = marked /\ claim' = claim /\ tiers' = tiers /\ told' = told /\ echoed' = echoed /\ faults \in Nat /\ ClaimTTL > 0
      /\ job' = [job EXCEPT ![w] = [NoJob EXCEPT !.pc = "check", !.kind = "catchup"]]
  <2>1. /\ job \in [Workers -> Job] /\ TypeOK /\ queue \in 0 .. Schedulers /\ lock \in Locks
        /\ faults \in Nat /\ ClaimTTL > 0
    BY DEF IInv, TypeOK, Locks, Sane
  <2>2. job[w].tier # 0 <=> job[w].pc = "alert"
    BY DEF IInv, Kinds
  <2>3. "check" \in Pcs
    BY DEF Pcs
  <2>4. QED
    BY <2>1, <2>2, <2>3 DEF Restart, reportVars
<1>1. /\ FaultOrNot /\ (job[w].pc # "idle" => calm' = 0 /\ faults' # faults)
      /\ restarts' \in 0 .. MaxRestarts
  <2>1. restarts \in 0 .. MaxRestarts /\ MaxRestarts \in Nat
    BY <1>0 DEF TypeOK, Sane
  <2>2. CASE job[w].pc = "idle"
    BY <2>1, <2>2 DEF Restart, FaultOrNot
  <2>3. CASE job[w].pc # "idle"
    BY <1>0, <2>1, <2>3 DEF Restart, FaultOrNot, Fault
  <2>4. QED
    BY <2>2, <2>3
<1>2. Becomes(w, "check", "report", "catchup", FALSE, 0, 0)
  BY <1>0, StartsAfresh
<1>t. tries' \in [Workers -> 0 .. Attempts - 1] /\ \A u \in Workers : u # w => tries'[u] = tries[u]
  BY <1>0, TriesMove DEF Restart, TypeOK
<1>3. told' \in [1 .. MaxTier -> Nat] /\ unsent' \in [1 .. MaxTier -> Nat] /\ Claimed' /\ Posts'
  <2>1. CASE job[w].pc = "alert"
    <3>1. told' \in [1 .. MaxTier -> Nat] /\ unsent' \in [1 .. MaxTier -> Nat] /\ Claimed'
      BY <1>0, <1>2, <2>1, TierDone DEF IInv, Becomes, Restart
    <3>2. \A u \in Workers : job'[u].tier # 0 => u # w /\ job'[u].tier = job[u].tier /\ tries'[u] = tries[u]
      BY <1>0, <1>2, <1>t DEF Becomes, Changes
    <3>3. Posts'
      BY <1>0, <3>2 DEF IInv, Posts
    <3>4. QED
      BY <3>1, <3>3
  <2>2. CASE job[w].pc # "alert"
    BY <1>0, <1>2, <1>t, <2>2, ClaimedKept DEF IInv, Becomes, Restart, TypeOK
  <2>3. QED
    BY <2>1, <2>2
<1>4. TypeOK'
  <2>1. job' \in [Workers -> Job]
    BY <1>2 DEF Becomes, Changes
  <2>2. QED
    BY <1>0, <1>1, <1>3, <1>t, <2>1, TypeKept, Zenon DEF TypeOK, Restart
<1>5. Kinds' /\ Led'
  BY <1>0, <1>2, KindsKept, LedKept DEF IInv, Becomes
<1>6. Written'
  BY <1>0, <1>2, WrittenKept DEF IInv, Becomes
<1>7. Explained'
  BY <1>0, <1>1, <1>2, ExplainedKept DEF IInv, Becomes, Restart, Leading, Running
<1>8. Once'
  BY <1>0, <1>1, <1>2, OnceKept DEF IInv, Becomes
<1>9. QED
  BY <1>3, <1>4, <1>5, <1>6, <1>7, <1>8 DEF IInv

-----------------------------------------------------------------------------
(* Time *)

LEMMA AgedJobs ==
    ASSUME Sane, TypeOK, TimeMayPass, NEW fire \in BOOLEAN, job' = Aged(fire)
    PROVE  /\ job' \in [Workers -> Job]
           /\ \A w \in Workers :
                /\ job'[w].pc = job[w].pc /\ job'[w].task = job[w].task /\ job'[w].kind = job[w].kind /\ job'[w].tier = job[w].tier
                /\ Active(w) => job'[w].ran = job[w].ran + 1 /\ (job'[w].old <=> job[w].old \/ fire)
                /\ ~Active(w) => job'[w] = job[w]
<1>0. job \in [Workers -> Job] /\ ClaimTTL \in Nat /\ MaxRun \in Nat /\ ClaimTTL <= MaxRun + 1
  BY DEF TypeOK, Sane
<1>1. ASSUME NEW w \in Workers
      PROVE  /\ job'[w] \in Job
             /\ job'[w].pc = job[w].pc /\ job'[w].task = job[w].task /\ job'[w].kind = job[w].kind /\ job'[w].tier = job[w].tier
             /\ Active(w) => job'[w].ran = job[w].ran + 1 /\ (job'[w].old <=> job[w].old \/ fire)
             /\ ~Active(w) => job'[w] = job[w]
  <2>1. job[w] \in Job /\ job[w].ran \in 0 .. MaxRun /\ job[w].old \in BOOLEAN
    BY <1>0 DEF Job
  <2>2. CASE ~Active(w)
    BY <2>1, <2>2 DEF Aged
  <2>3. CASE Active(w)
    <3> DEFINE r == job[w].ran + 1
               o == job[w].old \/ fire
               j == [job[w] EXCEPT !.ran = r, !.old = o]
    <3>1. job[w].ran < MaxRun \/ job[w].ran < ClaimTTL - 1
      BY <2>3 DEF TimeMayPass
    <3>2. r \in 0 .. MaxRun
      BY <1>0, <2>1, <3>1
    <3>3. o \in BOOLEAN
      BY <2>1
    <3>4. job'[w] = j
      BY <2>3 DEF Aged
    <3> HIDE DEF r, o
    <3>5. j \in Job
      BY <2>1, <3>2, <3>3, Zenon DEF Job
    <3>6. j.pc = job[w].pc /\ j.task = job[w].task /\ j.kind = job[w].kind /\ j.tier = job[w].tier
      BY <2>1, Zenon DEF Job
    <3>7. j.ran = r /\ j.old = o
      BY <2>1, Zenon DEF Job
    <3> HIDE DEF j
    <3>8. job'[w].ran = job[w].ran + 1 /\ (job'[w].old <=> job[w].old \/ fire)
      BY <3>4, <3>7 DEF r, o
    <3>9. QED
      BY <2>3, <3>4, <3>5, <3>6, <3>8
  <2>4. QED
    BY <2>2, <2>3
<1>2. job' \in [Workers -> Job]
  BY <1>1 DEF Aged
<1>3. QED
  BY <1>1, <1>2

LEMMA WornLocks ==
    ASSUME Sane, TypeOK, lock' = Worn
    PROVE  /\ lock' \in Locks
           /\ \A t \in Tasks :
                /\ lock[t].left \in Nat
                /\ lock[t].left > 1 => lock'[t].owner = lock[t].owner /\ lock'[t].left = lock[t].left - 1
                /\ lock[t].left <= 1 => lock'[t].owner = None
<1>0. lock \in Locks /\ LockTTL \in Nat
  BY Ticks DEF TypeOK, Locks
<1>1. ASSUME NEW t \in Tasks
      PROVE  /\ lock'[t] \in [owner : Workers \cup {None}, left : 0 .. LockTTL]
             /\ lock[t].left \in Nat
             /\ lock[t].left > 1 => lock'[t].owner = lock[t].owner /\ lock'[t].left = lock[t].left - 1
             /\ lock[t].left <= 1 => lock'[t].owner = None
  <2>1. lock[t] \in [owner : Workers \cup {None}, left : 0 .. LockTTL] /\ lock[t].left \in 0 .. LockTTL
    BY <1>0 DEF Locks
  <2>2. CASE lock[t].left > 1
    <3> DEFINE n == lock[t].left - 1
    <3>1. n \in 0 .. LockTTL
      BY <1>0, <2>1, <2>2
    <3>2. lock'[t] = [lock[t] EXCEPT !.left = n]
      BY <2>2 DEF Worn
    <3> HIDE DEF n
    <3>3. lock'[t] \in [owner : Workers \cup {None}, left : 0 .. LockTTL] /\ lock'[t].owner = lock[t].owner /\ lock'[t].left = n
      BY <2>1, <3>1, <3>2, Zenon
    <3>4. QED
      BY <2>1, <2>2, <3>3 DEF n
  <2>3. CASE lock[t].left <= 1
    <3>1. lock'[t] = [owner |-> None, left |-> 0]
      BY <2>1, <2>3 DEF Worn, Free
    <3>2. QED
      BY <1>0, <2>1, <2>3, <3>1
  <2>4. QED
    BY <1>0, <2>1, <2>2, <2>3
<1>2. lock' \in Locks
  BY <1>1 DEF Worn, Locks
<1>3. QED
  BY <1>1, <1>2

\* A lock wears as its run ages.
LEMMA LedAged ==
    ASSUME Sane, TypeOK, Led, TimeMayPass, NEW fire \in BOOLEAN, job' = Aged(fire), lock' = Worn
    PROVE  Led'
<1>1. ASSUME NEW w \in Workers, job'[w].kind = "regular", job'[w].pc \notin {"idle", "next"}, job'[w].ran < LockTTL
      PROVE  lock'[job'[w].task].owner = w /\ lock'[job'[w].task].left = LockTTL - job'[w].ran
  <2>1. /\ job'[w].pc = job[w].pc /\ job'[w].task = job[w].task /\ job'[w].kind = job[w].kind
        /\ job'[w].ran = job[w].ran + 1
    BY <1>1, AgedJobs DEF Active
  <2>2. job[w].ran \in Nat /\ job[w].task \in Tasks /\ LockTTL \in Nat
    BY Ticks DEF TypeOK, Job
  <2>3. lock[job[w].task].owner = w /\ lock[job[w].task].left = LockTTL - job[w].ran
    BY <1>1, <2>1, <2>2 DEF Led, Leading
  <2>4. lock[job[w].task].left > 1
    BY <1>1, <2>1, <2>2, <2>3
  <2>5. lock'[job[w].task].owner = w /\ lock'[job[w].task].left = lock[job[w].task].left - 1
    BY <2>2, <2>3, <2>4, WornLocks
  <2>6. QED
    BY <2>1, <2>2, <2>3, <2>5
<1>2. QED
  BY <1>1 DEF Led, Leading, LockTTL

LEMMA KindsAged ==
    ASSUME Sane, TypeOK, Kinds, TimeMayPass, NEW fire \in BOOLEAN, job' = Aged(fire)
    PROVE  Kinds'
<1>1. ASSUME NEW w \in Workers
      PROVE  /\ job'[w].pc \in {"check", "claim"} => job'[w].kind = "catchup"
             /\ job'[w].pc \in {"next", "budget", "alert", "leave"} => job'[w].kind = "regular"
             /\ (job'[w].pc \in {"run", "mark"} /\ job'[w].kind = "regular") => job'[w].task = "report"
             /\ (job'[w].kind = "catchup" /\ job'[w].pc # "idle") => job'[w].ran < ClaimTTL
             /\ job'[w].tier # 0 <=> job'[w].pc = "alert"
  <2>1. /\ job'[w].pc = job[w].pc /\ job'[w].task = job[w].task /\ job'[w].kind = job[w].kind /\ job'[w].tier = job[w].tier
        /\ Active(w) => job'[w].ran = job[w].ran + 1
    BY AgedJobs
  <2>2. (job'[w].kind = "catchup" /\ job'[w].pc # "idle") => job'[w].ran < ClaimTTL
    <3>1. job[w].ran \in Nat /\ ClaimTTL \in Nat
      BY DEF TypeOK, Job, Sane
    <3>2. (Active(w) /\ job[w].kind = "catchup") => job[w].ran < ClaimTTL - 1
      BY DEF TimeMayPass
    <3>3. QED
      BY <2>1, <3>1, <3>2 DEF Active
  <2>3. QED
    BY <2>1, <2>2 DEF Kinds
<1>2. QED
  BY <1>1 DEF Kinds, Active

LEMMA ClaimedAged ==
    ASSUME Sane, TypeOK, Claimed, Posts, TimeMayPass, NEW fire \in BOOLEAN, job' = Aged(fire),
           UNCHANGED <<tries, tiers, told, echoed, unsent>>
    PROVE  Claimed' /\ Posts'
<1>1. \A w \in Workers : job'[w].tier = job[w].tier
  BY AgedJobs
<1>2. QED
  BY <1>1 DEF Claimed, SentOnce, Posts

LEMMA TickStep ==
    ASSUME Sane, IInv, Tick
    PROVE  IInv'
<1>0. /\ TypeOK /\ TimeMayPass /\ job' = Aged(FALSE) /\ lock' = Worn /\ FALSE \in BOOLEAN
      /\ queue = 0 /\ queue' = queue /\ sent' = sent /\ regular' = regular /\ echoes' = echoes /\ tries' = tries /\ marked' = marked /\ carried' = carried
      /\ missed' = missed /\ calm' = calm /\ faults' = faults /\ tiers' = tiers /\ told' = told /\ echoed' = echoed /\ unsent' = unsent
      /\ spend' = spend /\ restarts' = restarts
  BY DEF IInv, Tick, TimeMayPass, reportVars, budgetVars, historyVars
<1>1. /\ clock \in Nat /\ clock' \in 0 .. Interval - 1 /\ clock' = clock + 1 /\ Interval \in Nat
      /\ claim \in Nat /\ claim' \in 0 .. ClaimTTL /\ claim' = IF claim > 0 THEN claim - 1 ELSE 0
  BY <1>0 DEF TypeOK, Tick, Sane
<1>2. /\ job' \in [Workers -> Job]
      /\ \A w \in Workers :
            /\ job'[w].pc = job[w].pc /\ job'[w].task = job[w].task /\ job'[w].kind = job[w].kind
            /\ Active(w) => job'[w].ran = job[w].ran + 1 /\ (job'[w].old <=> job[w].old)
            /\ ~Active(w) => job'[w] = job[w]
  BY <1>0, AgedJobs
<1>3. TypeOK'
  <2>1. lock' \in Locks /\ Locks' = Locks /\ Job' = Job
    BY <1>0, WornLocks DEF Locks, LockTTL, Job
  <2>2. QED
    BY <1>0, <1>1, <1>2, <2>1, Zenon DEF TypeOK, Locks
<1>4. Kinds' /\ Led' /\ Claimed' /\ Posts'
  BY <1>0, KindsAged, LedAged, ClaimedAged DEF IInv
<1>5. Written'
  <2>1. \A w \in Workers : (job'[w].pc # "idle" /\ job'[w].old) => carried
    BY <1>2 DEF IInv, Written, Active
  <2>2. \A w \in Workers : (job'[w].pc = "mark" /\ ~job'[w].old) => sent > 0
    BY <1>2 DEF IInv, Written, Active
  <2>3. QED
    BY <1>0, <2>1, <2>2 DEF IInv, Written, MarkerMeansSent, Active
<1>6. Explained'
  <2>1. LockTTL' = LockTTL /\ LockTTL \in Nat
    BY Ticks DEF LockTTL
  <2>2. lock'["report"].owner # None =>
          /\ lock'["report"].owner = lock["report"].owner
          /\ lock'["report"].left = lock["report"].left - 1 /\ lock["report"].left \in Nat
    BY <1>0, WornLocks DEF Tasks
  <2>3. lock'["report"].owner # None => lock'["report"].left \in {LockTTL - clock', Interval - clock'}
    BY <1>1, <2>1, <2>2 DEF IInv, Explained
  <2>4. (lock'["report"].owner # None /\ lock'["report"].left = LockTTL - clock') => lock["report"].left = LockTTL - clock
    BY <1>1, <2>1, <2>2
  <2>5. ASSUME calm >= 1, lock'["report"].owner # None, lock'["report"].left = LockTTL - clock'
        PROVE  LET u == lock'["report"].owner
               IN  u \in Workers /\ job'[u].kind = "regular" /\ job'[u].pc \notin {"idle", "next"} /\ job'[u].task = "report"
    <3> DEFINE u == lock["report"].owner
    <3>1. u \in Workers /\ Leading(u) /\ job[u].task = "report"
      BY <2>2, <2>4, <2>5 DEF IInv, Explained
    <3>2. QED
      BY <1>2, <2>2, <2>5, <3>1 DEF Leading
  <2>6. \A u \in Workers : Running(u)' <=> Running(u)
    BY <1>2 DEF Running
  <2>7. (calm >= 2 /\ (queue = 0 \/ lock'["report"].owner # None)) => sent > 0 \/ SomeoneRuns'
    BY <1>0, <2>6 DEF IInv, Explained, SomeoneRuns
  <2>8. missed => calm <= 2
    BY DEF IInv, Explained, MissExplained
  <2>9. ~(queue > 0)
    BY <1>0
  <2>10. QED
    BY <1>0, <2>1, <2>3, <2>5, <2>7, <2>8, <2>9 DEF Explained, Leading, MissExplained
<1>7. Once'
  <2> SUFFICES ASSUME Calm'
      PROVE  Once'
    BY DEF Once
  <2>1. Calm
    BY <1>0 DEF Calm
  <2>2. \A u \in Workers : /\ (Running(u)' <=> Running(u)) /\ (CatchingUp(u)' <=> CatchingUp(u)) /\ (CaughtUp(u)' <=> CaughtUp(u))
    BY <1>2 DEF Running, CatchingUp, CaughtUp
  <2>3. Spent' <=> Spent
    BY <1>0, <2>2 DEF Spent
  <2>4. \A u \in Workers : job'[u].pc # "claim"
    BY <1>0, <1>2 DEF TimeMayPass, Active
  <2>5. ASSUME NEW u \in Workers, CatchingUp(u) \/ CaughtUp(u)
        PROVE  claim' + job'[u].ran >= ClaimTTL
    <3>1. Active(u) /\ claim + job[u].ran >= ClaimTTL
      BY <2>1, <2>5 DEF IInv, Once, Active, CatchingUp, CaughtUp
    <3>2. job[u].ran \in Nat /\ ClaimTTL \in Nat
      BY <1>0 DEF TypeOK, Job, Sane
    <3>3. job'[u].ran = job[u].ran + 1
      BY <1>2, <3>1
    <3>4. QED
      BY <1>1, <3>1, <3>2, <3>3
  <2>6. QED
    BY <1>0, <2>1, <2>2, <2>3, <2>4, <2>5 DEF IInv, Once
<1>8. QED
  BY <1>3, <1>4, <1>5, <1>6, <1>7 DEF IInv

\* The next occurrence: what is still under way is of an earlier one, and a
\* lock left over has one interval to go.
LEMMA FireStep ==
    ASSUME Sane, IInv, Fire
    PROVE  IInv'
<1>0. /\ TypeOK /\ TimeMayPass /\ job' = Aged(TRUE) /\ lock' = Worn /\ TRUE \in BOOLEAN
      /\ queue = 0 /\ sent' = 0 /\ regular' = 0 /\ echoes' = 0 /\ tries' = tries /\ marked' = FALSE /\ claim' = 0 /\ faults' = 0 /\ restarts' = 0
      /\ clock' = 0 /\ clock = Interval - 1 /\ Interval \in Nat /\ Interval > 0
      /\ tiers' = tiers /\ told' = told /\ echoed' = echoed /\ unsent' = unsent
  BY DEF IInv, Fire, TimeMayPass, Sane
<1>1. /\ job' \in [Workers -> Job]
      /\ \A w \in Workers :
            /\ job'[w].pc = job[w].pc /\ job'[w].task = job[w].task /\ job'[w].kind = job[w].kind
            /\ Active(w) => job'[w].old = TRUE
            /\ ~Active(w) => job'[w] = job[w]
  <2>1. \A w \in Workers : Active(w) => (job'[w].old <=> TRUE) /\ job'[w].old \in BOOLEAN
    BY <1>0, AgedJobs DEF Job
  <2>2. QED
    BY <1>0, <2>1, AgedJobs
<1>2. /\ carried' = (\E w \in Workers : Active(w)) /\ carried' \in BOOLEAN
      /\ missed' = (sent = 0) /\ missed' \in BOOLEAN
  BY Zenon DEF Fire
<1>3. /\ queue' \in 0 .. Schedulers /\ calm \in 0 .. 3 /\ calm' \in 0 .. 3 /\ spend' \in 0 .. MaxTier
      /\ calm' > 0 => queue' > 0 /\ ~carried' /\ (calm' = calm + 1 \/ calm = 3)
  <2>1. calm \in 0 .. 3 /\ spend \in 0 .. MaxTier /\ Schedulers \in Nat /\ Schedulers > 0 /\ MaxTier \in Nat
    BY <1>0 DEF TypeOK, Sane
  <2>2. spend' \in 0 .. MaxTier
    BY <2>1 DEF Fire
  <2>3. CASE queue' = Schedulers /\ calm' = IF carried' THEN 0 ELSE IF calm < 3 THEN calm + 1 ELSE calm
    <3>1. CASE carried'
      BY <2>1, <2>2, <2>3, <3>1
    <3>2. CASE ~carried'
      BY <2>1, <2>2, <2>3, <3>2
    <3>3. QED
      BY <3>1, <3>2
  <2>4. CASE queue' = 0 /\ calm' = 0
    BY <2>1, <2>2, <2>4
  <2>5. QED
    BY <2>3, <2>4 DEF Fire
<1>4. TypeOK'
  <2>1. lock' \in Locks /\ Locks' = Locks /\ Job' = Job
    BY <1>0, WornLocks DEF Locks, LockTTL, Job
  <2>2. /\ 0 \in 0 .. Interval - 1 /\ 0 \in 0 .. ClaimTTL /\ 0 \in Nat /\ 0 \in 0 .. MaxFaults /\ 0 \in 0 .. MaxRestarts
        /\ FALSE \in BOOLEAN /\ 0 \in 0 .. 0
    BY <1>0 DEF Sane
  <2>3. /\ tries' \in [Workers -> 0 .. Attempts - 1] /\ echoes' \in 0 .. faults'
        /\ echoed' \in [1 .. MaxTier -> Nat]
    BY <1>0, <2>2 DEF TypeOK
  <2>4. QED
    BY <1>0, <1>1, <1>2, <1>3, <2>1, <2>2, <2>3, Zenon DEF TypeOK, Locks
<1>5. Kinds' /\ Led' /\ Claimed' /\ Posts'
  BY <1>0, KindsAged, LedAged, ClaimedAged DEF IInv
<1>6. Written'
  <2>1. \A w \in Workers : job'[w].pc # "idle" => carried' /\ job'[w].old = TRUE
    BY <1>1, <1>2 DEF Active
  <2>2. QED
    BY <1>0, <2>1 DEF Written, MarkerMeansSent, Active
<1>7. calm' > 0 => \A w \in Workers : job[w].pc = "idle"
  BY <1>2, <1>3 DEF Active
<1>8. Explained'
  <2>1. LockTTL' = LockTTL /\ LockTTL \in Nat /\ LockTTL = Interval + Interval
    BY Ticks DEF LockTTL
  <2>2. lock'["report"].owner # None =>
          /\ lock'["report"].owner = lock["report"].owner
          /\ lock'["report"].left = lock["report"].left - 1 /\ lock["report"].left \in Nat /\ lock["report"].left > 1
    BY <1>0, WornLocks DEF Tasks
  <2>3. lock'["report"].owner # None => /\ lock["report"].left = LockTTL - clock /\ lock'["report"].left = Interval
    BY <1>0, <2>1, <2>2 DEF IInv, Explained
  <2>4. lock'["report"].owner # None => lock'["report"].left \in {LockTTL - clock', Interval - clock'} /\ lock'["report"].left # LockTTL - clock'
    BY <1>0, <2>1, <2>3
  <2>5. calm' >= 2 => lock'["report"].owner = None
    <3> SUFFICES ASSUME calm' >= 2, lock'["report"].owner # None
        PROVE  FALSE
      OBVIOUS
    <3>1. calm >= 1 /\ calm' > 0
      BY <1>3
    <3>2. lock["report"].owner \in Workers /\ Leading(lock["report"].owner)
      BY <2>2, <2>3, <3>1 DEF IInv, Explained
    <3>3. QED
      BY <1>7, <3>1, <3>2 DEF Leading
  <2>6. calm' >= 2 => queue' > 0 /\ queue' # 0
    BY <1>3
  <2>7. missed' => calm' <= 2
    <3>1. CASE calm' > 2
      <4>1. calm >= 2 /\ calm' > 0
        BY <1>3, <3>1
      <4>2. sent > 0 \/ SomeoneRuns
        BY <1>0, <4>1 DEF IInv, Explained
      <4>3. ~SomeoneRuns
        BY <1>7, <4>1 DEF SomeoneRuns, Running
      <4>4. sent # 0
        BY <1>0, <4>2, <4>3 DEF TypeOK
      <4>5. ~missed'
        BY <1>2, <4>4, Zenon
      <4>6. QED
        BY <4>5
    <3>2. CASE ~(calm' > 2)
      BY <1>3, <3>2
    <3>3. QED
      BY <3>1, <3>2
  <2>8. QED
    BY <1>0, <2>1, <2>4, <2>5, <2>6, <2>7 DEF Explained, MissExplained
<1>9. Once'
  <2> SUFFICES ASSUME Calm'
      PROVE  Once'
    BY DEF Once
  <2>1. \A w \in Workers : job'[w].pc = "idle"
    BY <1>1, <1>2 DEF Calm, Active
  <2>2. \A w \in Workers : ~Running(w)' /\ ~CatchingUp(w)' /\ ~CaughtUp(w)'
    BY <2>1 DEF Running, CatchingUp, CaughtUp
  <2>3. ~Spent'
    BY <1>0, <2>2 DEF Spent
  <2>4. regular' <= 1 /\ sent' = regular'
    BY <1>0
  <2>5. QED
    BY <1>0, <2>2, <2>3, <2>4, Zenon DEF Once
<1>10. QED
  BY <1>4, <1>5, <1>6, <1>8, <1>9 DEF IInv

LEMMA InitHolds ==
    ASSUME Sane, Init
    PROVE  IInv
<1>0. /\ NoJob \in Job /\ NoJob.pc = "idle" /\ NoJob.tier = 0 /\ \A w \in Workers : job[w] = NoJob
      /\ job \in [Workers -> Job]
  BY Fresh DEF Init
<1>1. lock \in Locks /\ \A t \in Tasks : lock[t].owner = None
  <2>1. Free \in [owner : Workers \cup {None}, left : 0 .. LockTTL] /\ Free.owner = None
    BY Ticks DEF Free
  <2>2. QED
    BY <2>1 DEF Init, Locks
<1>2. TypeOK
  <2>1. /\ 0 \in 0 .. Interval - 1 /\ 0 \in 0 .. Schedulers /\ 0 \in 0 .. ClaimTTL /\ 0 \in Nat /\ 1 \in Nat
        /\ 2 \in 0 .. 3 /\ 0 \in 0 .. MaxFaults /\ 0 \in 0 .. MaxRestarts
    BY DEF Sane
  <2>2. /\ told \in [1 .. MaxTier -> Nat] /\ echoed \in [1 .. MaxTier -> Nat] /\ unsent \in [1 .. MaxTier -> Nat]
        /\ tiers \subseteq 1 .. MaxTier /\ tries \in [Workers -> 0 .. Attempts - 1] /\ echoes \in 0 .. faults
    BY DEF Init, Sane
  <2>3. marked \in BOOLEAN /\ carried \in BOOLEAN /\ missed \in BOOLEAN
    BY Zenon DEF Init
  <2>4. QED
    BY <1>0, <1>1, <2>1, <2>2, <2>3, Zenon DEF Init, TypeOK, Locks
<1>3. Kinds /\ Led /\ Written
  BY <1>0 DEF Init, Kinds, Led, Written, MarkerMeansSent, Leading, Active
<1>4. Claimed /\ Posts
  BY <1>0, SMT DEF Init, Claimed, SentOnce, Posts, Sane
<1>5. Explained
  BY <1>1 DEF Init, Explained, MissExplained, Tasks
<1>6. Once
  <2>1. \A w \in Workers : job[w].pc = "idle"
    BY <1>0
  <2>2. QED
    BY <2>1 DEF Init, Once, Running, CatchingUp, CaughtUp, Spent
<1>7. QED
  BY <1>2, <1>3, <1>4, <1>5, <1>6 DEF IInv

LEMMA Inductive ==
    ASSUME Sane
    PROVE  Spec => []IInv
<1>1. Init => IInv
  BY InitHolds
<1>2. IInv /\ [Next]_vars => IInv'
  <2> SUFFICES ASSUME IInv, [Next]_vars
      PROVE  IInv'
    OBVIOUS
  <2>1. CASE \E w \in Workers :
               \/ StartReport(w) \/ StartBudget(w) \/ SendReport(w) \/ RecordReportSent(w) \/ Leave(w) \/ Restart(w)
               \/ LastSentFire(w) \/ ClaimCatchup(w) \/ ClaimBudgetTier(w) \/ SendBudgetAlert(w)
    BY <2>1, StartReportStep, StartBudgetStep, SendReportStep, RecordStep, LeaveStep, RestartStep,
       LastSentFireStep, ClaimCatchupStep, ClaimTierStep, SendAlertStep
  <2>2. CASE Tick
    BY <2>2, TickStep
  <2>3. CASE Fire
    BY <2>3, FireStep
  <2>4. CASE UNCHANGED vars
    BY <2>4 DEF vars, reportVars, historyVars, budgetVars, IInv, TypeOK, Kinds, Led, Written, Claimed, Posts, Explained, Once,
       Active, Leading, Running, SomeoneRuns, CatchingUp, CaughtUp, Spent, Calm, MarkerMeansSent, MissExplained, SentOnce,
       LockTTL
  <2>5. QED
    BY <2>1, <2>2, <2>3, <2>4 DEF Next
<1>3. QED
  BY <1>1, <1>2, PTL DEF Spec

-----------------------------------------------------------------------------
(* The theorems *)

\* Every variable of the jobs keeps its type, for any workers, intervals and
\* times to live.
THEOREM JobsTypeCorrect ==
    ASSUME Sane
    PROVE  Spec => []TypeOK
<1>1. IInv => TypeOK
  BY DEF IInv
<1>2. QED
  BY <1>1, Inductive, PTL

\* Two workers lead a job at once only while one has outlived the lock it took
\* (_scheduled_task_leader and _RELEASE_IF_OWNER_LUA).
THEOREM LeaderAlone ==
    ASSUME Sane
    PROVE  Spec => []OneLeader
<1>1. IInv => OneLeader
  <2> SUFFICES ASSUME IInv, NEW v \in Workers, NEW w \in Workers, v # w, Leading(v), Leading(w),
                      job[v].task = job[w].task
      PROVE  \E u \in {v, w} : job[u].ran >= LockTTL
    BY DEF OneLeader
  <2>1. job[v].ran \in Nat /\ job[w].ran \in Nat /\ LockTTL \in Nat
    BY Ticks DEF IInv, TypeOK, Job
  <2>2. ~(job[v].ran < LockTTL /\ job[w].ran < LockTTL)
    BY DEF IInv, Led
  <2>3. QED
    BY <2>1, <2>2
<1>2. QED
  BY <1>1, Inductive, PTL

\* The last-sent marker stands for a report of this occurrence, or for a run
\* of an earlier one that was still under way (_record_report_sent).
THEOREM MarkerIsHonest ==
    ASSUME Sane
    PROVE  Spec => []MarkerMeansSent
<1>1. IInv => MarkerMeansSent
  BY DEF IInv, Written
<1>2. QED
  BY <1>1, Inductive, PTL

\* An occurrence passes unreported only within two occurrences of a fault
\* (the lock of a crashed leader lasts twice the interval).
THEOREM MissesAreExplained ==
    ASSUME Sane
    PROVE  Spec => []MissExplained
<1>1. IInv => MissExplained
  BY DEF IInv, Explained
<1>2. QED
  BY <1>1, Inductive, PTL

\* Of an occurrence with which nothing goes wrong but answers lost, at most two
\* sends succeed: that of its scheduled run and that of one catch-up
\* (_claim_catchup).
THEOREM ReportedAtMostTwice ==
    ASSUME Sane
    PROVE  Spec => []AtMostTwice
<1>1. IInv => AtMostTwice
  BY DEF IInv, Once, Calm, AtMostTwice, TypeOK
<1>2. QED
  BY <1>1, Inductive, PTL

\* A claimed budget tier is sent once in the month, in no more posts than one
\* send has, and one whose send did not succeed failed or lost its process
\* (_claim_budget_tier and _send_report_with_retry).
THEOREM TierAlertedOnce ==
    ASSUME Sane
    PROVE  Spec => []TierSentOnce
<1>1. IInv => TierSentOnce
  BY DEF IInv, Claimed, Posts, SentOnce, TierSentOnce
<1>2. QED
  BY <1>1, Inductive, PTL


\* All that JobsHold says of the leader, the markers, the misses, the repeats and the
\* tiers, at once.
THEOREM JobsAreSafe ==
    ASSUME Sane
    PROVE  Spec => []JobsHold
BY JobsTypeCorrect, LeaderAlone, MarkerIsHonest, MissesAreExplained, ReportedAtMostTwice,
   TierAlertedOnce, PTL DEF JobsHold
=============================================================================
