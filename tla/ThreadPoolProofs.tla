-------------------------- MODULE ThreadPoolProofs --------------------------
(***************************************************************************)
(* The thread pool, proved for every pool size, any callers and any number *)
(* of runs: fn is called only while the run() that owns it is under way,   *)
(* and a run() that returned called it once per member of its team.        *)
(***************************************************************************)
EXTENDS ThreadPool, FiniteSetTheorems, TLAPS

\* The variables' types.
PoolType ==
  /\ generation \in 0..MaxRuns /\ team \in 0..Size /\ pending \in Nat
  /\ worker \in [Workers -> {"loop", "asleep", "call", "called"}]
  /\ seen \in [Workers -> Nat]
  /\ job \in [Workers -> Nat]
  /\ caller \in [Callers -> {"out", "own", "waiting", "asleep"}]
  /\ size \in [Runs -> 0..Size]
  /\ ran \in [Runs -> [Tids -> Nat]]

\* The workers of the present team that have not reported back.
Busy == {t \in Workers : t < team /\ (seen[t] # generation \/ worker[t] \in {"call", "called"})}

\* One run() at a time is inside run_mutex_.
OneCaller == /\ \A c, d \in Callers : caller[c] # "out" /\ caller[d] # "out" => c = d
             /\ ~Serial => generation # 0

\* pending_ counts the workers that are missing; without a run() none is.
Counted == pending = Cardinality(Busy) /\ (Serial => Busy = {})

\* A worker has looked at no later generation than the present one, and one
\* that took fn took the present one's.
Joined == \A t \in Workers :
  /\ seen[t] <= generation
  /\ worker[t] \in {"call", "called"} => t < team /\ seen[t] = generation /\ job[t] = generation

\* Calls of fn: the present run's by whoever is past its call, one per member of
\* the team for the runs that are over, none for those to come.
Past == \A r \in Runs : r < generation =>
          \A t \in Tids : ran[r][t] = IF t < size[r] THEN 1 ELSE 0
Future == \A r \in Runs : generation < r => \A t \in Tids : ran[r][t] = 0
Present == generation # 0 =>
  /\ team = size[generation] /\ team # 0
  /\ ran[generation][0] = IF \E c \in Callers : caller[c] = "own" THEN 0 ELSE 1
  /\ \A t \in Workers : ran[generation][t] =
       IF t < team /\ seen[t] = generation /\ worker[t] # "call" THEN 1 ELSE 0

PoolInv == PoolType /\ OneCaller /\ Counted /\ Joined /\ Past /\ Future /\ Present

-----------------------------------------------------------------------------
(* Counting the team.                                                      *)

LEMMA BusyFinite == ASSUME PoolType PROVE IsFiniteSet(Busy) /\ Cardinality(Busy) \in Nat
<1>1. IsFiniteSet(1..(Size - 1))
  BY ThreadPoolAssumption, FS_Interval, 1 \in Int, Size - 1 \in Int
<1>2. Busy \subseteq 1..(Size - 1)
  BY DEF Busy, Workers
<1>3. QED
  BY <1>1, <1>2, FS_Subset, FS_CardinalityType

\* The team of a new run, without tid 0, has n - 1 members.
LEMMA TeamSize ==
  ASSUME NEW n \in 1..Size
  PROVE  Cardinality({t \in Workers : t < n}) = n - 1
<1>0. Size \in Nat \ {0} /\ n \in Int /\ n - 1 \in Int
  BY ThreadPoolAssumption
<1>1. {t \in Workers : t < n} = 1..(n - 1)
  BY <1>0 DEF Workers
<1>2. CASE n = 1
  <2>1. 1..(n - 1) = {}
    BY <1>2
  <2>2. QED
    BY <1>1, <1>2, <2>1, FS_EmptySet
<1>3. CASE n > 1
  <2>1. ~ (1 > n - 1) /\ (n - 1) - 1 + 1 = n - 1
    BY <1>0, <1>3
  <2>2. Cardinality(1..(n - 1)) = (n - 1) - 1 + 1
    BY <1>0, <2>1, FS_Interval, 1 \in Int, Zenon
  <2>3. QED
    BY <1>1, <2>1, <2>2
<1>4. QED
  BY <1>0, <1>2, <1>3

\* Nobody of the team is missing exactly when pending_ is 0.
LEMMA NoneMissing == ASSUME PoolType, Counted PROVE pending = 0 <=> Busy = {}
  BY BusyFinite, FS_EmptySet DEF Counted

-----------------------------------------------------------------------------
(* The inductive invariant.                                                *)

LEMMA PoolInit == Init => PoolInv
<1> SUFFICES ASSUME Init PROVE PoolInv
  OBVIOUS
<1> USE ThreadPoolAssumption DEF Init
<1>1. PoolType
  BY DEF PoolType, Runs, Tids, Workers
<1>2. Busy = {}
  BY DEF Busy, Workers
<1>3. Counted
  BY <1>2, FS_EmptySet DEF Counted
<1>4. OneCaller /\ Joined /\ Past /\ Future /\ Present
  BY DEF OneCaller, Serial, Joined, Past, Future, Present, Runs, Tids, Workers
<1>5. QED
  BY <1>1, <1>3, <1>4 DEF PoolInv

\* run(n, fn) publishes a generation: the previous one is complete.
LEMMA RunKeeps ==
  ASSUME PoolInv, NEW c \in Callers, NEW n \in 1..Size, Run(c, n)
  PROVE  PoolInv'
<1> USE ThreadPoolAssumption DEF PoolInv
<1>0. Busy = {} /\ generation \in Nat /\ Size \in Nat
  BY DEF Counted, Run, PoolType
<1>1. PoolType'
  <2>1. worker' \in [Workers -> {"loop", "asleep", "call", "called"}]
    BY DEF PoolType, Run, WakeAll
  <2>2. generation' \in 0..MaxRuns /\ team' \in 0..Size /\ pending' \in Nat
    BY DEF PoolType, Run
  <2>3. size' \in [Runs -> 0..Size]
    BY DEF PoolType, Run, Runs
  <2>4. QED
    BY <2>1, <2>2, <2>3 DEF PoolType, Run
<1>2. \A t \in Workers : worker[t] \notin {"call", "called"}
  BY <1>0 DEF Busy, Joined
<1>3. \A t \in Workers : worker'[t] \in {"loop", "asleep"} /\ seen'[t] = seen[t]
                         /\ seen[t] <= generation
  BY <1>2 DEF Run, WakeAll, PoolType, Joined
<1>4. Busy' = {t \in Workers : t < n}
  BY <1>0, <1>3 DEF Busy, Run, PoolType
<1>5. ~Serial'
  BY DEF Serial, Run, PoolType
<1>6. Counted'
  BY <1>4, <1>5, TeamSize DEF Counted, Run
<1>7. OneCaller' /\ Joined'
  <2>1. OneCaller'
    BY DEF OneCaller, Run, Serial, PoolType
  <2>2. Joined'
    BY <1>0, <1>3 DEF Joined, Run, PoolType
  <2>3. QED
    BY <2>1, <2>2
<1>8. Past'
  <2> SUFFICES ASSUME NEW r \in Runs, r < generation', NEW t \in Tids
               PROVE  ran'[r][t] = IF t < size'[r] THEN 1 ELSE 0
    BY DEF Past
  <2>1. ran' = ran /\ size'[r] = size[r] /\ generation' = generation + 1 /\ r \in Nat
    BY <1>0 DEF Run, PoolType, Runs
  <2>2. CASE r < generation
    BY <2>1, <2>2 DEF Past
  <2>3. CASE r = generation
    <3>1. team = size[r] /\ team # 0 /\ team \in Nat /\ generation # 0
      BY <2>3 DEF Present, PoolType, Runs
    <3>2. CASE t = 0
      <4>1. ran[r][0] = 1
        BY <2>3, <3>1 DEF Present, Run, Serial
      <4>2. QED
        BY <2>1, <3>1, <3>2, <4>1
    <3>3. CASE t \in Workers
      <4>1. t < team => seen[t] = generation /\ worker[t] # "call"
        BY <1>0, <3>3 DEF Busy
      <4>2. ran[r][t] = IF t < team THEN 1 ELSE 0
        BY <2>3, <3>1, <3>3, <4>1 DEF Present
      <4>3. QED
        BY <2>1, <3>1, <4>2
    <3>4. QED
      BY <3>2, <3>3 DEF Tids, Workers
  <2>4. QED
    BY <1>0, <2>1, <2>2, <2>3
<1>9. Future'
  BY <1>0 DEF Future, Run, Runs
<1>10. Present'
  <2>1. generation' = generation + 1 /\ generation' \in Runs /\ ran' = ran /\ team' = n
        /\ size'[generation'] = n
    BY <1>0 DEF Run, PoolType, Runs
  <2>2. \A t \in Tids : ran[generation'][t] = 0
    BY <1>0, <2>1 DEF Future
  <2>3. \E d \in Callers : caller'[d] = "own"
    BY DEF Run, PoolType
  <2>4. 0 \in Tids /\ Workers \subseteq Tids
    BY DEF Tids, Workers
  <2>5. \A t \in Workers : seen'[t] # generation'
    BY <1>0, <1>3, <2>1 DEF PoolType
  <2>6. QED
    BY <2>1, <2>2, <2>3, <2>4, <2>5 DEF Present
<1>11. QED
  BY <1>1, <1>6, <1>7, <1>8, <1>9, <1>10

\* The caller's own call of fn.
LEMMA RunOwnKeeps ==
  ASSUME PoolInv, NEW c \in Callers, RunOwn(c)
  PROVE  PoolInv'
<1> USE ThreadPoolAssumption DEF PoolInv
<1>0. ~Serial /\ ~Serial'
  BY DEF Serial, RunOwn, PoolType
<1>1. generation \in Runs /\ 0 \in Tids /\ Workers \subseteq Tids \ {0}
  BY <1>0 DEF OneCaller, PoolType, Runs, Tids, Workers
<1>2. ran' = [ran EXCEPT ![generation] = [ran[generation] EXCEPT ![0] = @ + 1]]
  BY DEF RunOwn, Called
<1>3. PoolType'
  BY <1>1, <1>2 DEF PoolType, RunOwn, poolVars, workerVars
<1>4. /\ Busy' = Busy /\ pending' = pending /\ generation' = generation /\ team' = team
      /\ size' = size /\ seen' = seen /\ worker' = worker /\ job' = job
  BY DEF Busy, RunOwn, poolVars, workerVars
<1>5. Counted' /\ Joined'
  BY <1>0, <1>4 DEF Counted, Joined
<1>6. OneCaller'
  BY <1>0, <1>4 DEF OneCaller, RunOwn, PoolType
<1>7. \A r \in Runs \ {generation} : ran'[r] = ran[r]
  BY <1>2 DEF PoolType
<1>8. Past' /\ Future'
  BY <1>4, <1>7 DEF Past, Future, PoolType, Runs
<1>9. Present'
  <2>1. ran[generation][0] = 0 /\ ran'[generation][0] = 1
    BY <1>1, <1>2 DEF Present, RunOwn, PoolType, Runs
  <2>2. \A t \in Workers : ran'[generation][t] = ran[generation][t]
    BY <1>1, <1>2 DEF PoolType
  <2>3. ~ \E d \in Callers : caller'[d] = "own"
    BY DEF RunOwn, PoolType, OneCaller
  <2>4. QED
    BY <1>4, <2>1, <2>2, <2>3 DEF Present
<1>10. QED
  BY <1>3, <1>5, <1>6, <1>8, <1>9

\* A caller goes to sleep, or returns once nobody of its team is missing.
LEMMA RunSleepKeeps ==
  ASSUME PoolInv, NEW c \in Callers, RunSleep(c)
  PROVE  PoolInv'
<1> USE DEF PoolInv, RunSleep, poolVars, workerVars
<1>0. ~Serial /\ ~Serial'
  BY DEF Serial, PoolType
<1>1. PoolType'
  BY DEF PoolType
<1>2. Busy' = Busy
  BY DEF Busy
<1>3. Counted' /\ Joined' /\ Past' /\ Future'
  BY <1>0, <1>2 DEF Counted, Joined, Past, Future
<1>4. OneCaller'
  BY <1>0 DEF OneCaller, PoolType
<1>5. Present'
  BY DEF Present, PoolType
<1>6. QED
  BY <1>1, <1>3, <1>4, <1>5

LEMMA RunReturnKeeps ==
  ASSUME PoolInv, NEW c \in Callers, RunReturn(c)
  PROVE  PoolInv'
<1> USE DEF PoolInv, RunReturn, poolVars, workerVars
<1>0. ~Serial
  BY DEF Serial
<1>1. PoolType'
  BY DEF PoolType
<1>2. Busy' = Busy /\ Busy = {}
  BY NoneMissing DEF Busy, AllDone
<1>3. Counted' /\ Joined' /\ Past' /\ Future'
  BY <1>2 DEF Counted, Joined, Past, Future
<1>4. OneCaller'
  BY <1>0 DEF OneCaller, PoolType
<1>5. Present'
  BY DEF Present, PoolType
<1>6. QED
  BY <1>1, <1>3, <1>4, <1>5

-----------------------------------------------------------------------------
(* The workers.                                                            *)

LEMMA SleepKeeps ==
  ASSUME PoolInv, NEW t \in Workers, Sleep(t)
  PROVE  PoolInv'
<1> USE DEF PoolInv, Sleep, poolVars
<1>1. PoolType'
  BY DEF PoolType
<1>2. /\ \A u \in Workers : worker'[u] \in {"call", "called"} <=> worker[u] \in {"call", "called"}
      /\ \A u \in Workers : worker'[u] = "call" <=> worker[u] = "call"
  BY DEF PoolType
<1>3. Busy' = Busy
  BY <1>2 DEF Busy
<1>4. Counted' /\ Joined' /\ OneCaller' /\ Past' /\ Future'
  BY <1>2, <1>3 DEF Counted, Joined, OneCaller, Past, Future, Serial
<1>5. Present'
  BY <1>2 DEF Present
<1>6. QED
  BY <1>1, <1>4, <1>5

LEMMA SkipKeeps ==
  ASSUME PoolInv, NEW t \in Workers, Skip(t)
  PROVE  PoolInv'
<1> USE DEF PoolInv, Skip, poolVars
<1>1. PoolType'
  BY DEF PoolType
<1>2. /\ \A u \in Workers : u # t => seen'[u] = seen[u]
      /\ ~ t < team /\ seen'[t] = generation /\ generation \in Nat
  BY DEF PoolType, Workers
<1>3. Busy' = Busy
  BY <1>2 DEF Busy
<1>4. Counted' /\ OneCaller' /\ Past' /\ Future'
  BY <1>3 DEF Counted, OneCaller, Past, Future, Serial
<1>5. Joined'
  BY <1>2 DEF Joined
<1>6. Present'
  BY <1>2 DEF Present
<1>7. QED
  BY <1>1, <1>4, <1>5, <1>6

LEMMA JoinKeeps ==
  ASSUME PoolInv, NEW t \in Workers, Join(t)
  PROVE  PoolInv'
<1> USE DEF PoolInv, Join, Seen, poolVars
<1>1. PoolType'
  BY DEF PoolType
<1>2. /\ \A u \in Workers : u # t => seen'[u] = seen[u] /\ worker'[u] = worker[u]
                                     /\ job'[u] = job[u]
      /\ t < team /\ seen[t] # generation /\ generation \in Nat
      /\ seen'[t] = generation /\ worker'[t] = "call" /\ job'[t] = generation
  BY DEF PoolType, Workers
<1>3. Busy' = Busy
  BY <1>2 DEF Busy
<1>4. Counted' /\ OneCaller' /\ Past' /\ Future'
  BY <1>3 DEF Counted, OneCaller, Past, Future, Serial
<1>5. Joined'
  BY <1>2 DEF Joined
<1>6. Present'
  BY <1>2 DEF Present
<1>7. QED
  BY <1>1, <1>4, <1>5, <1>6

\* A worker calls fn: it is in the team of the present run, which is under way.
LEMMA CallKeeps ==
  ASSUME PoolInv, NEW t \in Workers, Call(t)
  PROVE  PoolInv'
<1> USE DEF PoolInv, Call, poolVars
<1>0. t \in Busy /\ ~Serial /\ t < team /\ seen[t] = generation /\ job[t] = generation
  BY DEF Busy, Joined, Counted
<1>1. generation \in Runs /\ 0 \in Tids /\ Workers \subseteq Tids \ {0}
  BY <1>0, ThreadPoolAssumption DEF OneCaller, PoolType, Runs, Tids, Workers
<1>2. ran' = [ran EXCEPT ![generation] = [ran[generation] EXCEPT ![t] = @ + 1]]
  BY <1>0 DEF Called
<1>3. PoolType'
  BY <1>1, <1>2 DEF PoolType
<1>4. /\ \A u \in Workers : u # t => worker'[u] = worker[u]
      /\ worker'[t] = "called" /\ worker[t] = "call"
  BY DEF PoolType
<1>5. Busy' = Busy
  BY <1>0, <1>4 DEF Busy
<1>6. Counted' /\ OneCaller'
  BY <1>5 DEF Counted, OneCaller, Serial
<1>7. Joined'
  BY <1>0, <1>4 DEF Joined
<1>8. \A r \in Runs \ {generation} : ran'[r] = ran[r]
  BY <1>2 DEF PoolType
<1>9. Past' /\ Future'
  <2>1. \A r \in Runs : (r < generation \/ generation < r) => ran'[r] = ran[r]
    BY <1>8 DEF PoolType, Runs
  <2>2. Past'
    BY <2>1 DEF Past
  <2>3. Future'
    BY <2>1 DEF Future
  <2>4. QED
    BY <2>2, <2>3
<1>10. Present'
  <2>1. generation # 0 /\ ran[generation][t] = 0 /\ ran'[generation][t] = 1
    <3>1. generation # 0 /\ ran[generation] \in [Tids -> Nat] /\ t \in Tids
      BY <1>1 DEF PoolType, Runs
    <3>2. ran[generation][t] = 0
      BY <1>4, <3>1 DEF Present
    <3>3. ran'[generation] = [ran[generation] EXCEPT ![t] = @ + 1]
      BY <1>1, <1>2 DEF PoolType
    <3>4. QED
      BY <3>1, <3>2, <3>3
  <2>2. ran'[generation][0] = ran[generation][0]
    BY <1>1, <1>2 DEF PoolType
  <2>3. \A u \in Workers \ {t} : ran'[generation][u] = ran[generation][u]
    BY <1>1, <1>2 DEF PoolType
  <2>4. QED
    BY <1>0, <1>4, <2>1, <2>2, <2>3 DEF Present
<1>11. QED
  BY <1>3, <1>6, <1>7, <1>9, <1>10

\* A worker reports back: it leaves Busy, and pending_ goes down by one.
LEMMA LeaveKeeps ==
  ASSUME PoolInv, NEW t \in Workers, Leave(t)
  PROVE  PoolInv'
<1> USE DEF PoolInv, Leave
<1>0. t \in Busy /\ ~Serial /\ t < team /\ seen[t] = generation
  BY DEF Busy, Joined, Counted
<1>1. /\ \A u \in Workers : u # t => worker'[u] = worker[u]
      /\ worker'[t] = "loop" /\ worker[t] = "called"
  BY DEF PoolType
<1>2. Busy' = Busy \ {t}
  BY <1>0, <1>1 DEF Busy
<1>3. Cardinality(Busy') = Cardinality(Busy) - 1 /\ Cardinality(Busy) - 1 \in Nat
  <2>1. IsFiniteSet(Busy) /\ Cardinality(Busy) \in Nat
    BY BusyFinite
  <2>2. Cardinality(Busy \ {t}) = Cardinality(Busy) - 1 /\ IsFiniteSet(Busy \ {t})
    BY <1>0, <2>1, FS_RemoveElement, Zenon
  <2>3. Cardinality(Busy \ {t}) \in Nat
    BY <2>2, FS_CardinalityType, Zenon
  <2>4. QED
    BY <1>2, <2>2, <2>3, Zenon
<1>4. caller' \in [Callers -> {"out", "own", "waiting", "asleep"}]
      /\ \A c \in Callers : /\ caller'[c] = "out" <=> caller[c] = "out"
                            /\ caller'[c] = "own" <=> caller[c] = "own"
  BY DEF Waker, PoolType
<1>5. PoolType'
  BY <1>3, <1>4 DEF PoolType, Counted
<1>6. Serial' = Serial
  BY <1>4 DEF Serial
<1>7. Counted'
  BY <1>0, <1>3, <1>6 DEF Counted
<1>8. OneCaller'
  BY <1>4, <1>6 DEF OneCaller
<1>9. Joined' /\ Past' /\ Future'
  BY <1>1 DEF Joined, Past, Future
<1>10. Present'
  BY <1>1, <1>4 DEF Present
<1>11. QED
  BY <1>5, <1>7, <1>8, <1>9, <1>10

LEMMA PoolStep == ASSUME PoolInv, [Next]_vars PROVE PoolInv'
<1>1. ASSUME NEW c \in Callers, NEW n \in 1..Size, Run(c, n) PROVE PoolInv'
  BY <1>1, RunKeeps
<1>2. ASSUME NEW c \in Callers, CallerStep(c) PROVE PoolInv'
  BY <1>2, RunOwnKeeps, RunSleepKeeps, RunReturnKeeps DEF CallerStep
<1>3. ASSUME NEW t \in Workers, WorkerStep(t) PROVE PoolInv'
  BY <1>3, SleepKeeps, SkipKeeps, JoinKeeps, CallKeeps, LeaveKeeps DEF WorkerStep
<1>4. CASE UNCHANGED vars
  BY <1>4 DEF vars, poolVars, workerVars, PoolInv, PoolType, OneCaller, Counted, Joined, Past,
              Future, Present, Busy, Serial
<1>5. QED
  BY <1>1, <1>2, <1>3, <1>4 DEF Next

LEMMA PoolInvariant == Spec => []PoolInv
  BY PoolInit, PoolStep, PTL DEF Spec

-----------------------------------------------------------------------------
(* The theorems.                                                           *)

\* A worker calls fn only while the run() whose stack holds it has not returned,
\* for every pool size and every number of callers (ThreadPool::run and loop).
THEOREM FnStaysAlive == Spec => []FnAlive
<1>1. PoolInv => FnAlive
  <2> SUFFICES ASSUME PoolInv, NEW t \in Workers, worker[t] = "call" PROVE job[t] = Active
    BY DEF FnAlive
  <2>1. t \in Busy /\ job[t] = generation
    BY DEF PoolInv, Joined, Busy
  <2>2. QED
    BY <2>1 DEF PoolInv, Counted, Active
<1>2. QED
  BY <1>1, PoolInvariant, PTL

\* A run() that returned has called fn once for every tid of its team and for no
\* other (ThreadPool::run returns when pending_ is 0).
THEOREM EveryTeamRan == Spec => []TeamRan
<1>1. PoolInv => TeamRan
  <2> SUFFICES ASSUME PoolInv, NEW r \in Runs, r <= generation, r # Active, NEW t \in Tids
               PROVE  ran[r][t] = IF t < size[r] THEN 1 ELSE 0
    BY DEF TeamRan
  <2>1. generation \in Nat /\ r \in Nat \ {0} /\ team \in Nat
    BY DEF PoolInv, PoolType, Runs
  <2>2. CASE r < generation
    BY <2>2 DEF PoolInv, Past
  <2>3. CASE r = generation
    <3>1. Serial /\ Busy = {} /\ generation # 0
      BY <2>1, <2>3 DEF PoolInv, Counted, Active
    <3>2. team = size[r] /\ team # 0 /\ ran[r][0] = 1
      BY <2>3, <3>1 DEF PoolInv, Present, Serial
    <3>3. \A u \in Workers : u < team => seen[u] = generation /\ worker[u] # "call"
      BY <3>1 DEF Busy
    <3>4. \A u \in Workers : ran[r][u] = IF u < team THEN 1 ELSE 0
      BY <2>3, <3>1, <3>3 DEF PoolInv, Present
    <3>5. t = 0 \/ t \in Workers
      BY DEF Tids, Workers
    <3>6. QED
      BY <2>1, <3>2, <3>4, <3>5
  <2>4. QED
    BY <2>1, <2>2, <2>3
<1>2. QED
  BY <1>1, PoolInvariant, PTL
=============================================================================
