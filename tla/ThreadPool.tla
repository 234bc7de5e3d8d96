----------------------------- MODULE ThreadPool -----------------------------
(***************************************************************************)
(* parallel::ThreadPool, the team that runs fn(tid) for every tid in 0..n-1.*)
(* The caller of run() is tid 0 and keeps fn on its stack: a worker may call *)
(* fn only while that run() has not returned.  Workers sleep on wake_ until *)
(* the generation changes and skip generations whose team they are not in.  *)
(* Every critical section of mutex_ is one action; condition variables are  *)
(* modelled with their sleepers.                                            *)
(***************************************************************************)
EXTENDS Integers, FiniteSets

CONSTANTS
  Size,      \* IAXL_OMP_THREAD_NUM
  Callers,   \* threads that call run()
  MaxRuns    \* bound on the number of runs

ASSUME ThreadPoolAssumption ==
  /\ Size \in Nat \ {0}
  /\ MaxRuns \in Nat

Workers == 1..(Size - 1)
Tids == 0..(Size - 1)
Runs == 1..MaxRuns

VARIABLES
  generation,   \* generation_; also names the run that published fn_
  team,         \* team_
  pending,      \* pending_
  worker,       \* worker[t]: asleep in wake_, in the loop, or calling fn
  seen,         \* seen[t]: the generation worker t has last looked at
  job,          \* job[t]: the run whose fn worker t has taken
  caller,       \* caller[c]: progress of a run() call
  size,         \* size[r]: n of run r
  ran           \* ran[r][t]: how often fn(t) of run r has been called

poolVars   == <<generation, team, pending>>
workerVars == <<worker, seen, job>>
vars == <<poolVars, workerVars, caller, size, ran>>

Init ==
  /\ generation = 0 /\ team = 0 /\ pending = 0
  /\ worker = [t \in Workers |-> "loop"]
  /\ seen = [t \in Workers |-> 0]
  /\ job = [t \in Workers |-> 0]
  /\ caller = [c \in Callers |-> "out"]
  /\ size = [r \in Runs |-> 0]
  /\ ran = [r \in Runs |-> [t \in Tids |-> 0]]

Called(r, t) == ran' = [ran EXCEPT ![r][t] = @ + 1]

\* run_mutex_ lets one run() in at a time.
Serial == \A c \in Callers : caller[c] = "out"

\* wake_.notify_all().
WakeAll == [t \in Workers |-> IF worker[t] = "asleep" THEN "loop" ELSE worker[t]]

\* run(n, fn) publishes fn and wakes the workers; ...
Run(c, n) ==
  /\ Serial
  /\ generation < MaxRuns
  /\ generation' = generation + 1
  /\ team' = n /\ pending' = n - 1
  /\ size' = [size EXCEPT ![generation + 1] = n]
  /\ worker' = WakeAll
  /\ caller' = [caller EXCEPT ![c] = "own"]
  /\ UNCHANGED <<seen, job, ran>>

\* ... it calls fn(0), ...
RunOwn(c) ==
  /\ caller[c] = "own"
  /\ Called(generation, 0)
  /\ caller' = [caller EXCEPT ![c] = "waiting"]
  /\ UNCHANGED <<poolVars, workerVars, size>>

\* Mutant of AllDone: the last worker is not waited for.
AllDoneEarly == pending <= 1
AllDone == pending = 0

\* ... waits in done_ until no worker of the team is left, and returns.
RunSleep(c) ==
  /\ caller[c] = "waiting" /\ ~AllDone
  /\ caller' = [caller EXCEPT ![c] = "asleep"]
  /\ UNCHANGED <<poolVars, workerVars, size, ran>>

RunReturn(c) ==
  /\ caller[c] = "waiting" /\ AllDone
  /\ caller' = [caller EXCEPT ![c] = "out"]
  /\ UNCHANGED <<poolVars, workerVars, size, ran>>

\* loop(tid): nothing new, sleep.
Sleep(t) ==
  /\ worker[t] = "loop" /\ generation = seen[t]
  /\ worker' = [worker EXCEPT ![t] = "asleep"]
  /\ UNCHANGED <<poolVars, seen, job, caller, size, ran>>

\* A new generation whose team ends before tid.
Skip(t) ==
  /\ worker[t] = "loop" /\ generation # seen[t] /\ t >= team
  /\ seen' = [seen EXCEPT ![t] = generation]
  /\ UNCHANGED <<poolVars, worker, job, caller, size, ran>>

Seen(t) == [seen EXCEPT ![t] = generation]

\* A new generation with tid in its team: fn_ is copied under the lock, ...
Join(t) ==
  /\ worker[t] = "loop" /\ generation # seen[t] /\ t < team
  /\ seen' = Seen(t)
  /\ worker' = [worker EXCEPT ![t] = "call"]
  /\ job' = [job EXCEPT ![t] = generation]
  /\ UNCHANGED <<poolVars, caller, size, ran>>

\* Mutant of Waker: done_ is not notified.
WakerNone == caller
\* done_.notify_one() by the worker that brings pending_ to zero.
Waker == IF pending = 1
         THEN [c \in Callers |-> IF caller[c] = "asleep" THEN "waiting" ELSE caller[c]]
         ELSE caller

\* ... called without it, and pending_ goes down under it again.
Call(t) ==
  /\ worker[t] = "call"
  /\ Called(job[t], t)
  /\ worker' = [worker EXCEPT ![t] = "called"]
  /\ UNCHANGED <<poolVars, seen, job, caller, size>>

Leave(t) ==
  /\ worker[t] = "called"
  /\ pending' = pending - 1
  /\ caller' = Waker
  /\ worker' = [worker EXCEPT ![t] = "loop"]
  /\ UNCHANGED <<generation, team, seen, job, size, ran>>

WorkerStep(t) == Sleep(t) \/ Skip(t) \/ Join(t) \/ Call(t) \/ Leave(t)
CallerStep(c) == RunOwn(c) \/ RunSleep(c) \/ RunReturn(c)

Next ==
  \/ \E c \in Callers : CallerStep(c) \/ \E n \in 1..Size : Run(c, n)
  \/ \E t \in Workers : WorkerStep(t)

Spec == Init /\ [][Next]_vars

\* Threads are scheduled and fn returns; nobody has to call run().
FairSpec == /\ Spec
            /\ \A t \in Workers : WF_vars(WorkerStep(t))
            /\ \A c \in Callers : WF_vars(CallerStep(c))

-----------------------------------------------------------------------------
(* Properties.                                                             *)

\* The run that is not yet over, if any.
Active == IF Serial THEN 0 ELSE generation

\* A worker calls fn only while the run() that owns it has not returned: the
\* function object is on that caller's stack.
FnAlive == \A t \in Workers : worker[t] = "call" => job[t] = Active

\* A run() that has returned has called fn exactly once for every tid of its
\* team and for no other, whichever generations the workers slept through.
TeamRan == \A r \in Runs : r <= generation /\ r # Active =>
             \A t \in Tids : ran[r][t] = IF t < size[r] THEN 1 ELSE 0

\* Every run() returns: no wake-up of a worker or of the caller is lost.
RunReturns == \A c \in Callers : caller[c] # "out" ~> caller[c] = "out"
=============================================================================
