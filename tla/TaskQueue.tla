------------------------------ MODULE TaskQueue ------------------------------
(***************************************************************************)
(* The task queue behind OMP-Main, H2D, D2H, the free queue and Record:    *)
(* four levels served by one thread, promotion of bundles, stable sorting  *)
(* of a level, and a shutdown that drains.  Every critical section of      *)
(* mutex_ is one action.                                                   *)
(*                                                                         *)
(* A task is a record: its name, the level it is submitted to, bundle_id   *)
(* and sort_key.  Clients submit the tasks of a bundle as the connector    *)
(* does the layers of a request: in layer order, never at a more urgent    *)
(* level than the layer before.                                            *)
(***************************************************************************)
EXTENDS Integers, Sequences, FiniteSets, SequencesExt

CONSTANTS
  Items,      \* the tasks clients may submit
  Callers,    \* threads that may call shutdown()
  MaxMoves,   \* bound on calls of set_bundles_priority and sort_priority_level
  None        \* no task

Levels == 0..3      \* PRIORITY_P0 .. PRIORITY_P3

ASSUME TaskQueueAssumption ==
  /\ IsFiniteSet(Items)
  /\ \A x \in Items : x.level \in Levels /\ x.bundle \in Nat /\ x.key \in Int
  /\ None \notin Items
  /\ MaxMoves \in Nat

VARIABLES
  state,      \* state_
  tasks,      \* tasks_[level]
  worker,     \* the worker thread: not started, running, in cv_.wait, returned
  running,    \* the task it executes
  done,       \* the tasks it has executed, in order
  accepted,   \* the tasks submit() returned a future for
  caller,     \* caller[c]: progress of a shutdown() call
  moves

queueVars == <<tasks, accepted>>
workVars  == <<worker, running, done>>
vars == <<state, queueVars, workVars, caller, moves>>

Waiting == UNION {Range(tasks[l]) : l \in Levels}
AllEmpty == \A l \in Levels : tasks[l] = <<>>

Init ==
  /\ state = "CREATED"
  /\ tasks = [l \in Levels |-> <<>>]
  /\ worker = "none" /\ running = None /\ done = <<>>
  /\ accepted = {}
  /\ caller = [c \in Callers |-> "out"]
  /\ moves = 0

\* init(): idempotent while running, impossible after a shutdown.
Start ==
  /\ state = "CREATED"
  /\ state' = "RUNNING" /\ worker' = "loop"
  /\ UNCHANGED <<queueVars, running, done, caller, moves>>

\* Mutant of Notify: the worker is not woken.
NotifyNone == worker
\* cv_.notify_one(), right after the unlock: nobody can fall asleep in between,
\* the condition it waits for already holds.
Notify == IF worker = "asleep" THEN "loop" ELSE worker

\* The clients' order: the earlier tasks of a bundle come first.
InTurn(x) == x.bundle # 0 =>
  \A y \in Items : y.bundle = x.bundle /\ y.key < x.key => y \in accepted /\ y.level <= x.level

\* Mutant of Accepting: submit() still queues while shutdown() drains.
AcceptingLate == state \in {"RUNNING", "STOPPING", "STOPPED"}
Accepting == state = "RUNNING"

Submit(x) ==
  /\ x \notin accepted /\ InTurn(x)
  /\ Accepting
  /\ tasks' = [tasks EXCEPT ![x.level] = Append(@, x)]
  /\ accepted' = accepted \cup {x}
  /\ worker' = Notify
  /\ UNCHANGED <<state, running, done, caller, moves>>

\* The elements of s at the positions I, in order.
Rank(I, i) == Cardinality({j \in I : j <= i})
Picked(s, I) == [k \in 1..Cardinality(I) |-> s[CHOOSE i \in I : Rank(I, i) = k]]

\* The waiting tasks of the bundles bs on a level, and the others.
Members(s, bs) == {i \in DOMAIN s : s[i].bundle # 0 /\ s[i].bundle \in bs}
Bundled(s, bs) == Picked(s, Members(s, bs))
Unbundled(s, bs) == Picked(s, DOMAIN s \ Members(s, bs))

\* What set_bundles_priority takes from level l.
From(l, p, bs) == IF l > p THEN Bundled(tasks[l], bs) ELSE <<>>
\* Mutant of Raised: the levels are visited from the least urgent one.
RaisedReverse(p, bs) == From(3, p, bs) \o From(2, p, bs) \o From(1, p, bs)
\* The waiting tasks of the bundles on levels below p, most urgent level first.
Raised(p, bs) == From(1, p, bs) \o From(2, p, bs) \o From(3, p, bs)
\* set_bundles_priority(bs, p).
RaiseBundles(bs, p) ==
  /\ moves < MaxMoves
  /\ tasks' = [l \in Levels |-> IF l < p THEN tasks[l]
                                ELSE IF l = p THEN tasks[l] \o Raised(p, bs)
                                ELSE Unbundled(tasks[l], bs)]
  /\ moves' = moves + 1
  /\ UNCHANGED <<state, accepted, workVars, caller>>

\* std::stable_sort by sort_key: the permutation that orders the keys and
\* keeps equal ones as they were.
Ordered(s, f) ==
  \A i, j \in 1..Len(s) : i < j =>
    \/ s[f[i]].key < s[f[j]].key
    \/ s[f[i]].key = s[f[j]].key /\ f[i] < f[j]
Perms(n) == {f \in [1..n -> 1..n] : IsInjective(f)}

\* sort_priority_level(p).
SortLevel(p) ==
  /\ moves < MaxMoves
  /\ \E f \in Perms(Len(tasks[p])) :
       /\ Ordered(tasks[p], f)
       /\ tasks' = [tasks EXCEPT ![p] = [i \in 1..Len(tasks[p]) |-> tasks[p][f[i]]]]
  /\ moves' = moves + 1
  /\ UNCHANGED <<state, accepted, workVars, caller>>

-----------------------------------------------------------------------------
(* worker_loop.                                                            *)

\* The most urgent level that has a task.
Urgent(l) == tasks[l] # <<>> /\ \A k \in Levels : k < l => tasks[k] = <<>>

\* Nothing to do and not stopping: cv_.wait releases the mutex.
Sleep ==
  /\ worker = "loop" /\ running = None
  /\ state = "RUNNING" /\ AllEmpty
  /\ worker' = "asleep"
  /\ UNCHANGED <<state, queueVars, running, done, caller, moves>>

Take ==
  /\ worker = "loop" /\ running = None
  /\ \E l \in Levels : /\ Urgent(l)
                       /\ running' = Head(tasks[l])
                       /\ tasks' = [tasks EXCEPT ![l] = Tail(@)]
  /\ UNCHANGED <<state, accepted, worker, done, caller, moves>>

\* item.fn() returns; an exception goes to the task's future.
Run ==
  /\ running # None
  /\ done' = Append(done, running)
  /\ running' = None
  /\ UNCHANGED <<state, queueVars, worker, caller, moves>>

MayExit == state = "STOPPING" /\ AllEmpty

Exit ==
  /\ worker = "loop" /\ running = None
  /\ MayExit
  /\ worker' = "exited"
  /\ UNCHANGED <<state, queueVars, running, done, caller, moves>>

-----------------------------------------------------------------------------
(* shutdown().                                                             *)

\* The first caller stops the worker and joins it; later ones wait for it.
Shutdown(c) ==
  /\ caller[c] = "out"
  /\ \/ /\ state = "CREATED"
        /\ state' = "STOPPED" /\ caller' = [caller EXCEPT ![c] = "returned"]
        /\ UNCHANGED worker
     \/ /\ state = "RUNNING"
        /\ state' = "STOPPING" /\ caller' = [caller EXCEPT ![c] = "joining"]
        /\ worker' = Notify
     \/ /\ state = "STOPPING"
        /\ caller' = [caller EXCEPT ![c] = "waiting"]
        /\ UNCHANGED <<state, worker>>
     \/ /\ state = "STOPPED"
        /\ caller' = [caller EXCEPT ![c] = "returned"]
        /\ UNCHANGED <<state, worker>>
  /\ UNCHANGED <<queueVars, running, done, moves>>

\* worker_.join() returns.
Join(c) ==
  /\ caller[c] = "joining" /\ worker = "exited"
  /\ state' = "STOPPED"
  /\ caller' = [caller EXCEPT ![c] = "returned"]
  /\ UNCHANGED <<queueVars, workVars, moves>>

\* state_cv_.wait returns.
StopSeen(c) ==
  /\ caller[c] = "waiting" /\ state = "STOPPED"
  /\ caller' = [caller EXCEPT ![c] = "returned"]
  /\ UNCHANGED <<state, queueVars, workVars, moves>>

-----------------------------------------------------------------------------
Bundles == {x.bundle : x \in Items} \ {0}
WorkerStep == Sleep \/ Take \/ Run \/ Exit

Next ==
  \/ Start
  \/ \E x \in Items : Submit(x)
  \/ \E b \in Bundles, p \in Levels : RaiseBundles({b}, p)
  \/ \E p \in Levels : SortLevel(p)
  \/ WorkerStep
  \/ \E c \in Callers : Shutdown(c) \/ Join(c) \/ StopSeen(c)

Spec == Init /\ [][Next]_vars

\* The worker thread is scheduled and tasks return; a caller that was woken
\* returns.  Nobody has to submit, to move tasks or to shut down.
FairSpec == /\ Spec
            /\ WF_vars(WorkerStep)
            /\ \A c \in Callers : WF_vars(Join(c)) /\ WF_vars(StopSeen(c))

-----------------------------------------------------------------------------
(* Properties.                                                             *)

\* The layers of a request are loaded in order, although part of them was
\* promoted and the level sorted while they waited.
LayerOrder ==
  \A i \in 1..Len(done) : \A y \in Waiting \cup ({running} \ {None}) \cup
                               {done[j] : j \in i+1..Len(done)} :
    y.bundle # 0 /\ y.bundle = done[i].bundle => done[i].key <= y.key

\* Every accepted task runs and every shutdown() returns: no wake-up is lost, whoever
\* promotes, sorts, submits or shuts down while the worker is going to sleep.
TasksFinish ==
  /\ \A x \in Items : x \in accepted ~> x \in Range(done)
  /\ \A c \in Callers : caller[c] # "out" ~> caller[c] = "returned"

\* The queue implements the executor its clients rely on.
exPhase == CASE state \in {"CREATED", "RUNNING"} -> "open"
             [] state = "STOPPING" -> "closing"
             [] state = "STOPPED" -> "closed"
Abs == INSTANCE Executor WITH phase <- exPhase, pending <- Waiting,
                              current <- running, finished <- Range(done)

\* TaskQueue, detailed, is an Executor: every step accepts, begins or ends one
\* task, closes, or changes nothing the clients see.
ImplementsExecutor == Abs!ExSpec
=============================================================================
