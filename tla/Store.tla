------------------------------- MODULE Store -------------------------------
(***************************************************************************)
(* Persistence in one rank's worker process: the Python bindings with the  *)
(* GIL, Mem with mutex_ and the deletion guard, Record with its            *)
(* operation_mutex_, its queue thread TZ-REC and the database, Storage     *)
(* with its files, and the death of the process between any two steps.     *)
(*                                                                         *)
(* A call is a short program: a sequence of steps a thread takes one at a  *)
(* time.  "py" is the return to Python, which needs the GIL for a moment;  *)
(* "sync" waits for the Record queue, "unguarded" for the deletion guard.  *)
(* Which group an eviction or a persist picks is left open: the order of   *)
(* the lists is the business of module Mem.                                *)
(***************************************************************************)
EXTENDS Labels

CONSTANTS
  Groups,       \* group keys
  TensorKeys,   \* tensor keys of a group's layers, in order
  Handlers,     \* handler threads of the management server
  Main,         \* the thread of the worker that saves and loads
  Omp,          \* OMP-Main
  Nobody,       \* a lock nobody holds; no group
  Operators,    \* operators: the calls each makes only when what they race with has drained
  MaxBehind     \* bound on the tasks OMP-Main may be behind when a request starts

ASSUME StoreAssumption ==
  /\ IsFiniteSet(Groups) /\ IsFiniteSet(Handlers)
  /\ Groups \subseteq Seq(STRING) /\ TensorKeys \in Seq(Seq(STRING))
  /\ \A g \in Groups : ParseGroupKey(g) # Invalid
  /\ TensorKeys # <<>> /\ \A l \in DOMAIN TensorKeys : ValidLabelComponent(TensorKeys[l])
  /\ \A k, l \in DOMAIN TensorKeys : TensorKeys[k] = TensorKeys[l] => k = l
  /\ Operators \subseteq SUBSET {"persist", "evict"} /\ MaxBehind \in Nat
  /\ Main # Omp /\ {Main, Omp} \cap Handlers = {}
  /\ Nobody \notin Groups \cup Handlers \cup {Main, Omp}

Threads == Handlers \cup {Main, Omp}
NumLayers == Len(TensorKeys)
Layers == 1..NumLayers
NoRow == 2
Locks == {"gil", "mutex", "op"}
\* The file of a layer, under persist_dir/chunks.
FileOf == [g \in Groups |-> [l \in Layers |-> FilePath(MakeFullLabel(g, TensorKeys[l]))]]
Files == UNION {{FileOf[g][l] : l \in Layers} : g \in Groups}
Take == [gil |-> "take_gil", mutex |-> "take_mutex", op |-> "take_op"]

VARIABLES
  mem,        \* mem[g]: layers of the group in Mem
  unpersisted,\* groups on Mem's unpersisted list
  rows,       \* rows[g]: the column persisted, 0 or 1, or NoRow
  file,       \* file[FileOf[g][l]]: "none", "cut" (opened, not fully written), "full"
  queue,      \* TZ-REC: write transactions not yet committed
  holder,     \* holder[k]: who holds the GIL, mutex_, operation_mutex_
  guard,      \* deletion_guard_count_
  todo,       \* todo[t]: the steps left of the call thread t is in
  on,         \* on[t]: the group and the layer that call is about
  loads,      \* OMP-Main: the loads waiting, in the levels above the saves
  omp,        \* OMP-Main: the lowest level, saves and loads tried again
  dropping,   \* groups the scheduler has selected, evict_labels not done
  drained     \* the operator: one of Operators, for good

memVars == <<mem, unpersisted>>
diskVars == <<rows, file>>
tasks == <<loads, omp>>
vars == <<memVars, diskVars, queue, holder, guard, todo, on, tasks, dropping, drained>>

NoWork == [g |-> Nobody, l |-> 0]
Work(g, l) == [g |-> g, l |-> l]

Init ==
  /\ mem = [g \in Groups |-> {}] /\ unpersisted = {}
  /\ rows = [g \in Groups |-> NoRow]
  /\ file = [p \in Files |-> "none"]
  /\ queue = <<>>
  /\ holder = [k \in Locks |-> Nobody] /\ guard = 0
  /\ todo = [t \in Threads |-> <<>>] /\ on = [t \in Threads |-> NoWork]
  /\ loads = {} /\ omp = <<>> /\ dropping = {} /\ drained \in Operators

-----------------------------------------------------------------------------
(* The calls.  A critical section in which nothing is waited for is one    *)
(* step, taken when the lock is free.                                      *)

\* mem.current_bytes, group_count, unpersisted_count: the property keeps the GIL.
Status == <<"take_gil", "count">>

\* mem.get_unpersisted and get_lru_oldest: Python objects are built under mutex_.
Candidates == <<"take_mutex", "py", "drop_mutex">>

\* Record::mark_persisted and Record::remove end with everything queued so far
\* committed; so does Record::sync, called by KVStoreLocal.put and KVFlow.stop.
MarkPersisted == <<"mark_row", "sync">>
RemoveRow == <<"remove_row", "sync">>
Sync == <<"take_op", "sync">>
Stop == Sync \o <<"exit">>

\* put_finish, which is Record::submit with the GIL released, and record_flush.
PutFinish == <<"submit", "py">> \o Sync \o <<"py">>

\* Context::zip_to_mem of every layer, each one task for OMP-Main, then put_finish.
ZipAndFinish == [i \in 1..2 * NumLayers |-> IF i % 2 = 1 THEN "queue_put" ELSE "py"] \o PutFinish

\* Context::unzip_from_mem.
Unzip == <<"queue_get", "py">>

\* Mem::persist_groups of one group.
PersistGroups == <<"take_mutex", "save", "mark">> \o MarkPersisted \o <<"drop_mutex", "py">>

\* Mutant of EvictGroups: the guard is waited for under mutex_, so that no
\* load can start in between.
EvictGroupsLocked == <<"take_mutex", "unguarded", "take_op", "forget", "unlink", "py">>
\* Mem::evict_groups of one group; Record::is_persisted is asked at "forget".
EvictGroups == <<"unguarded", "take_mutex", "take_op", "forget", "unlink", "py">>

\* Mem::evict_labels, posted by the scheduler, and its answer.
EvictLabels == <<"evict", "dropped">>

\* The tasks of OMP-Main: Mem::put, and Mem::get under the deletion guard.  A get
\* that misses Mem asks Record::is_persisted; when that is no, it is tried again
\* behind the saves, once.
PutTask == <<"put">>
GetTask == <<"guard", "take_mutex", "look", "unguard">>
RetryTask == <<"guard", "take_mutex", "look_again", "unguard">>
Miss == <<"take_op", "load", "unguard">>
MissAgain == <<"take_op", "load_again", "unguard">>
TryAgain == <<"unguard", "queue_retry">>

-----------------------------------------------------------------------------
(* Who calls what.                                                         *)

\* The group is being saved or loaded.
Busy(g) == \/ on[Main].g = g \/ on[Omp].g = g
           \/ \E w \in loads : w.g = g
           \/ \E i \in 1..Len(omp) : omp[i].g = g

\* A handler persists or evicts groups; it evicts.
Operator == \E h \in Handlers : on[h].l # 0
Evicts == \E h \in Handlers : \E i \in 1..Len(todo[h]) : todo[h][i] = "unlink"

\* What an operator lets drain.  The code does not check either.
OperatorWaits == drained = {"persist", "evict"}
NoSave == todo[Main] = <<>> /\ todo[Omp] # PutTask /\ \A i \in 1..Len(omp) : ~omp[i].put
NoRequest == todo[Main] = <<>> /\ todo[Omp] = <<>> /\ loads = {} /\ omp = <<>>

Enter(t, w, steps) ==
  /\ todo[t] = <<>> /\ holder["gil"] = Nobody
  /\ todo' = [todo EXCEPT ![t] = steps]
  /\ on' = [on EXCEPT ![t] = w]
  /\ UNCHANGED <<memVars, diskVars, queue, holder, guard, tasks, dropping, drained>>

\* save_kv_layer, layer by layer; the last layer's put is followed by put_finish.
\* With an operator that drains, saves are held back while its calls run.
Save(g) ==
  /\ g \notin dropping /\ Len(omp) <= MaxBehind
  /\ "persist" \in drained => ~Operator
  /\ "evict" \in drained => ~Evicts
  /\ Enter(Main, Work(g, 1), ZipAndFinish)

\* Record::has: there is a row, persisted or not.
Has(g) == rows[g] # NoRow

\* start_load_kv of one layer of a group has() has reported.
Load(g, l) ==
  /\ g \notin dropping /\ Has(g) /\ Len(omp) <= MaxBehind
  /\ "evict" \in drained => ~Evicts
  /\ Enter(Main, Work(g, l), Unzip)

StopCall == Enter(Main, NoWork, Stop)

\* KVStore.status, for the management server or for the worker itself.
ReadStatus(t) == t # Omp /\ Enter(t, NoWork, Status)

\* The management server's routes and KVStore.evict.
Handle(h, g) ==
  \/ /\ g \in unpersisted
     /\ "persist" \in drained => NoSave
     /\ Enter(h, Work(g, 1), PersistGroups)
  \/ /\ mem[g] # {}
     /\ "evict" \in drained => NoRequest
     /\ Enter(h, Work(g, 1), EvictGroups)
  \/ /\ g \in dropping /\ \A k \in Handlers : on[k].g # g
     /\ Enter(h, Work(g, 0), EvictLabels)

\* The OMP-Main thread starts its next task: a load if one waits, in any order
\* (they are sorted and promoted), or the first task of the lowest level.
Serve ==
  /\ todo[Omp] = <<>>
  /\ \/ \E w \in loads :
          /\ todo' = [todo EXCEPT ![Omp] = GetTask]
          /\ on' = [on EXCEPT ![Omp] = w]
          /\ loads' = loads \ {w} /\ UNCHANGED omp
     \/ /\ loads = {} /\ omp # <<>>
        /\ todo' = [todo EXCEPT ![Omp] = IF Head(omp).put THEN PutTask ELSE RetryTask]
        /\ on' = [on EXCEPT ![Omp] = Work(Head(omp).g, Head(omp).l)]
        /\ omp' = Tail(omp) /\ UNCHANGED loads
  /\ UNCHANGED <<memVars, diskVars, queue, holder, guard, dropping, drained>>

-----------------------------------------------------------------------------
(* The steps.                                                              *)

\* Thread t is about to take step s.
At(t, s) == todo[t] # <<>> /\ Head(todo[t]) = s

Free(k) == holder[k] = Nobody
Unlock(k) == holder' = [holder EXCEPT ![k] = Nobody]

\* The rest of the call; a call that ends leaves its thread free.
Then(t, steps) ==
  /\ todo' = [todo EXCEPT ![t] = steps]
  /\ on' = IF steps = <<>> THEN [on EXCEPT ![t] = NoWork] ELSE on
Advance(t) == Then(t, Tail(todo[t]))

\* std::mutex, and the GIL: taken when nobody holds it.
Lock(t) ==
  /\ \E k \in Locks : At(t, Take[k]) /\ Free(k) /\ holder' = [holder EXCEPT ![k] = t]
  /\ Advance(t)
  /\ UNCHANGED <<memVars, diskVars, queue, guard, tasks, dropping, drained>>

\* Steps that wait: for mutex_ with the GIL held, for the futures of the Record
\* with operation_mutex_ held, for the GIL, for the deletion guard.
Wait(t) ==
  /\ \/ At(t, "count") /\ Free("mutex") /\ Unlock("gil")
     \/ At(t, "sync") /\ queue = <<>> /\ Unlock("op")
     \/ At(t, "drop_mutex") /\ Unlock("mutex")
     \/ At(t, "py") /\ Free("gil") /\ UNCHANGED holder
     \/ At(t, "unguarded") /\ guard = 0 /\ UNCHANGED holder
  /\ Advance(t)
  /\ UNCHANGED <<memVars, diskVars, queue, guard, tasks, dropping, drained>>

\* A transaction for TZ-REC; submit() does not wait for it.
Submit(t) ==
  /\ Free("op")
  /\ \/ At(t, "submit") /\ UNCHANGED holder
     \/ /\ At(t, "mark_row") \/ At(t, "remove_row")
        /\ holder' = [holder EXCEPT !["op"] = t]
  /\ queue' = Append(queue, [op |-> Head(todo[t]), g |-> on[t].g])
  /\ Advance(t)
  /\ UNCHANGED <<memVars, diskVars, guard, tasks, dropping, drained>>

\* Mutant of Inserted: the row keeps its persisted mark (INSERT OR IGNORE).
InsertedKeep(g) == IF rows[g] = NoRow THEN 0 ELSE rows[g]
\* INSERT OR REPLACE ... persisted 0.
Inserted(g) == 0

\* TZ-REC commits one transaction.
Commit ==
  /\ queue # <<>>
  /\ LET q == Head(queue) IN
       rows' = [rows EXCEPT ![q.g] =
                 CASE q.op = "submit" -> Inserted(q.g)
                   [] q.op = "mark_row" -> IF rows[q.g] = NoRow THEN NoRow ELSE 1
                   [] q.op = "remove_row" -> NoRow]
  /\ queue' = Tail(queue)
  /\ UNCHANGED <<memVars, file, holder, guard, todo, on, tasks, dropping, drained>>

\* A task for OMP-Main.
Enqueue(t) ==
  /\ \/ /\ At(t, "queue_put")
        /\ omp' = Append(omp, [put |-> TRUE, g |-> on[t].g, l |-> on[t].l]) /\ UNCHANGED loads
     \/ /\ At(t, "queue_get")
        /\ loads' = loads \cup {Work(on[t].g, on[t].l)} /\ UNCHANGED omp
  /\ todo' = [todo EXCEPT ![t] = Tail(@)]
  /\ on' = [on EXCEPT ![t].l = @ + 1]
  /\ UNCHANGED <<memVars, diskVars, queue, holder, guard, dropping, drained>>

\* A load that missed, queued again at the lowest level.
Requeue(t) ==
  /\ At(t, "queue_retry")
  /\ omp' = Append(omp, [put |-> FALSE, g |-> on[t].g, l |-> on[t].l])
  /\ Advance(t)
  /\ UNCHANGED <<memVars, diskVars, queue, holder, guard, loads, dropping, drained>>

\* Mem::put of one layer: the group is to be persisted again.
Put(t) ==
  /\ At(t, "put") /\ Free("mutex")
  /\ mem' = [mem EXCEPT ![on[t].g] = @ \cup {on[t].l}]
  /\ unpersisted' = unpersisted \cup {on[t].g}
  /\ Advance(t)
  /\ UNCHANGED <<diskVars, queue, holder, guard, tasks, dropping, drained>>

Guard(t) ==
  /\ \/ At(t, "guard") /\ guard' = guard + 1
     \/ At(t, "unguard") /\ guard' = guard - 1
  /\ Advance(t)
  /\ UNCHANGED <<memVars, diskVars, queue, holder, tasks, dropping, drained>>

\* A hit ends the call; a miss asks the Record.
Look(t) ==
  /\ At(t, "look") \/ At(t, "look_again")
  /\ IF on[t].l \in mem[on[t].g]
     THEN Advance(t) /\ Unlock("mutex")
     ELSE Then(t, IF At(t, "look") THEN Miss ELSE MissAgain) /\ UNCHANGED holder
  /\ UNCHANGED <<memVars, diskVars, queue, guard, tasks, dropping, drained>>

\* Record::is_persisted with everything committed, by a load under mutex_.
Asks(t) == (At(t, "load") \/ At(t, "load_again")) /\ queue = <<>>
Complete(t) == file[FileOf[on[t].g][on[t].l]] = "full"
UnlockBoth == holder' = [holder EXCEPT !["op"] = Nobody, !["mutex"] = Nobody]

\* load_misses_unlocked: what the Record calls persisted is read; the layer enters
\* Mem and the group leaves the unpersisted list.
ReadFile(t) ==
  /\ Asks(t) /\ rows[on[t].g] = 1 /\ Complete(t)
  /\ mem' = [mem EXCEPT ![on[t].g] = @ \cup {on[t].l}]
  /\ unpersisted' = unpersisted \ {on[t].g}
  /\ Advance(t) /\ UnlockBoth
  /\ UNCHANGED <<diskVars, queue, guard, tasks, dropping, drained>>

\* The Record says no, for the first time.
NotFound(t) ==
  /\ Asks(t) /\ At(t, "load") /\ rows[on[t].g] # 1
  /\ Then(t, TryAgain) /\ UnlockBoth
  /\ UNCHANGED <<memVars, diskVars, queue, guard, tasks, dropping, drained>>

\* Storage::save: the file is truncated when it is opened, then written.
WriteFile(t) ==
  /\ At(t, "save")
  /\ LET g == on[t].g  l == on[t].l IN
       /\ g \in unpersisted /\ l <= NumLayers
       /\ file' = [file EXCEPT ![FileOf[g][l]] =
                    IF l \notin mem[g] THEN @ ELSE IF @ = "cut" THEN "full" ELSE "cut"]
       /\ on' = IF file'[FileOf[g][l]] = "cut" /\ l \in mem[g] THEN on
                ELSE [on EXCEPT ![t].l = @ + 1]
  /\ UNCHANGED <<memVars, rows, queue, holder, guard, todo, tasks, dropping, drained>>

\* All entries of the group are saved, or there is nothing to persist.
Saved(t) ==
  /\ At(t, "save")
  /\ LET g == on[t].g IN
       \/ on[t].l > NumLayers /\ Advance(t)
       \/ g \notin unpersisted /\ Then(t, <<"drop_mutex", "py">>)
  /\ UNCHANGED <<memVars, diskVars, queue, holder, guard, tasks, dropping, drained>>

\* mark_persisted_unlocked, and the removal of a group from Mem.
Mark(t) ==
  /\ \/ At(t, "mark") /\ UNCHANGED <<mem, holder>>
     \/ At(t, "unlink") /\ mem' = [mem EXCEPT ![on[t].g] = {}] /\ Unlock("mutex")
     \/ At(t, "evict") /\ Free("mutex") /\ mem' = [mem EXCEPT ![on[t].g] = {}] /\ UNCHANGED holder
  /\ unpersisted' = unpersisted \ {on[t].g}
  /\ Advance(t)
  /\ UNCHANGED <<diskVars, queue, guard, tasks, dropping, drained>>

\* evict_groups removes the row of a group that is not persisted.
Forget(t) ==
  /\ At(t, "forget") /\ queue = <<>> /\ Unlock("op")
  /\ IF rows[on[t].g] = 1 THEN Advance(t) ELSE Then(t, RemoveRow \o Tail(todo[t]))
  /\ UNCHANGED <<memVars, diskVars, queue, guard, tasks, dropping, drained>>

\* The scheduler hears that every rank has dropped the group.
Dropped(t) ==
  /\ At(t, "dropped") /\ Free("gil")
  /\ dropping' = dropping \ {on[t].g}
  /\ Advance(t)
  /\ UNCHANGED <<memVars, diskVars, queue, holder, guard, tasks, drained>>

-----------------------------------------------------------------------------
(* The other process, and the death of this one.                           *)

\* Record::evict by the scheduler: a group whose lease is over is selected and
\* its row deleted unless it is persisted.  has() has renewed the lease for the
\* request that saves or loads the group, and the lease outlasts the request.
SchedulerEvicts(g) ==
  /\ Has(g) /\ ~Busy(g) /\ g \notin dropping
  /\ rows' = [rows EXCEPT ![g] = IF @ = 1 THEN 1 ELSE NoRow]
  /\ dropping' = dropping \cup {g}
  /\ UNCHANGED <<memVars, file, queue, holder, guard, todo, on, tasks, drained>>

\* Mutant of Cleaned: the rows of the last run are kept.
CleanedNone(g) == rows[g]
\* DELETE FROM chunks WHERE persisted = 0, when the Record is opened.
Cleaned(g) == IF rows[g] = 1 THEN 1 ELSE NoRow

\* What is committed and written stays; the rest starts from nothing.
Reborn ==
  /\ mem' = [g \in Groups |-> {}] /\ unpersisted' = {}
  /\ rows' = [g \in Groups |-> Cleaned(g)]
  /\ queue' = <<>>
  /\ holder' = [k \in Locks |-> Nobody] /\ guard' = 0
  /\ todo' = [t \in Threads |-> <<>>] /\ on' = [t \in Threads |-> NoWork]
  /\ loads' = {} /\ omp' = <<>> /\ dropping' = {}
  /\ UNCHANGED <<file, drained>>

\* The process is killed at any step.
Crash == Reborn

\* The process leaves after KVFlow.stop.
Exit ==
  /\ At(Main, "exit")
  /\ Reborn

\* A load that finds no marked row at its second try, or whose file is missing, aborts
\* the process.  A cut file is read short and does not decompress: it is lost as well.
Lost(t) == Asks(t) /\ IF rows[on[t].g] = 1 THEN ~Complete(t) ELSE At(t, "load_again")
Abort(t) == Lost(t) /\ Reborn

Step(t) == \/ Lock(t) \/ Wait(t) \/ Submit(t) \/ Enqueue(t) \/ Put(t) \/ Guard(t) \/ Look(t)
           \/ ReadFile(t) \/ NotFound(t) \/ Requeue(t) \/ WriteFile(t)
           \/ Saved(t) \/ Mark(t) \/ Forget(t) \/ Dropped(t)

Next ==
  \/ \E g \in Groups : Save(g) \/ \E l \in Layers : Load(g, l)
  \/ \E h \in Handlers, g \in Groups : Handle(h, g)
  \/ \E g \in Groups : SchedulerEvicts(g)
  \/ \E t \in Threads : ReadStatus(t) \/ Step(t) \/ Abort(t)
  \/ StopCall \/ Exit \/ Serve \/ Commit \/ Crash

Spec == Init /\ [][Next]_vars

\* The same with KVFlow.get_persist_candidates and get_evict_candidates.
ListCandidates(h) == Enter(h, NoWork, Candidates)
NextWithCandidates == Next \/ \E h \in Handlers : ListCandidates(h)

\* Every thread runs on, and is not overtaken for ever at a lock: the GIL is
\* handed over on request, and no holder of a mutex keeps taking it without
\* leaving Python in between.  Nobody has to call, to evict or to die.
Fairness ==
  /\ \A t \in Threads : SF_vars(Step(t) \/ Abort(t))
  /\ WF_vars(Serve) /\ WF_vars(Commit) /\ WF_vars(Exit)
FairSpec == Spec /\ Fairness
FairSpecWithCandidates == Init /\ [][NextWithCandidates]_vars /\ Fairness

-----------------------------------------------------------------------------
(* Properties.                                                             *)

\* "`persisted` only says whether the disk copy exists": every layer of a group whose
\* row is marked has a completely written file.  With an operator who persists under
\* traffic it does not hold.
OnDisk == \A g \in Groups : rows[g] = 1 => \A l \in Layers : file[FileOf[g][l]] = "full"

\* When the operator's calls wait for the requests they race with, what is marked
\* persisted is on disk, after any evictions, re-saves, loads and deaths of the
\* process between two steps of Mem, Storage and Record.
DiskComplete == OperatorWaits => OnDisk

\* A load of a group the database reports finds its layer, in Mem or on disk, at
\* the second try at the latest, so that the process does not abort; for the same
\* operator.
Served == \A t \in Threads : ~Lost(t)
LoadsServed == OperatorWaits => Served

\* Every call of a binding returns: no thread waits for ever for the GIL, for
\* mutex_, for operation_mutex_, for the Record's queue or for the deletion guard.
\* It holds of the save, load, status, persist and eviction calls with any operator
\* (FairSpec), and fails once candidates are listed (FairSpecWithCandidates).
StoreReturns == \A t \in Threads : todo[t] # <<>> ~> todo[t] = <<>>
=============================================================================
