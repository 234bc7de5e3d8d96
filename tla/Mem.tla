-------------------------------- MODULE Mem --------------------------------
(***************************************************************************)
(* The compressed DDR pool of one rank: the index cache_, the LRU and the  *)
(* unpersisted lists, the byte and entry counters, and the heap buffers    *)
(* the entries own.                                                        *)
(*                                                                         *)
(* Every call holds mutex_ for its whole batch and is one action.  What is *)
(* not under mutex_ is a step of its own: a load takes the deletion guard, *)
(* looks its pointers up, decompresses from them and drops the guard; the  *)
(* iaxl-mem-free thread and the evicting calls wait for the guard first    *)
(* and act later.  Loads and saves run on one thread, OMP-Main.            *)
(*                                                                         *)
(* A buffer is named once: freeing does not recycle its name, so a pointer *)
(* that is still held can be told from a new one.                          *)
(***************************************************************************)
EXTENDS Integers, Sequences, FiniteSets, FiniteSetsExt, SequencesExt

CONSTANTS
  Groups,      \* group keys
  Tensors,     \* tensor keys of a group (layers)
  Buffers,     \* malloc'ed buffers, each allocated at most once
  SizeOf,      \* SizeOf[b]: bytes of buffer b
  Nil,         \* no buffer
  Batches,     \* the chunk lists a put, a get or an evict_labels may name
  Evictors,    \* threads calling evict_groups, evict_to_size, remove, clear
  EvictCalls,  \* the calls they make
  MaxPersist   \* bound on max_groups of persist_groups

ASSUME MemAssumption ==
  /\ IsFiniteSet(Groups) /\ IsFiniteSet(Tensors)
  /\ SizeOf \in [Buffers -> Nat \ {0}]
  /\ Nil \notin Buffers
  /\ Batches \subseteq Seq(Groups)
  /\ \A p \in Batches : p # <<>> /\ IsInjective(p)
  /\ EvictCalls \subseteq ([op : {"groups", "size", "force"}, n : Nat]
                           \cup [op : {"remove"}, g : Groups] \cup [op : {"clear"}])
  /\ MaxPersist \in Nat

VARIABLES
  buf,            \* buf[g][t]: the data pointer of the sub-entry, or Nil
  lru,            \* the LRU list, oldest first
  unpersisted,    \* the unpersisted list, oldest first
  isPersisted,    \* groups whose is_persisted flag is set
  bytes,          \* current_bytes_
  entries,        \* total_entries_
  live,           \* buffers malloc'ed and not freed
  used,           \* buffers ever malloc'ed
  guard,          \* deletion_guard_count_
  omp,            \* what OMP-Main executes
  held,           \* the pointers the running load decompresses from
  freeQueue,      \* free_queue_: batches of detached buffers
  freeing,        \* the front task of free_queue_ is past wait_deletion_guard
  evictor,        \* evictor[e]: progress of an evicting call
  evictEnabled,   \* evict_enabled_
  disk,           \* disk[g][t]: bytes of the file, 0 without one
  rows,           \* groups with a row in the database
  rowPersisted    \* rows with persisted = 1

indexVars  == <<buf, lru, unpersisted, isPersisted, bytes, entries>>
heapVars   == <<live, used>>
readVars   == <<guard, omp, held>>
freeVars   == <<freeQueue, freeing>>
recordVars == <<disk, rows, rowPersisted>>
vars == <<indexVars, heapVars, readVars, freeVars, evictor, evictEnabled, recordVars>>

Idle == [st |-> "idle"]
Busy(st, p, t) == [st |-> st, p |-> p, t |-> t]

-----------------------------------------------------------------------------
(* The index.                                                              *)

BufsOf(gs) == {buf[g][t] : g \in gs, t \in Tensors} \ {Nil}
\* The groups in cache_, as has_unlocked finds them.
Cached == {g \in Groups : \E t \in Tensors : buf[g][t] # Nil}
SizeSum(bs) == MapThenSumSet(LAMBDA b : SizeOf[b], bs)
Without(s, gs) == SelectSeq(s, LAMBDA g : g \notin gs)
Only(s, gs) == SelectSeq(s, LAMBDA g : g \in gs)
Prefix(s, n) == SubSeq(s, 1, IF n <= Len(s) THEN n ELSE Len(s))

Init ==
  /\ buf = [g \in Groups |-> [t \in Tensors |-> Nil]]
  /\ lru = <<>> /\ unpersisted = <<>> /\ isPersisted = {}
  /\ bytes = 0 /\ entries = 0
  /\ live = {} /\ used = {}
  /\ guard = 0 /\ omp = Idle /\ held = {}
  /\ freeQueue = <<>> /\ freeing = FALSE
  /\ evictor = [e \in Evictors |-> Idle]
  /\ evictEnabled = TRUE
  /\ disk = [g \in Groups |-> [t \in Tensors |-> 0]]
  /\ rows = {} /\ rowPersisted = {}

\* The groups a put appends to the unpersisted list.
Relist(gs) == gs \ (Cached \ isPersisted)

\* Mutant of Replaced: the old bytes stay on the account.
ReplacedNone(p, t) == {}
\* The buffers a put of tensor t of the groups p replaces.
Replaced(p, t) == {buf[g][t] : g \in Range(p)} \ {Nil}

\* put_one_unlocked for each group of p, in order: the sub-entry takes the new
\* buffer new[g], the buffer it replaces is freed.
PutIndex(p, t, new) ==
  /\ buf' = [g \in Groups |-> IF g \in Range(p) THEN [buf[g] EXCEPT ![t] = new[g]]
                                                ELSE buf[g]]
  /\ lru' = Without(lru, Range(p)) \o p
  /\ bytes' = bytes - SizeSum(Replaced(p, t)) + SizeSum({new[g] : g \in Range(p)})
  /\ entries' = entries + Cardinality({g \in Range(p) : buf[g][t] = Nil})
  /\ live' = (live \ Replaced(p, t)) \cup {new[g] : g \in Range(p)}
  /\ used' = used \cup {new[g] : g \in Range(p)}

\* Fresh buffers for the groups gs.
Fresh(gs) == {new \in [gs -> Buffers \ used] : IsInjective(new)}

\* Removes the groups gs from the index, the lists and the counters.
Unlink(gs) ==
  /\ buf' = [g \in Groups |-> IF g \in gs THEN [t \in Tensors |-> Nil] ELSE buf[g]]
  /\ lru' = Without(lru, gs)
  /\ unpersisted' = Without(unpersisted, gs)
  /\ isPersisted' = isPersisted \ gs
  /\ bytes' = bytes - SizeSum(BufsOf(gs))
  /\ entries' = entries - Cardinality(BufsOf(gs))

-----------------------------------------------------------------------------
(* OMP-Main: saves and loads.                                              *)

\* The compression task's Mem::put of one tensor of a batch of groups.
Put(p, t) ==
  /\ omp = Idle
  /\ \E new \in Fresh(Range(p)) : PutIndex(p, t, new)
  /\ unpersisted' = unpersisted \o Only(p, Relist(Range(p)))
  /\ isPersisted' = isPersisted \ Range(p)
  /\ UNCHANGED <<readVars, freeVars, evictor, evictEnabled, recordVars>>

\* UnzipFromMemWork::execute: take the guard, ...
Acquire(p, t) ==
  /\ omp = Idle
  /\ omp' = Busy("guarded", p, t)
  /\ guard' = guard + 1
  /\ UNCHANGED <<indexVars, heapVars, held, freeVars, evictor, evictEnabled, recordVars>>

\* ... look the pointers up under mutex_: what the index has, and what it has
\* not but the database calls persisted.
Hits == {g \in Range(omp.p) : buf[g][omp.t] # Nil}
Loads == (Range(omp.p) \ Hits) \cap rowPersisted

\* load_misses_unlocked: the loaded groups get a buffer of the file's size and
\* stay persisted.
LoadMisses(t, new) ==
  /\ \A g \in Loads : SizeOf[new[g]] = disk[g][t]
  /\ buf' = [g \in Groups |-> IF g \in Loads THEN [buf[g] EXCEPT ![t] = new[g]] ELSE buf[g]]
  /\ bytes' = bytes + SizeSum({new[g] : g \in Loads})
  /\ entries' = entries + Cardinality(Loads)
  /\ live' = live \cup {new[g] : g \in Loads}
  /\ used' = used \cup {new[g] : g \in Loads}
  /\ unpersisted' = Without(unpersisted, Loads)
  /\ isPersisted' = isPersisted \cup Loads

\* Hits, then loaded groups, become the most recent.  The pointers are dropped
\* when anything is missing.  A file that is not there aborts the process: that
\* step is not taken.
Get ==
  /\ omp.st = "guarded"
  /\ \A g \in Loads : disk[g][omp.t] # 0
  /\ \E new \in Fresh(Loads) : LoadMisses(omp.t, new)
  /\ lru' = Without(lru, Hits \cup Loads) \o Only(omp.p, Hits) \o Only(omp.p, Loads)
  /\ held' = IF Hits \cup Loads = Range(omp.p) THEN {buf'[g][omp.t] : g \in Range(omp.p)} ELSE {}
  /\ omp' = [omp EXCEPT !.st = "using"]
  /\ UNCHANGED <<guard, freeVars, evictor, evictEnabled, recordVars>>

\* ... decompress from them and drop the guard.
Release ==
  /\ omp.st = "using"
  /\ omp' = Idle
  /\ held' = {}
  /\ guard' = guard - 1
  /\ UNCHANGED <<indexVars, heapVars, freeVars, evictor, evictEnabled, recordVars>>

-----------------------------------------------------------------------------
(* evict_labels and the iaxl-mem-free thread.                              *)

\* The groups are unlinked now; their buffers become one task of free_queue_.
EvictLabels(gs) ==
  /\ gs \cap Cached # {}
  /\ Unlink(gs)
  /\ freeQueue' = Append(freeQueue, BufsOf(gs))
  /\ UNCHANGED <<heapVars, readVars, freeing, evictor, evictEnabled, recordVars>>

\* Mutant of Unguarded: the guard is not looked at.
UnguardedAlways == TRUE
\* Mutant of Unguarded: the test is inverted.
UnguardedInverted == guard # 0
\* wait_deletion_guard returns.
Unguarded == guard = 0

FreeWait ==
  /\ freeQueue # <<>> /\ ~freeing
  /\ Unguarded
  /\ freeing' = TRUE
  /\ UNCHANGED <<indexVars, heapVars, readVars, freeQueue, evictor, evictEnabled, recordVars>>

\* Mutant of FreeBatch: the batch is popped and its buffers are kept.
FreeBatchLeak ==
  /\ freeing
  /\ freeing' = FALSE
  /\ freeQueue' = Tail(freeQueue)
  /\ UNCHANGED <<indexVars, heapVars, readVars, evictor, evictEnabled, recordVars>>

FreeBatch ==
  /\ freeing
  /\ freeing' = FALSE
  /\ live' = live \ Head(freeQueue)
  /\ freeQueue' = Tail(freeQueue)
  /\ UNCHANGED <<indexVars, used, readVars, evictor, evictEnabled, recordVars>>

-----------------------------------------------------------------------------
(* evict_groups, evict_to_size, force_evict_to_size, remove and clear.     *)

\* The call starts.  evict_to_size reads the switch here; clear does not wait.
EvictStart(e, c) ==
  /\ evictor[e] = Idle
  /\ c.op = "size" => evictEnabled
  /\ evictor' = [evictor EXCEPT ![e] = [st |-> IF c.op = "clear" THEN "ready" ELSE "waiting",
                                        call |-> c]]
  /\ UNCHANGED <<indexVars, heapVars, readVars, freeVars, evictEnabled, recordVars>>

\* wait_deletion_guard returns; mutex_ is not held yet.
EvictWait(e) ==
  /\ evictor[e].st = "waiting"
  /\ Unguarded
  /\ evictor' = [evictor EXCEPT ![e].st = "ready"]
  /\ UNCHANGED <<indexVars, heapVars, readVars, freeVars, evictEnabled, recordVars>>

\* The shortest prefix of the LRU list whose eviction brings the pool down to
\* target bytes.
DownTo(target) ==
  Prefix(lru, Min({n \in 0..Len(lru) :
                     n = Len(lru) \/ bytes - SizeSum(BufsOf(Range(SubSeq(lru, 1, n)))) <= target}))

\* The groups the call evicts, looked up once mutex_ is held.
Victims(c) ==
  CASE c.op = "groups" -> IF evictEnabled THEN Range(Prefix(lru, c.n)) ELSE {}
    [] c.op \in {"size", "force"} -> Range(DownTo(c.n))
    [] c.op = "remove" -> {c.g} \cap Cached
    [] c.op = "clear" -> Cached

\* evict_groups deletes the rows of the groups that are not on disk.
Forgotten(c) == IF c.op = "groups" THEN Victims(c) \ rowPersisted ELSE {}

\* Under mutex_: the groups are unlinked and their buffers freed at once.
EvictLocked(e) ==
  /\ evictor[e].st = "ready"
  /\ LET c == evictor[e].call IN
       /\ Unlink(Victims(c))
       /\ live' = live \ BufsOf(Victims(c))
       /\ rows' = rows \ Forgotten(c)
       /\ rowPersisted' = rowPersisted \ Forgotten(c)
  /\ evictor' = [evictor EXCEPT ![e] = Idle]
  /\ UNCHANGED <<used, readVars, freeVars, evictEnabled, disk>>

SetEvictEnabled(b) ==
  /\ evictEnabled # b
  /\ evictEnabled' = b
  /\ UNCHANGED <<indexVars, heapVars, readVars, freeVars, evictor, recordVars>>

-----------------------------------------------------------------------------
(* Persisting.                                                             *)

\* persist_groups: the oldest n unpersisted groups are saved, entry by entry,
\* then marked in the index and, where they have a row, in the database.
Persist(n) ==
  /\ unpersisted # <<>>
  /\ LET gs == Range(Prefix(unpersisted, n)) IN
       /\ disk' = [g \in Groups |-> [t \in Tensors |->
                    IF g \in gs /\ buf[g][t] # Nil THEN SizeOf[buf[g][t]] ELSE disk[g][t]]]
       /\ unpersisted' = Without(unpersisted, gs)
       /\ isPersisted' = isPersisted \cup gs
       /\ rowPersisted' = rowPersisted \cup (gs \cap rows)
  /\ UNCHANGED <<buf, lru, bytes, entries, heapVars, readVars, freeVars, evictor,
                 evictEnabled, rows>>

\* Record::submit by put_finish: the row is new or replaced, persisted = 0.
RecordSubmit(p) ==
  /\ rows' = rows \cup Range(p)
  /\ rowPersisted' = rowPersisted \ Range(p)
  /\ UNCHANGED <<indexVars, heapVars, readVars, freeVars, evictor, evictEnabled, disk>>

-----------------------------------------------------------------------------
OmpMain == \/ \E p \in Batches, t \in Tensors : Put(p, t) \/ Acquire(p, t)
           \/ Get
           \/ Release
FreeThread == FreeWait \/ FreeBatch

Next ==
  \/ OmpMain
  \/ FreeThread
  \/ \E p \in Batches : EvictLabels(Range(p)) \/ RecordSubmit(p)
  \/ \E e \in Evictors : \/ \E c \in EvictCalls : EvictStart(e, c)
                         \/ EvictWait(e)
                         \/ EvictLocked(e)
                         \/ \E b \in BOOLEAN : SetEvictEnabled(b)
  \/ \E n \in 1..MaxPersist : Persist(n)

Spec == Init /\ [][Next]_vars

\* OMP-Main finishes a load it has started, the free thread is scheduled.
FairSpec == Spec /\ WF_vars(Get) /\ WF_vars(Release) /\ WF_vars(FreeThread)

-----------------------------------------------------------------------------
(* Properties.                                                             *)

\* Every variable stays in its type.
TypeOK ==
  /\ buf \in [Groups -> [Tensors -> Buffers \cup {Nil}]]
  /\ lru \in Seq(Groups) /\ unpersisted \in Seq(Groups) /\ isPersisted \subseteq Groups
  /\ bytes \in Nat /\ entries \in Nat
  /\ live \subseteq used /\ used \subseteq Buffers
  /\ guard \in 0..1
  /\ omp \in {Idle} \cup {Busy(st, p, t) : st \in {"guarded", "using"}, p \in Batches, t \in Tensors}
  /\ held \subseteq Buffers
  /\ freeQueue \in Seq(SUBSET Buffers) /\ freeing \in BOOLEAN
  /\ evictor \in [Evictors -> {Idle} \cup [st : {"waiting", "ready"}, call : EvictCalls]]
  /\ evictEnabled \in BOOLEAN
  /\ disk \in [Groups -> [Tensors -> Nat]]
  /\ rows \subseteq Groups /\ rowPersisted \subseteq rows

\* Buffers waiting on the free thread.
Detached == UNION Range(freeQueue)

\* Every live buffer has exactly one owner, an entry or a batch of the free
\* queue, and every owner's buffer is live: nothing leaks, nothing is freed twice.
HeapExact ==
  /\ live = BufsOf(Groups) \cup Detached
  /\ BufsOf(Groups) \cap Detached = {}
  /\ \A g, h \in Groups : \A t, u \in Tensors :
       buf[g][t] = buf[h][u] /\ buf[g][t] # Nil => g = h /\ t = u
  /\ \A i, j \in 1..Len(freeQueue) : i # j => freeQueue[i] \cap freeQueue[j] = {}

\* The free thread never frees a batch a running load decompresses from, though
\* evict_labels unlinked its groups after the load had looked them up.
DetachedApart == freeing => held \cap Head(freeQueue) = {}

\* A load decompresses only from buffers that have not been freed.
NoUseAfterFree == held \subseteq live

\* current_bytes_ and total_entries_ are what the index holds.
Accounting == /\ bytes = SizeSum(BufsOf(Groups))
              /\ entries = Cardinality(BufsOf(Groups))

\* The LRU list holds every cached group once; the unpersisted list holds once
\* each cached group whose flag is not set.
ListsMatch ==
  /\ IsInjective(lru) /\ Range(lru) = Cached
  /\ IsInjective(unpersisted) /\ Range(unpersisted) = Cached \ isPersisted
  /\ isPersisted \subseteq Cached

\* Index, heap, lists and counters tell the same story after every call, on every
\* path: new, replaced, re-saved after persisting, reloaded, evicted, cleared.
Bookkeeping == TypeOK /\ HeapExact /\ Accounting /\ ListsMatch

\* When no load runs any more, every detached batch is freed.
FreedWhenIdle == []<>(freeQueue = <<>>) \/ []<>(guard > 0)
=============================================================================
