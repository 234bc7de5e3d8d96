# Verification of the IAXL KV cache pool

TLA+ models of the KV-cache pool and its vLLM connector, the TLC
configurations that check them on small instances, and TLAPS proofs for every
instance. Source paths are relative to the repository root.

## 1. The system

A vLLM scheduler process and one worker process per rank share a compressed
KV cache. The scheduler asks which blocks of a prompt are cached, the workers
load and save blocks layer by layer, and a monitor thread in the scheduler
evicts when the DDR pool of rank 0 is full.

| Component | State | Operations | Talks to |
|---|---|---|---|
| Connector, scheduler side (`kvshrink/kvshrink_connector.py`) | per request: blocks to load, blocks to save | lookup, dispatch with a forward pass, completion | `has()`; metadata to every rank |
| Connector, worker side (same file) | pending loads and saves per request and layer | start_load_kv, wait_for_layer_load, save_kv_layer, wait_for_save, get_finished | KVStore get/put |
| `KVStoreLocal` (`iaxl/kvstore/kvstore.py`) | `_evicting`, `_evicted_until`, `_evict_enabled` | has, put, get, evict_lru, monitor loop, pause switch, persist | Record, Mem, controller |
| Management API (`iaxl/kvstore/api.py`) | routes, one client per rank | broadcast, evict_labels, persist, status | scheduler to workers over HTTP |
| KVFlow, scratch pool (`iaxl/kvflow`) | registered tensors, free scratch blocks, work in flight | put, put_wait, get, get_wait, persist, evict | native context |
| Native context (`iaxl/csrc/torch_ext`) | three task queues, pending futures | zip_to_mem, unzip_from_mem, transfers, waits | Mem, codec, transfer back ends |
| Task queue (`iaxl/csrc/include/task_queue.h`) | four levels of tasks, state, one thread | init, submit, promote bundles, sort a level, shutdown | its clients' closures |
| Thread pool (`iaxl/csrc/common/parallel.cpp`) | generation, team, pending count | run, worker loop | codec, Mem prefault |
| Mem (`iaxl/csrc/kv_pool/mem.cpp`) | index, LRU and unpersisted lists, byte and entry counters, deletion guard, free queue | put, get, has, evict_labels, evict_groups, evict_to_size, remove, clear, persist | Storage, Record |
| Record (`iaxl/csrc/kv_pool/record.cpp`) | `chunks.db`: rows, `persisted`, `last_access`; queued writes | submit, touch, evict, mark_persisted, remove, has, sync | SQLite |
| Storage (`iaxl/csrc/kv_pool/storage.cpp`) | one file per entry | save, load | file system |
| Labels (`iaxl/csrc/include/kv_pool.h`) | none | make and parse group keys and full labels, path of an entry | Mem, Record, Storage |
| Python bindings (`iaxl/csrc/torch_ext/torch_ext.cpp`) | the GIL | every native call | all native parts |
| Codec front end (`iaxl/csrc/kv_zip`) | lane plan; per batch: segments, cursors, pending counts, parked payloads | compress and decompress a batch | CPU, IAA, QAT back ends |
| Compression back ends (`cpu_zip`, `iaa_zip`, `qat_zip`) | instances, slots with buffers and a job each | init, submit, wait or poll | devices |
| KV pool registry (`iaxl/csrc/kv_pool/pool.cpp`) | named pools: base, geometry | register, unregister, block addresses, hooks | RDMA registrations |
| Transfer back ends (`iaxl/csrc/kv_xfer`, `dsa_gd`) | streams, pooled events, DSA slots and tickets, BAR mappings, RDMA registrations | copy chunks, record, wait, reset | devices |
| `SliceCopier` (`iaxl/tensor_ops.py`) | two pools, a context, a stream | copy, close | native context |
| Remote pool (`iaxl/remote_pool`) | sequence numbers, pending replies, registered clients | the KVStore calls over RPC | daemon's KVStore |

What is hard here:

* **Asynchrony across processes.** A hit reported by `has()` is used later, by
  other processes, on threads nobody can stop. Two mechanisms protect it: the
  `_evicting` set `has()` waits for, and the lease (touched rows are not
  selected for `IAXL_DDR_POOL_EVICT_LEASE_S`).
* **Rows before data.** `put_finish` writes the row when the last layer is
  *queued*; the compressed layers land later. A load that overtakes its save is
  retried once, behind the saves; a second miss aborts the process.
* **Re-saves.** Hits behind the first miss are saved again while stored.
* **Crash and restart.** Every rank cleans its own database when it starts.
* **Raw pointers.** Loads decompress from pointers into Mem without its lock;
  the deletion guard and the free thread keep them alive.
* **Condition variables.** Task queue shutdown, the thread pool, `has()`.
* **Shared devices.** QAT answers are polled by any thread, a DSA slot is reaped
  and reused by others while its waiter polls it, one context's destructor resets
  the mappings of all, and events come back from a pool already complete.
* **In-place assembly.** Compressed segments are parked over the tensor they come
  from; the thread that finishes the last one copies them out.
* **Four locks and two queues.** The GIL, `mutex_`, `operation_mutex_`, the deletion
  guard, and the queues of Record and OMP-Main are waited for under one another.

What makes each part correct: the index agrees with every rank's pool
(Consistency, Completeness); a request once promised is served; an eviction
pass reaches everything resident; buffers are owned once and not read after
free; counters and lists agree with the index; queues run everything they
accept exactly once and drain; a thread-pool function is called only while its
caller waits. PROJECT.json lists the hazards line by line.

## 2. Modules

| Module | Models | Checked by |
|---|---|---|
| `EvictProtocol` | scheduler, monitor, operator, ranks with OMP-Main queues, databases, disks, clock, restarts | `evict_two_ranks`, `evict_restart` |
| `EvictProtocolProofs` | theorems `LeaseSafety`, `TypeCorrect`, `PauseIsKept`, `CutOnlyAdvances` | TLAPS |
| `EvictDataProofs` | theorems `LoadsNeverAbort`, `IndexIsConsistent`, `GroupsAreComplete`, `PutsMissEviction`, `ResidentsCanBeEvicted` | TLAPS |
| `Mem` | one rank's pool, heap, guard, free thread, evicting calls | `mem`, `mem_use_after_free` |
| `MemProofs` | theorems `Ownership`, `FreesApart`, `GuardSafety` | TLAPS |
| `Executor` | what clients rely on from a task queue | as a property of `TaskQueue` |
| `TaskQueue` | `task_queue.h` | `task_queue` |
| `TaskQueueProofs` | theorems `LayersInOrder`, `QueueIsExecutor` | TLAPS |
| `ThreadPool` | `parallel.cpp` | `thread_pool` |
| `ThreadPoolProofs` | theorems `FnStaysAlive`, `EveryTeamRan` | TLAPS |
| `Flow` | KVFlow, the scratch pool, the native context with its three queue threads, the device | `flow` |
| `FlowProofs` | theorems `BlocksHaveOneOwner`, `FlightKeepsBlocks`, `WhatIsSavedIsRight`, `WhatIsLoadedIsRight`, `OnlyTheImpossibleRaises` | TLAPS |
| `ZipPlan` | environment, discovery, lane plan, block layout, shuffle and mask as operators | in `KvZip` |
| `KvZip` | the pipeline of `kv_zip.cpp` over the slots of the three back ends, save and load | `zip` |
| `KvPool` | geometry, addresses, rows of a copy per back end, as operators | in `Xfer` |
| `Dsa` | `dsa_memcpy.c` (asynchronous path) and the mappings of `dsa_gd.c` | in `Xfer` |
| `Xfer` | contexts, transfer threads, streams, events, RDMA, registry; extends `Dsa` and `KvPool` | `xfer` |
| `XferProofs` | theorems `WaitsCoverTheirTicket`, `BatchesKeepTheirSlot`, `CopiesFollowCompute`, `BatchesStayInWindows`, `ListsOutliveContexts` | TLAPS |
| `Labels` | names of groups, entries and files, as operators | in `Store`, and by assumptions of `MCStore` |
| `Store` | bindings, Mem, Record with its queue, Storage, crashes: one worker process | `store`, `store_persist`, `store_candidates` |
| `StoreProofs` | theorems `StoreDiskComplete`, `StoreLoadsServed`, `StoreInvariant`, `StoreForms`, `FilesDiffer` | TLAPS |

The `MC*` modules only name constant values. `EvictProtocol` composes the
components: it contains Mem, Record, Storage and the task queue reduced to what
the protocol distinguishes (which layers of a group are in Mem or on disk, which
rows exist, loads before saves); `Mem`, `TaskQueue`, `ThreadPool` and `Store` model the
same components in detail. `Flow` has the device as one queue of copies per
direction; `Xfer` has what is behind it.

### EvictProtocol

A group is a block hash, complete on a rank when all its layers are there. The
payload is left out: the hash determines it.

* `Has` is `get_num_new_matched_tokens` with `has()`: it waits for `_evicting`
  (`MayLook`), truncates at the first miss (`Matched`), touches all rows queried
  (`Touched`). The touch is queued in the code, but every later query and
  eviction of the same process syncs first, so it is part of the action.
* `Dispatch` is `build_connector_meta`; `Finish` is `get_finished` on all ranks.
* `StartLoad` and `SaveLayer` are the forward pass of one rank: one get per layer
  in the load levels, then layer by layer one put at the lowest level; the last
  layer also runs `put_finish` (`Submit`).
* `RunLoad`, `RunRetry`, `RunPut` are the tasks on OMP-Main. Loads go before
  saves; `Retry` puts a missed load behind them.
* `EvictBegin`, `EvictSelect`, `EvictLabels`, `EvictDone` are `evict_lru`: the
  selection under the lock with the SQL's cut (`Selected`), the broadcast, the
  clearing of `_evicting`, the next batch.
* `PauseEvict`, `PauseReturns`, `ResumeEvict`, `PersistBegin`, `PersistRank` are
  the operator's requests. `PersistMode` says when persist is posted: never, as
  documented with eviction paused, or only with no request in flight. The runs
  use the last; finding 3 of section 4 says why the second fails.
* `Tick` advances the clock only while no live request is older than the lease:
  that is the documented sizing rule of the lease, an assumption on deployment.
  Timestamps are `now * SubTicks + position`, so rows of one batch differ.
* `Restart` takes the whole deployment down at any step. It advances the clock, and
  rows need a tick to become old enough for a pass, so with the clock of
  `evict_restart` no behaviour has both a restart and an eviction.

A load that would abort sets `aborted`.

### Mem

`buf[g][t]` is the pointer of a sub-entry; a buffer name is used once, so a
dangling pointer is visible. Each call under `mutex_` is one action. A load is
three steps (`Acquire`, `Get`, `Release`), the free thread two (`FreeWait`,
`FreeBatch`), an evicting call three (`EvictStart`, `EvictWait`, `EvictLocked`),
because the guard is checked outside the lock. `Get` of a group the database
calls persisted but whose file is missing aborts the process; the step is not
taken here, `EvictProtocol` is where that is checked. `DetachedApart` is what the free thread
and `evict_labels` guarantee whoever else evicts; `NoUseAfterFree` also needs that nobody calls
the direct evicting functions during a load.

### TaskQueue and Executor

Critical sections are actions; the worker sleeps in `cv_.wait` as a state of its
own and `Notify` wakes it. `InTurn` is the connector's submission order: the
layers of a request in order and never at a more urgent level than the one
before. `Executor` accepts, begins and ends tasks and closes when empty;
`ImplementsExecutor` maps the four levels to one set of pending tasks.

### ThreadPool

`job[t]` remembers which run's function a worker has taken, so calling it after
that `run()` returned is visible. `ran` counts calls per run and thread.

### Flow

A chunk of a layer is a key and a block's content is the key it carries, so a
block handed out too early shows as a wrong key. One Python thread makes the
calls (the pool is not thread-safe by contract); each layer of a call is a task
that holds blocks until somebody waits for it.

* `PutLayer`, `GetLayer` are one turn of the loops of `put()` and `get()`;
  `Poll` and `Raise` are `_allocate` when the pool is short; `Release` is the end
  of `put_wait` and `get_wait`, reached by the client (`Wait`) or by the poll.
* `IssueD2H`, `IssueH2D` are the transfer threads: a copy and the event behind
  it. `DeviceCopy` is the device (external): in order per direction.
* `PopHigh`, `PopLow`, `ZipToMem`, `UnzipFromMem`, `Miss` are OMP-Main. It stays
  on a save until the event is reached. The load levels are one set, which
  covers every promotion and sort.
* A load is called only for keys whose `put()` has returned (`Recorded`), which
  is what `has()` reports; the save itself may still be queued. Eviction is left
  to `EvictProtocol`.

### ZipPlan and KvZip

A byte is the record of the tensor and position it came from and whether the lossy
mask has cut it; a DEFLATE stream of n bytes is n tokens that carry the data and
the family (`Family`: IAA, or QAT and CPU) that can decode it. How far a segment
shrinks or grows (at most `Growth`) is open, so "stored" segments occur.

* `LanePlan` is `lane_plan`: which worker drives which slot of which back end;
  `QatInstances`, `IaaInstances`, `DiscoverAll`, `DiscoverIaaNodes` (the nodes of the
  devices in sysfs) and `SelectIaaNodes` (the nodes of the memory policy among them) are
  the initialisations it rests on.
* A lane offers the next item to its slot (`Offer`, `Submit`), and polls it.
  `PollQat` runs the callbacks of every finished request of the instance (`Called`),
  whoever owns them; `ReplayFault` is the page-fault loop of `iaa_zip_wait`.
* `ZipComplete` decides between storing, parking (`Park`) and, for the last
  segment of a tensor, assembling (`Assembled`); `Parked` is the decrement that
  follows. `UnzipComplete` places a segment.
* `SaveBegin`, `SaveReturns`, `LoadBegin`, `LoadReturns` are the batch calls;
  `Restart` hands the blocks to a process with another environment.
* An enabled back end with no worker never decodes its blocks, and a segment that
  grows beyond the output buffer aborts: both are excluded by the configurations.

### KvPool, Dsa and Xfer

A process (`proc`) has a kind (GPU, remote, CPU), switches (DSA, the wait of a get for
the compute stream, reset on destroy), the faults that may happen in it, pools, and two
jobs: layers of a put or get, or SliceCopiers. A row is a run of contiguous bytes on both sides; `landed[c]` holds the
rows context c has moved.

* `RegisterPool`, `UnregisterPool` with the RDMA hooks, `FlowCreate`,
  `CopierCreate`, `XferWaitCurStream`, `XferChunksBatch`, `XferFinish` are the
  callers; `Run*` the H2D and D2H threads; `WaitFuture`, `DsaWaitStep`, `EventWait`
  are `xfer_wait`; `Destroy`, `ResetDone` the destructor.
* `RunCopyDsa` and `RunDsaSubmit` are `dsa_copy_chunks_batch`: the span of the blocks
  is pinned, entries are built, and a refusal (a failed pin, an entry that is
  too long) falls back to the stream. `SubmitSlot` reaps finished slots of the
  next queue and submits one batch; with no free slot the thread tries again with
  `dsa_context_mutex` held. `WaitLook` and `WaitPoll` are `dsa_memcpy_batch_wait`:
  the lookup is locked, the poll is not.
* `Waits(c)`: the first context of a put always waits for the compute stream, on the host
  and on its stream. That of a get does so only with `IAXL_CACHE_STREAM_SYNC_ON_GET`
  (`syncGet`; off by default), and only by a wait queued on the copy stream. `AfterCompute` is
  therefore about all puts, and about gets with the switch and without DSA (`Ordered`).
  A get without the switch starts at once: that nothing on the compute stream still uses its
  blocks is up to the caller. A get with the switch and through DSA is
  not ordered either (section 4).
* Streams, the compute stream and the DSA engine are external (`StreamStep`,
  `CurStep`, `DsaStep`): streams in order, DSA in any order.
* Pools lie on pages of their own, as GPU allocators place them: the BAR window of
  an entry is looked up by the length of one inner row. Work queues are dedicated
  (no `enqcmd` retry). The ten-second limit of the polls is not modelled.

### Labels and Store

A call is a program of steps (`PersistGroups`, `EvictGroups`, `GetTask`, ...); each
thread takes them one by one, so every order of every lock is explored. A critical
section without a wait inside is one step. `Commit` is the Record's thread,
`Crash` the death of the process at any point, `Exit` its orderly end.
Files are named by `Labels` (`FileOf`) and are absent, truncated or complete.

A save queues a put per layer on OMP-Main, then submits the row and flushes the Record
(`PutFinish`), as `KVStoreLocal.put` does. Loads go before saves (`loads`, `omp`); one that
misses Mem and finds no marked row is queued once more behind the saves (`Requeue`), and
a second miss, or a marked row without its file, aborts the process (`Lost`, `Abort`).

The scheduler is represented by `SchedulerEvicts` (a row whose lease is over, that is
with no request on its group) and by `evict_labels`. Persisting and evicting groups
are the operator's; the code checks for no traffic. What an operator does about it is the variable
`drained`, chosen from `Operators` at the start: the calls made only when what they race with
has drained, a persist when no save is under way (its row included), an `evict_groups` when no request
is. The other calls start at any moment. With both drained (`OperatorWaits`) a marked row has its files
(`DiskComplete`) and loads are served (`LoadsServed`); that is the condition in the two
properties, not a guard of the code. `store` has an operator who waits and one who waits for
nothing; `StoreReturns` holds for both. `store_persist` has an operator who persists under traffic,
and there the unconditional `OnDisk` fails. `ListCandidates` is a binding of its own
(`FairSpecWithCandidates`), see section 4.

`MCStore` states two assumptions TLC evaluates: a string parses as a full label exactly
when it was made from three valid components, which parsing gives back; different
entries have different files, none where another needs a directory. Chunk ids are
taken without dots, as the hashes are: two ids that differ by a final piece "."
would share a file. That different entries have different paths is proved for all
names (`FilesDiffer`); what the file system makes of a piece "." is outside it. `Labels` works on characters for
these facts alone; `Store` needs of a name only that different entries have different files.

## 3. Runs

| Run | Bounds | Shows |
|---|---|---|
| `evict_two_ranks` | 2 ranks, 2 groups, 2 layers, 1 request slot, lease 1, clock 4, batch 1 | index and pools agree through eviction, re-saves, pause and a quiescent persist; the lease protects live requests |
| `evict_restart` | 1 rank, 2 request slots, lease 0, clock 2, batch 1, 1 restart (243,526 states, 2 min) | consistency and completeness with two concurrent requests, over evictions or over a restart at any step, never both in one behaviour; the cut only advances; every batch ends, and with it a pause that waits; dispatched requests finish once no new ones arrive |
| `mem` | 2 groups of 1 tensor, batches of 1 and 2, 3 buffers of 2 sizes, 1 evicting thread with `evict_groups`, `evict_to_size`, `remove` and `clear` (686,684 states, 2 min) | heap ownership; a batch being freed is in no load's hands; index, heap, counters and lists agree; detached memory is freed when loads stop |
| `mem_use_after_free` | 1 thread in `evict_groups` | **violated** `NoUseAfterFree` |
| `task_queue` | 5 tasks, 2 bundles, 2 promotions or sorts, 2 callers of shutdown | layer order, refinement of `Executor` (exactly once, drained shutdown), no lost wake-up |
| `thread_pool` | 3 threads, 2 callers, 3 runs | fn alive, each team member once, every run returns |
| `flow` | 3 blocks; 4 saves and 2 loads of 1 or 2 layers with 1 or 2 chunks, one layer of 4 chunks | block ownership, right data in Mem and on the device, no spurious exhaustion, no call hangs |
| `zip` | 2 tensors of 10 bytes, growth 1, 1 replay, 2 slots per back end, configurations with each back end alone and together (51,664 states, 1 min) | blocks decode to their tensors, loads restore them under any other configuration, slots are not shared, every batch ends |
| `xfer` | 10 processes of 2 contexts, 2 queues of depth 1, batches of 2, entries of at most 8 bytes, pages of 8, the switch of get on and off (189,987 states, 3 min) | a wait that returns means landed, also with failures, reuse of slots and resets; descriptor lists live; no put reads before the data is computed, no get with the switch and without DSA overtakes the compute stream; every issued transfer ends |
| `store` | 1 group, 1 layer, 1 handler, an operator who waits and one who waits for nothing (105,865 states, 3 min) | if the operator waits, persisted means on disk and reported means loadable, also after a crash at any step; for both, every binding returns, with persists and evictions of groups overlapping saves and loads |
| `store_persist` | 1 group, 2 layers, 1 handler, persist under traffic | **violated** `OnDisk`, finding 3 |
| `store_candidates` | 1 group, 1 layer, 2 handlers | **violated** `StoreReturns`, see findings |

Why these bounds are enough to be interesting: two groups in a prefix chain give
a hit behind a miss (re-save) and a partial eviction; two layers give half a
group; a lease of one tick in four gives expired and live rows together; batch 1
gives a pass of several batches; three
buffers give a replacement while both groups are cached, and the two sizes show
in the byte counter. Ten bytes give segments of several sizes with a remainder and odd
halves; two queues of depth 1 saturate at once and reuse slots under a waiter; two
handlers are the smallest cycle of locks among them, and one handler with the worker's
own threads covers the rest. The order of the locks does not depend on the
group or the layer, so `store` has one of each. Its two invariants were also explored completely for the
waiting operator with two layers, two handlers and a request with one task behind (951,216
states): two layers give half a group, a task behind
gives a load that overtakes its save. `mem` has one tensor per group, since a group's tensors
are linked and unlinked together (`Ownership` and `GuardSafety` are proved for any number), and leaves
out `force_evict_to_size`, which is `evict_to_size` without the look at the switch. Deadlock
checking is off where the system may rest (all buffers used, all tasks run, all runs done).

**Fairness.** `EvictProtocol!FairSpec`: worker threads, HTTP handlers, the
monitor inside a pass, and the scheduler for an accepted request keep running;
nothing forces requests, ticks, evictions, pauses or crashes.
`RequestFinishes` excuses an endless stream of new requests: the queue levels
are strict, so loads that keep coming may starve the saves. `Mem!FairSpec`:
OMP-Main finishes a load it has begun, the free thread is scheduled. It says
nothing about the moment between two loads, so with back-to-back loads the free
thread may find the guard taken each time it looks; `FreedWhenIdle` promises
progress only when loads stop. `TaskQueue` and `ThreadPool`: threads are
scheduled and tasks return; nobody has to call. `Flow!FairSpec`: a call in
progress goes on, the queue threads run and the device completes issued copies;
the client need not wait for anything, so `CallReturns` rests on `_allocate`'s
own polling. `KvZip`: lanes go round, devices answer, calls return. `Xfer`: transfer
threads, waiters, streams, the engine and the compute stream run, and a put or get that has begun
goes on. `Store`: every thread is strongly fair in its steps (a lock that
is free again and again is obtained, as the GIL is handed over on request),
OMP-Main and the Record's thread are scheduled; nobody has to call, evict or die.

## 4. Findings

1. **Guard checked before the lock** (`mem_use_after_free`, mem.cpp:258). A load
   that starts between the check and the lock has its buffers freed. The
   `evict_labels` path used by the monitor is not affected (theorem `GuardSafety`).
2. **The GIL taken back under `mutex_`** (`store_candidates`, torch_ext.cpp:414).
   `get_unpersisted` and `get_lru_oldest` build Python objects with `mutex_` held; the
   properties `current_bytes`, `group_count`, `size`, `unpersisted_count` and the method `clear`
   wait for `mutex_` with the GIL held. Two handler threads stop for ever. The class says
   "All operations release GIL for maximum concurrency."
3. **Half a group marked** (`store_persist`, mem.cpp:759). The documented procedure
   (eviction.md:136-137) pauses eviction and persists; requests go on. A persist between two
   layers of a save marks the row with half the files, though eviction.md:69 says "`persisted`
   only says whether the disk copy exists" and eviction.md:23 "never half a group"; after the group's
   eviction, or a crash, a load of the other layer aborts. `EvictProtocol` has the same case as
   `PersistMode = "paused"`.
   With one layer `OnDisk` fails in another way: `persist_groups` opens every file with
   truncation (mem.cpp:780) before its first Record transaction. A group that is persisted and saved
   again is unpersisted for Mem once a layer has landed, while its row stays marked until
   the `put_finish` behind it is committed. A persist in between cuts the file; if
   the process dies then, the row says persisted at the next start.
   It is enough that the operator lets the saves drain before the persist: then `StoreDiskComplete`
   and `StoreLoadsServed` are theorems.

Observed while modelling, and kept out of the runs by the assumptions named:

* *A get through DSA is not ordered* (flow.py:353; `Ordered`). With
  `IAXL_CACHE_STREAM_SYNC_ON_GET`, "CPU-sync the GPU stream on get()" (setvars.sh:93), `get()`
  does not block the CPU but has the copy stream wait; DSA copies are on no stream.
* *Restart between ranks' persists* (record.cpp:62; restarts run with one rank).
  Rank 0 then reports groups another rank has dropped.
* *Forced eviction of a save in flight* (kvstore.py:382; `EvictCounts`). The
  remaining layers land in a group without a row, which no pass can select.
* *Shared names of SliceCopiers* (tensor_ops.py:80). The first `close()` unregisters
  pools a second copier over the same tensors uses.
* *Unchecked writes* (storage.cpp:61). `close()` is not checked and nothing is synced.

## 5. Proofs

Every theorem holds for all values of the constants that satisfy the `ASSUME`s of its
module (`EvictProtocol`, `Mem`, `TaskQueue`, `ThreadPool`, `Flow`, `Dsa`, `Xfer`, `Store`), which
TLC evaluates in the runs; hypotheses beyond them are in the theorem. None of the
properties is inductive, so each proof rests on an invariant that is: it holds
initially and every action keeps it (one lemma or step per action). The inductive
invariants were model-checked before they were proved.

**The eviction protocol** (`EvictProtocolProofs`, `EvictDataProofs`).

* `TypeCorrect`, `PauseIsKept` and `CutOnlyAdvances` have no hypotheses: forced eviction,
  persist during traffic and restarts are included. `BaseInv` says why: a pause keeps
  eviction switched off and is answered only when no label is in `_evicting` (`PauseInv`); no stamp
  lies beyond the clock's tick, as no batch is longer than one (`StampInv`), so the
  cut a restart takes from the clock is above all earlier ones.
* `LeaseSafety`: if no eviction is forced (`NoForce`), `Spec => []LeaseProtects`. A later
  selection depends on timestamps, so `LeaseInv` adds that every live request is within
  its lease and every row it asked about was stamped at or after its `has()`; the
  selection only takes rows older than `now - Lease`, so they cannot meet. The argument
  needs `has()` to wait for `_evicting`, to touch what is behind the truncation
  point, and the rule on the lease built into `Tick`.
* `LoadsNeverAbort`, `IndexIsConsistent`, `GroupsAreComplete`, `PutsMissEviction` and
  `ResidentsCanBeEvicted` share the hypothesis `Sound` and the invariant `Inv`.
  `Sound` is what the deployment must respect: no forced eviction, persist with no
  request in flight, restarts with a single rank. Each part excludes a
  case of section 4 (finding 3, and the restart and the forced eviction observed) in
  which the properties do fail.
  `DataInv` follows a group on its way: commands and tasks belong to running
  requests (`Owned`); what a request saves reaches every rank and then has a row
  there (`Landing`, `Pushed`); a row outside `evicting` has each layer on disk, in Mem, queued
  or still to be queued (`Whole`), and Mem holds nothing else (`Held`, `Unlinked`,
  `Marks`); a persisted row is on disk, on the other ranks too (`OnDisk`, `Everywhere`,
  `Persists`); a load finds its layer or has a save of it in front of it, whichever
  of the three queues it is in (`ServedCmd`, `ServedHi`, `ServedLo`); and what rank 0
  holds is stamped above the cut (`Cut`). The lease enters where eviction would take a
  group a request relies on: `evicting` and the keys of live requests are disjoint.

**Mem** (`MemProofs`). `Ownership`, `FreesApart` and `GuardSafety`: if nobody calls the direct evicting
functions (`Evictors = {}`; with them `NoUseAfterFree` fails, finding 1), `Spec => []HeapExact`,
`Spec => []DetachedApart` and `Spec => []NoUseAfterFree`. `HeapInv` adds to `HeapExact` that the guard is held
exactly while a load runs and that the batch about to be freed shares nothing with the
pointers held: a batch passes the guard only when no load runs, and a later load
cannot find its groups. `mem` checks ownership and `DetachedApart`
with the direct evictors too.

**The task queue** (`TaskQueueProofs`). `QueueIsExecutor` is the refinement: `Init` implies the
initial states of `Executor`, and each action of `TaskQueue` is a step of `Executor` or
leaves its variables alone. It needs `Once` (a task is on one level, running or done,
never in two places) and `Ended` (the worker leaves with nothing to do); that
promotions and sorts keep the set of waiting tasks is a fact about `Picked`,
which lists the members of a bundle by their rank among the positions. `LayersInOrder`: of
two waiting layers of a request the earlier one is on a more urgent level or in
front (`Sorted`). That is stable only because layers are submitted in
turn (`Turn`), a level is never left for a less urgent one (`Urged`), and promotion and
sort are stable.

**The thread pool** (`ThreadPoolProofs`). `FnStaysAlive` and `EveryTeamRan` for every pool size.
`PoolInv`: `pending_` is the cardinality of the team members that have not reported
(`Counted`), so the caller returns exactly when none is left; a worker in a call has
taken the present generation's function (`Joined`); calls per run are counted for the
past, present and future runs.

**KVFlow** (`FlowProofs`). `BlocksHaveOneOwner`, `FlightKeepsBlocks`, `WhatIsSavedIsRight`,
`WhatIsLoadedIsRight`, `OnlyTheImpossibleRaises` for every pool size and all calls.
`FlowInv`: blocks are free or held by one task (`Owners`); work in any queue is a live task's
and names the blocks it holds (`Flight`); a task is in one place of each pipeline and
goes through its stages in order (`CopyStages`, `OmpStages`, `Order`), so between copy and
codec its blocks hold its keys (`BlocksHold`). That a load which overtook its save does
not miss twice is `Promised`, `Unsaved` and `Behind`: what it was promised is saved or
queued, and its retry is behind those saves.

**Transfers** (`XferProofs`). `WaitsCoverTheirTicket` and `BatchesKeepTheirSlot`: `TicketInv`
relates a batch in flight to its slot (open record, ticket of the slot, `SlotOf`),
and a ticket being submitted is later than every one that is waited for, because it was
drawn under `dsa_context_mutex` and a reset, which waits for all tickets, holds that
mutex (`CallOf`, `WaitOf`). So reaping never frees a slot in flight, a lookup
that finds nothing has nothing to find, and what is submitted afterwards is not
covered.

`CopiesFollowCompute`: only the first context of a group waits for the compute stream,
for all of them. A put waits on the host before it queues anything (`Synced`), so its rows may
take any path. A get with the switch queues the wait on the H2D worker ahead of every copy of
the group (`QueueOrder`), and the worker keeps it ahead on the stream (`StreamOrder`), which orders
what is on the stream and not what DSA copies. `AfterCompute` says no more than that: all puts, and
gets with `syncGet` and without DSA. `OrderInv` adds that all that is queued, posted
or copied is of a context that has begun (`Belongs`), so the wait was queued before it. `GpuProcs` is
assumed of a device process: each context of KVFlow has a first one before it in its
group and direction, which is how the loops of `put()` and `get()` create them (whether that one
waits is `Waits`, not the assumption), and no call has an empty list, since
the transfer reads its first index.

`BatchesStayInWindows`: `BarInside` while `lastTicket <=
TicketAll`, since a reset that waits for `DSA_TICKET_ALL` (`UINT64_MAX`) covers no later ticket.
`WindowInv` says that a mapping starts at a pool's first page, a newer one
at the same address is no shorter and windows differ (`MapsAre`); calls name blocks of pools that
`Context::create` compared (`Fitted`); each entry laid out or in flight falls inside a
window, on a row that is wanted (`Flying`); a reset waits for all tickets (`Resetting`), so
`TicketInv` leaves nothing in flight when it unmaps. The lookup by the first row finds the newest
mapping, and by `MapsAre` that covers the whole span. `DevicePools` is assumed: pools are cut as
`make_kv_pool` cuts them, CPU pools along dimension 0 (the default, `torch_ext.cpp:48`), and
what starts on the pages of a device pool has its base. The code does not check the last part: were
two pools on one page, the lookup could return the neighbour's shorter
window.

`ListsOutliveContexts`: the count of a registration is the cardinality of the
registered pools on its base, a list belongs to the base it is kept under (`RegsInv`),
a live context's pools are registered (`KeptPools`) and its lists are those of its
bases (`OwnLists`). `RemoteProcs` is assumed of the daemon: its contexts are
KVFlow's, on a client's pool, and pools with one base are on one device, since `regs` has the base
address as its only key.

**Persistence** (`StoreProofs`). `StoreDiskComplete` and `StoreLoadsServed`, for any groups, layers and
handlers, with and without the candidate lists, crashes included. Both properties have
`OperatorWaits` as their condition: the code does not make the operator wait, and without it they
fail (finding 3). They follow from `StoreInvariant`, which says that whenever the operator waits the
following four parts hold:

* `Forms`: what is left of a thread's call is one of the suffixes of the call's program, with the
  group and layer that fit it, and a thread between `take_mutex` and the release
  holds `mutex_`. The suffixes have names (`P1`..`P6` for a persist, `E1`..`E8` for an
  eviction, `SaveRest(k)` for a save of any number of layers), and the lemmas `...Heads` say
  which step each may take. This part needs no condition (`StoreForms`): it holds whatever overlaps.
* `Traffic`: while a handler persists or evicts groups no save is on its way (`OperatorAlone`);
  what `evict_labels` drops has no request and no second dropper (`DropApart`, `DropOnce`), since
  a row is queued only by a save that waits for its flush (`FlushFirst`).
* `Data`: a marked row whose group is saved again has a replacing insert on its
  way (`Resaved`); each layer of a group that is unpersisted, being saved, or has an unmarked row or is
  about to get one, is in Mem or on its way there (`Kept`); while a group is persisted the files behind
  the point reached are complete, and `mark_row` or `remove_row` is queued only by the handler
  that waits for it (`Persisting`, `Evicting`, `Marking`, `Removing`); and `DiskComplete`.
* `LoadInv`: loads do not meet `evict_groups` (`EvictAlone`); a load in any queue is of a group that is
  complete or has its saves in front of it (`Arrives`, `RetrySafe`, `OmpSafe`), so the second try finds
  its layer, and a group that is loaded has a row (`LoadRow`).

Neither property is inductive without `Traffic`: the persisted flag is set by TZ-REC after
the files were written, and only the absence of a save in between keeps them
complete. A crash leaves marked rows and their files only, since the cleanup at start removes
the others. Most actions leave all of this alone for the groups they do not work on; the
frame lemmas `CalmKeeps` and `HandlerFrame` say so once. `FilesDiffer` is needed where a file
is truncated, written or removed: it is no other entry's.

**Only model-checked.** Everything under fairness: liveness and `ENABLED` are out of the
prover's reach. `Bookkeeping` of `Mem`: byte counters are sums over sets, which needs
induction over data. `KvZip` (`BlocksRight`, `RoundTrip`, `SlotsExclusive`): its data are
folds over sequences of bytes. `TransfersLand` of `Xfer`: that all rows have
landed is a count over the batches of all calls. The assumptions about `Labels` other than that paths differ.

## 6. Not modelled

The remote pool's RPC, daemon and client, and the handshake between RDMA peers;
KVFlow's scratch allocation for CPU tensors (their transfers are in `Xfer`); HTTP
failures other than as a restart; the connector's asynchronous promotion;
the synchronous `dsa_memcpy`, `dsa_memcpy_batch` and `dsa_gd` copies, which only
the C tests call; shared DSA work queues; the vendored QAT headers, set-up and
tear-down of QAT sessions, NUMA memory; CPU affinity; the OpenMP branch of
`run_threads`; statistics, metrics, profiler, configuration strings, tools and benchmarks.

Inside the parts that are modelled:

* *Hybrid models* (kvshrink_connector.py:304-313, 729-745; kvstore.py:249). A model with Mamba
  layers has a second family of groups under the label "mamba", looked up without truncation,
  which shortens the match, saved after the forward pass with a row of their own. `EvictProtocol`
  has the groups of the attention layers only.
* *Registry* (pool.cpp:85-91). Pools are registered before the contexts are made. Registering
  a name again with another geometry aborts and is not a step; the data type enters by its
  element size only (pool.cpp:22-23).
* *Unregistering* (rpc.py:294-310). `UnregisterPool` is taken when no context of the pool is left. The
  daemon does not check its pending jobs; that clients unregister after their last call
  is the caller's part.
* *Life of a context in a queued wait* (xfer.cpp:92-97). The closure of `xfer_wait_cur_stream` keeps
  a raw pointer to the context. The callers wait for the transfer, which is behind it on the same
  queue, before they drop the context; one dropped without a transfer is not modelled.
* *Gets without a wait.* What orders a get without the switch, or through DSA, after the compute
  stream (section 2) is outside the code and the model.
* *`Mem.lock` and `Mem.unlock`* as bindings: nothing in the repository calls them.
* *Restart together with eviction*, and with several ranks: in no run (section 3); proved
  with one rank (`EvictDataProofs`).

## 7. Plan

1. `Connector`: the worker side: asynchronous loads, promotion, finished sets.
2. `RemotePool`: sequence numbers, early completion, shutdown.
3. Proofs: `SlotsExclusive` of `KvZip`.
