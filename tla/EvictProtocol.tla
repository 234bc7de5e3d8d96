---------------------------- MODULE EvictProtocol ----------------------------
(***************************************************************************)
(* The cluster-wide eviction protocol of the DDR pool.                     *)
(*                                                                         *)
(* One scheduler process answers has() from the rank 0 database and runs   *)
(* the monitor thread that evicts; every rank is a worker process with its *)
(* own Mem, its own database and its own disk directory.  Puts and gets    *)
(* run on one task-queue thread per rank (OMP-Main): loads are taken       *)
(* before saves, a load that misses is queued once more behind the saves.  *)
(*                                                                         *)
(* A group is one block hash; it is complete on a rank when every layer of *)
(* it is there.  The payload is left out: the hash determines it.          *)
(***************************************************************************)
EXTENDS Integers, Sequences, FiniteSets, FiniteSetsExt, SequencesExt

CONSTANTS
  Ranks,         \* worker processes
  Rank0,         \* the rank whose database is the index
  Groups,        \* group keys (block hashes)
  NumLayers,     \* layers of the model
  Reqs,          \* request slots of the scheduler
  Prompts,       \* the hash lists a request may query
  Lease,         \* IAXL_DDR_POOL_EVICT_LEASE_S, in ticks
  MaxTime,       \* bound on the clock
  SubTicks,      \* timestamps in one tick; rows of a batch are 1 apart
  EvictBatch,    \* _EVICT_BATCH
  EvictCounts,   \* the <<max_count, min_count>> pairs the monitor may compute
  PersistMode,   \* when an operator posts /v1/cache/persist
  MaxCrashes     \* bound on restarts of the whole deployment

ASSUME ConstantsAssumption ==
  /\ Rank0 \in Ranks
  /\ IsFiniteSet(Ranks) /\ IsFiniteSet(Groups)
  /\ NumLayers \in Nat \ {0}
  /\ Prompts \subseteq Seq(Groups)
  /\ SubTicks \in Nat \ {0}
  /\ \A p \in Prompts : Len(p) <= SubTicks
  /\ Lease \in Nat /\ MaxTime \in Nat \ {0} /\ MaxCrashes \in Nat
  /\ EvictBatch \in Nat \ {0}
  /\ EvictCounts \subseteq (Nat \ {0}) \X Nat
  /\ PersistMode \in {"never", "paused", "quiescent"}

Layers == 1..NumLayers

VARIABLES
  now,            \* the clock, in ticks (system_clock and time.time() agree)
  rows,           \* rows[r]: the groups with a row in rank r's chunks.db
  persisted,      \* persisted[r]: those with persisted = 1
  la,             \* la[g]: last_access of g in the rank 0 database (0: no row)
  mem,            \* mem[r][g]: the layers of g in rank r's Mem
  memPersisted,   \* memPersisted[r]: groups whose EntryGroup.is_persisted holds
  disk,           \* disk[r][g]: the layers of g saved under rank r's directory
  cmd,            \* cmd[r]: forward passes sent to rank r, not yet executed
  hi, lo,         \* hi[r], lo[r]: OMP-Main, load levels P0..P2 and level P3
  req,            \* req[q]: the connector's view of a request
  evicting,       \* _evicting
  unlinking,      \* ranks that have not answered the current evict_labels
  evictedUntil,   \* _evicted_until
  pass,           \* the monitor thread's evict_lru call
  enabled,        \* _evict_enabled
  pause,          \* the operator's POST /v1/cache/evict {"enable": false}
  persisting,     \* ranks that have not answered the current persist request
  aborted,        \* a worker called abort() on a load
  crashes

dbVars     == <<rows, persisted, la>>
memVars    == <<mem, memPersisted, disk>>
queueVars  == <<cmd, hi, lo>>
evictVars  == <<evicting, unlinking, evictedUntil, pass>>
operVars   == <<enabled, pause, persisting>>
vars == <<now, dbVars, memVars, queueVars, req, evictVars, operVars, aborted, crashes>>

-----------------------------------------------------------------------------
(* Requests, forward passes and queued tasks.                              *)

Idle == [st |-> "idle", start |-> 0, load |-> <<>>, save |-> <<>>]
ReqState == [st : {"idle", "looked", "running"}, start : Nat,
             load : Seq(Groups), save : Seq(Groups)]
Task == [op : {"get", "put"}, req : Reqs, gs : SUBSET Groups, layer : Layers]
Step == [req : Reqs, load : Seq(Groups), save : Seq(Groups), layer : 0..NumLayers]
NoPass == [st |-> "idle", max |-> 0, min |-> 0, evicted |-> 0]
Pass == [st : {"idle", "select", "unlink"}, max : Nat, min : Nat, evicted : Nat]

\* The groups a request was promised something about.
Keys(q) == Range(req[q].load) \cup Range(req[q].save)
Tasks(r) == Range(hi[r]) \cup Range(lo[r])

\* A save of g is somewhere between the forward pass and rank r's Mem.
SaveInFlight(r, g) ==
  \/ \E i \in 1..Len(cmd[r]) : g \in Range(cmd[r][i].save)
  \/ \E t \in Tasks(r) : t.op = "put" /\ g \in t.gs

\* What a get on rank r can deliver: Mem, or a file of a group its database
\* calls persisted.
Avail(r, g) == mem[r][g] \cup (IF g \in persisted[r] THEN disk[r][g] ELSE {})

Init ==
  /\ now = 1
  /\ rows = [r \in Ranks |-> {}]
  /\ persisted = [r \in Ranks |-> {}]
  /\ la = [g \in Groups |-> 0]
  /\ mem = [r \in Ranks |-> [g \in Groups |-> {}]]
  /\ memPersisted = [r \in Ranks |-> {}]
  /\ disk = [r \in Ranks |-> [g \in Groups |-> {}]]
  /\ cmd = [r \in Ranks |-> <<>>]
  /\ hi = [r \in Ranks |-> <<>>]
  /\ lo = [r \in Ranks |-> <<>>]
  /\ req = [q \in Reqs |-> Idle]
  /\ evicting = {}
  /\ unlinking = {}
  /\ evictedUntil = 0
  /\ pass = NoPass
  /\ enabled = TRUE
  /\ pause = "none"
  /\ persisting = {}
  /\ aborted = FALSE
  /\ crashes = 0

-----------------------------------------------------------------------------
(* Scheduler: has() and the connector's scheduler side.                    *)

\* The rows of one submit or touch batch get timestamps one step apart.
Stamp(p, g) == now * SubTicks + (CHOOSE i \in 1..Len(p) : p[i] = g) - 1

\* has() truncates at the first miss: the number of leading hits.
Matched(p) == Cardinality({j \in 1..Len(p) : \A k \in 1..j : p[k] \in rows[Rank0]})

\* has() waits while a queried key is being evicted, ...
\* (Mutant: it does not wait.)
NoWait(p) == TRUE
MayLook(p) == evicting \cap Range(p) = {}

\* ... and touches every row queried, those behind the truncation point too.
\* (Mutants: only the rows reported, or none, are touched.)
TouchReported(p) == Range(SubSeq(p, 1, Matched(p)))
TouchNone(p) == {}
Touched(p) == Range(p) \cap rows[Rank0]

\* get_num_new_matched_tokens: what has() reports missing is saved later.  The
\* touch is queued, but the scheduler's next query or eviction waits for it.
\* While an operator persists a quiescent cache no request arrives.
Has(q, p) ==
  /\ req[q].st \in {"idle", "looked"}
  /\ MayLook(p)
  /\ PersistMode = "quiescent" => persisting = {}
  /\ la' = [g \in Groups |-> IF g \in Touched(p) THEN Stamp(p, g) ELSE la[g]]
  /\ req' = [req EXCEPT ![q] = [st |-> "looked", start |-> now,
                                load |-> SubSeq(p, 1, Matched(p)),
                                save |-> SubSeq(p, Matched(p) + 1, Len(p))]]
  /\ UNCHANGED <<now, rows, persisted, memVars, queueVars, evictVars, operVars,
                 aborted, crashes>>

\* build_connector_meta: the request's loads and saves go to every rank.
Dispatch(q) ==
  /\ req[q].st = "looked"
  /\ req' = [req EXCEPT ![q].st = "running"]
  /\ cmd' = [r \in Ranks |-> Append(cmd[r], [req |-> q, load |-> req[q].load,
                                             save |-> req[q].save, layer |-> 0])]
  /\ UNCHANGED <<now, dbVars, memVars, hi, lo, evictVars, operVars, aborted, crashes>>

\* get_finished on every rank: nothing of the request is pending any more.
Finish(q) ==
  /\ req[q].st = "running"
  /\ \A r \in Ranks : /\ \A i \in 1..Len(cmd[r]) : cmd[r][i].req # q
                      /\ \A t \in Tasks(r) : t.req # q
  /\ req' = [req EXCEPT ![q] = Idle]
  /\ UNCHANGED <<now, dbVars, memVars, queueVars, evictVars, operVars, aborted, crashes>>

-----------------------------------------------------------------------------
(* Workers: the forward pass and the OMP-Main thread.                      *)

\* start_load_kv: one get per layer, all above the level of the saves.
StartLoad(r) ==
  /\ cmd[r] # <<>>
  /\ LET c == Head(cmd[r]) IN
       /\ c.layer = 0
       /\ hi' = [hi EXCEPT ![r] =
                  IF c.load = <<>> THEN @
                  ELSE @ \o [l \in Layers |-> [op |-> "get", req |-> c.req,
                                               gs |-> Range(c.load), layer |-> l]]]
       /\ cmd' = [cmd EXCEPT ![r] = IF c.save = <<>> THEN Tail(@)
                                    ELSE <<[c EXCEPT !.layer = 1]>> \o Tail(@)]
  /\ UNCHANGED <<now, dbVars, memVars, lo, req, evictVars, operVars, aborted, crashes>>

\* The rows put_finish writes: INSERT OR REPLACE ... persisted = 0.
Submit(r, p) ==
  /\ rows' = [rows EXCEPT ![r] = @ \cup Range(p)]
  /\ persisted' = [persisted EXCEPT ![r] = @ \ Range(p)]
  /\ la' = [g \in Groups |-> IF r = Rank0 /\ g \in Range(p) THEN Stamp(p, g) ELSE la[g]]

\* The layer whose put also runs put_finish.
FinishLayer == NumLayers

\* save_kv_layer: waits for the layer's load, queues the compression of the
\* layer; the last layer also runs put_finish and record_flush at once.
SaveLayer(r) ==
  /\ cmd[r] # <<>>
  /\ LET c == Head(cmd[r]) IN
       /\ c.layer > 0
       /\ \A t \in Tasks(r) : ~(t.op = "get" /\ t.req = c.req /\ t.layer = c.layer)
       /\ lo' = [lo EXCEPT ![r] = Append(@, [op |-> "put", req |-> c.req,
                                             gs |-> Range(c.save), layer |-> c.layer])]
       /\ IF c.layer < FinishLayer
          THEN /\ cmd' = [cmd EXCEPT ![r] = <<[c EXCEPT !.layer = @ + 1]>> \o Tail(@)]
               /\ UNCHANGED dbVars
          ELSE /\ cmd' = [cmd EXCEPT ![r] = Tail(@)]
               /\ Submit(r, c.save)
  /\ UNCHANGED <<now, memVars, hi, req, evictVars, operVars, aborted, crashes>>

\* Mem::get of one layer of a request: misses of persisted groups are read
\* from disk; a missing file aborts.
Missing(r, t) == {g \in t.gs : t.layer \notin mem[r][g]}
FromDisk(r, t) == Missing(r, t) \cap persisted[r]

GetStep(r, t) ==
  /\ mem' = [mem EXCEPT ![r] = [g \in Groups |->
               IF g \in FromDisk(r, t) THEN @[g] \cup {t.layer} ELSE @[g]]]
  /\ memPersisted' = [memPersisted EXCEPT ![r] = @ \cup FromDisk(r, t)]

FileMissing(r, t) == \E g \in FromDisk(r, t) : t.layer \notin disk[r][g]

\* Mutant of Retry: the load goes back to its own level, ahead of the saves.
RetryFirst(r, t) == /\ hi' = [hi EXCEPT ![r] = Append(Tail(@), t)]
                    /\ UNCHANGED lo
\* First attempt of a load: a miss queues it again, behind the saves.
Retry(r, t) == /\ hi' = [hi EXCEPT ![r] = Tail(@)]
               /\ lo' = [lo EXCEPT ![r] = Append(@, t)]

RunLoad(r) ==
  /\ hi[r] # <<>>
  /\ LET t == Head(hi[r]) IN
       /\ GetStep(r, t)
       /\ aborted' = (aborted \/ FileMissing(r, t))
       /\ IF Missing(r, t) = FromDisk(r, t)
          THEN hi' = [hi EXCEPT ![r] = Tail(@)] /\ UNCHANGED lo
          ELSE Retry(r, t)
  /\ UNCHANGED <<now, dbVars, disk, cmd, req, evictVars, operVars, crashes>>

\* Second attempt: a miss is fatal.
RunRetry(r) ==
  /\ hi[r] = <<>> /\ lo[r] # <<>> /\ Head(lo[r]).op = "get"
  /\ LET t == Head(lo[r]) IN
       /\ GetStep(r, t)
       /\ aborted' = (aborted \/ FileMissing(r, t) \/ Missing(r, t) # FromDisk(r, t))
  /\ lo' = [lo EXCEPT ![r] = Tail(@)]
  /\ UNCHANGED <<now, dbVars, disk, cmd, hi, req, evictVars, operVars, crashes>>

\* zip_to_mem's task: the compressed layer lands in Mem; a group that was
\* persisted is not any more.
RunPut(r) ==
  /\ hi[r] = <<>> /\ lo[r] # <<>> /\ Head(lo[r]).op = "put"
  /\ LET t == Head(lo[r]) IN
       /\ mem' = [mem EXCEPT ![r] = [g \in Groups |->
                    IF g \in t.gs THEN @[g] \cup {t.layer} ELSE @[g]]]
       /\ memPersisted' = [memPersisted EXCEPT ![r] = @ \ t.gs]
  /\ lo' = [lo EXCEPT ![r] = Tail(@)]
  /\ UNCHANGED <<now, dbVars, disk, cmd, hi, req, evictVars, operVars, aborted, crashes>>

-----------------------------------------------------------------------------
(* The monitor thread: evict_lru.                                          *)

Lesser(a, b) == IF a <= b THEN a ELSE b

\* _monitor_loop found rank 0's pool above the high watermark and evict_lru
\* is called with the counts it computed.
EvictBegin(max, min) ==
  /\ pass.st = "idle" /\ enabled
  /\ \E g \in Groups : mem[Rank0][g] # {}
  /\ pass' = [st |-> "select", max |-> max, min |-> Lesser(min, max), evicted |-> 0]
  /\ UNCHANGED <<now, dbVars, memVars, queueVars, req, evicting, unlinking, evictedUntil,
                 operVars, aborted, crashes>>

\* Mutant of Resident: the cut is not consulted.
ResidentAll == rows[Rank0]

\* Record::evict: the resident rows lie above the cut; the limit oldest of
\* those below upper are selected, and every row tied with or older than the
\* last of them.
Resident == {g \in rows[Rank0] : la[g] > evictedUntil}
Oldest(upper, limit) ==
  LET below == {g \in Resident : la[g] < upper}
  IN  {g \in below : Cardinality({h \in below : la[h] < la[g]}) < limit}

\* Mutant of Before: no lease.
BeforeNow == now * SubTicks
\* The lease bound, and a bound above every timestamp.
Before == (now - Lease) * SubTicks
Forever == (MaxTime + 1) * SubTicks

Selected ==
  LET limit == Lesser(EvictBatch, pass.max - pass.evicted)
      least == Lesser(Lesser(EvictBatch, pass.min - pass.evicted), limit)
      chosen == Oldest(Before, limit) \cup Oldest(Forever, least)
  IN  {g \in Resident : \E h \in chosen : la[g] <= la[h]}

\* Mutant of Permitted: the switch is read when the pass starts only.
PermittedOnce == TRUE
\* The switch is read again for every batch.
Permitted == enabled

\* Mutant of Deleted: the rows stay.
DeleteNone == {}
\* The rows evict() deletes; persisted ones stay, the data is on disk.
Deleted == Selected \ persisted[Rank0]

\* One batch is selected under the lock: unpersisted rows are deleted, the
\* cut moves, the labels are published in _evicting before the unlock.
EvictSelect ==
  /\ pass.st = "select"
  /\ evicting = {}
  /\ IF ~Permitted \/ Selected = {}
     THEN /\ pass' = NoPass
          /\ UNCHANGED <<dbVars, evicting, unlinking, evictedUntil>>
     ELSE /\ pass' = [pass EXCEPT !.st = "unlink"]
          /\ rows' = [rows EXCEPT ![Rank0] = @ \ Deleted]
          /\ la' = [g \in Groups |-> IF g \in Deleted THEN 0 ELSE la[g]]
          /\ evictedUntil' = Max({la[g] : g \in Selected})
          /\ evicting' = Selected
          /\ unlinking' = Ranks
          /\ UNCHANGED persisted
  /\ UNCHANGED <<now, memVars, queueVars, req, operVars, aborted, crashes>>

\* POST /v1/cache/evict_labels on rank r: Mem::evict_labels.
EvictLabels(r) ==
  /\ r \in unlinking
  /\ mem' = [mem EXCEPT ![r] = [g \in Groups |-> IF g \in evicting THEN {} ELSE @[g]]]
  /\ memPersisted' = [memPersisted EXCEPT ![r] = @ \ evicting]
  /\ unlinking' = unlinking \ {r}
  /\ UNCHANGED <<now, dbVars, disk, queueVars, req, evicting, evictedUntil, pass, operVars,
                 aborted, crashes>>

\* Mutant of EvictDone: _evicting is not cleared.
EvictDoneNoClear ==
  /\ pass.st = "unlink" /\ unlinking = {}
  /\ pass' = NoPass
  /\ UNCHANGED <<now, dbVars, memVars, queueVars, req, evicting, unlinking, evictedUntil,
                 operVars, aborted, crashes>>

\* Every rank has answered: the batch is done, waiting has() calls wake up.
EvictDone ==
  /\ pass.st = "unlink" /\ unlinking = {}
  /\ evicting' = {}
  /\ LET n == pass.evicted + Cardinality(evicting) IN
       pass' = IF n < pass.max THEN [pass EXCEPT !.evicted = n, !.st = "select"] ELSE NoPass
  /\ UNCHANGED <<now, dbVars, memVars, queueVars, req, unlinking, evictedUntil, operVars,
                 aborted, crashes>>

-----------------------------------------------------------------------------
(* The operator: pausing eviction and persisting.                          *)

\* POST /v1/cache/evict {"enable": false} sets the switch, ...
PauseEvict ==
  /\ pause = "none"
  /\ enabled' = FALSE /\ pause' = "waiting"
  /\ UNCHANGED <<now, dbVars, memVars, queueVars, req, evictVars, persisting, aborted, crashes>>

\* ... and answers once no eviction is in flight.
PauseReturns ==
  /\ pause = "waiting" /\ evicting = {}
  /\ pause' = "held"
  /\ UNCHANGED <<now, dbVars, memVars, queueVars, req, evictVars, enabled, persisting,
                 aborted, crashes>>

ResumeEvict ==
  /\ pause = "held" /\ persisting = {}
  /\ enabled' = TRUE /\ pause' = "none"
  /\ UNCHANGED <<now, dbVars, memVars, queueVars, req, evictVars, persisting, aborted, crashes>>

\* POST /v1/cache/persist to all ranks, as documented with eviction paused;
\* "quiescent": the operator also waits for all requests to finish.
PersistBegin ==
  /\ pause = "held" /\ persisting = {}
  /\ \/ PersistMode = "paused"
     \/ PersistMode = "quiescent" /\ \A q \in Reqs : req[q] = Idle
  /\ \E r \in Ranks, g \in Groups : mem[r][g] # {} /\ g \notin memPersisted[r]
  /\ persisting' = Ranks
  /\ UNCHANGED <<now, dbVars, memVars, queueVars, req, evictVars, enabled, pause,
                 aborted, crashes>>

\* Mem::persist_groups on rank r, with a count that covers its unpersisted
\* list: whatever layers are in Mem are saved, then the group is marked in
\* Mem and, if it has a row, in the rank's database.
PersistRank(r) ==
  /\ r \in persisting
  /\ LET gs == {g \in Groups : mem[r][g] # {} /\ g \notin memPersisted[r]} IN
       /\ disk' = [disk EXCEPT ![r] = [g \in Groups |->
                     IF g \in gs THEN @[g] \cup mem[r][g] ELSE @[g]]]
       /\ memPersisted' = [memPersisted EXCEPT ![r] = @ \cup gs]
       /\ persisted' = [persisted EXCEPT ![r] = @ \cup (gs \cap rows[r])]
  /\ persisting' = persisting \ {r}
  /\ UNCHANGED <<now, rows, la, mem, queueVars, req, evictVars, enabled, pause,
                 aborted, crashes>>

-----------------------------------------------------------------------------
(* Environment: time and restarts.                                         *)

\* The documented sizing of the lease: it exceeds the time from has() to the
\* last load or save of the request.
Tick ==
  /\ now < MaxTime
  /\ \A q \in Reqs : req[q].st # "idle" => now + 1 - req[q].start <= Lease
  /\ now' = now + 1
  /\ UNCHANGED <<dbVars, memVars, queueVars, req, evictVars, operVars, aborted, crashes>>

\* An abort anywhere takes the deployment down; it restarts with empty pools.
\* Workers drop their unpersisted rows, the scheduler takes every row that is
\* left for disk-only.
Restart ==
  /\ crashes < MaxCrashes /\ now < MaxTime
  /\ crashes' = crashes + 1
  /\ now' = now + 1
  /\ evictedUntil' = now * SubTicks + SubTicks - 1
  /\ rows' = persisted
  /\ la' = [g \in Groups |-> IF g \in persisted[Rank0] THEN la[g] ELSE 0]
  /\ mem' = [r \in Ranks |-> [g \in Groups |-> {}]]
  /\ memPersisted' = [r \in Ranks |-> {}]
  /\ cmd' = [r \in Ranks |-> <<>>]
  /\ hi' = [r \in Ranks |-> <<>>]
  /\ lo' = [r \in Ranks |-> <<>>]
  /\ req' = [q \in Reqs |-> Idle]
  /\ evicting' = {} /\ unlinking' = {}
  /\ pass' = NoPass
  /\ enabled' = TRUE /\ pause' = "none" /\ persisting' = {}
  /\ UNCHANGED <<persisted, disk, aborted>>

-----------------------------------------------------------------------------
Scheduler == \E q \in Reqs : \/ \E p \in Prompts : Has(q, p)
                             \/ Dispatch(q)
                             \/ Finish(q)
Worker(r) == StartLoad(r) \/ SaveLayer(r) \/ RunLoad(r) \/ RunRetry(r) \/ RunPut(r)
Monitor == \/ \E c \in EvictCounts : EvictBegin(c[1], c[2])
           \/ EvictSelect
           \/ EvictDone
Operator == PauseEvict \/ PauseReturns \/ ResumeEvict \/ PersistBegin

Next ==
  \/ Scheduler
  \/ \E r \in Ranks : Worker(r) \/ EvictLabels(r) \/ PersistRank(r)
  \/ Monitor
  \/ Operator
  \/ Tick
  \/ Restart

Spec == Init /\ [][Next]_vars

\* Every thread runs on: the workers' threads, the monitor once it has called
\* evict_lru, the HTTP handlers, the scheduler for a request it has accepted.
\* New requests, ticks, evictions, pauses and crashes need not happen.
Fairness ==
  /\ \A r \in Ranks : /\ WF_vars(StartLoad(r) \/ SaveLayer(r))
                      /\ WF_vars(RunLoad(r) \/ RunRetry(r) \/ RunPut(r))
                      /\ WF_vars(EvictLabels(r))
                      /\ WF_vars(PersistRank(r))
  /\ WF_vars(EvictSelect) /\ WF_vars(EvictDone) /\ WF_vars(PauseReturns)
  /\ \A q \in Reqs : WF_vars(Dispatch(q)) /\ WF_vars(Finish(q))

FairSpec == Spec /\ Fairness

-----------------------------------------------------------------------------
(* Properties.                                                             *)

\* Every variable stays in its type; only existing rows are persisted.
TypeOK ==
  /\ now \in 1..MaxTime
  /\ rows \in [Ranks -> SUBSET Groups]
  /\ persisted \in [Ranks -> SUBSET Groups]
  /\ la \in [Groups -> Nat]
  /\ mem \in [Ranks -> [Groups -> SUBSET Layers]]
  /\ memPersisted \in [Ranks -> SUBSET Groups]
  /\ disk \in [Ranks -> [Groups -> SUBSET Layers]]
  /\ cmd \in [Ranks -> Seq(Step)]
  /\ hi \in [Ranks -> Seq(Task)]
  /\ lo \in [Ranks -> Seq(Task)]
  /\ req \in [Reqs -> ReqState]
  /\ evicting \in SUBSET Groups
  /\ unlinking \in SUBSET Ranks
  /\ evictedUntil \in Nat
  /\ pass \in Pass
  /\ enabled \in BOOLEAN
  /\ pause \in {"none", "waiting", "held"}
  /\ persisting \in SUBSET Ranks
  /\ aborted \in BOOLEAN
  /\ crashes \in 0..MaxCrashes

\* No load aborts: what has() promised is found by every rank, at the latest
\* by the retry of unzip_from_mem.
NoAbort == ~aborted

\* Consistency: a group the rank 0 database reports, and that no has() has to
\* wait for, is complete on every rank, or its save is still on its way there.
Consistency ==
  \A g \in rows[Rank0] \ evicting : \A r \in Ranks :
    Avail(r, g) = Layers \/ SaveInFlight(r, g)

\* Completeness: a rank never holds half a group once its saves have landed.
Completeness ==
  \A r \in Ranks, g \in Groups :
    mem[r][g] # {} /\ ~SaveInFlight(r, g) => Avail(r, g) = Layers

\* Queued puts never write to labels being evicted.
NoPutToEvicting == \A r \in Ranks, g \in evicting : ~SaveInFlight(r, g)

\* The lease: no group a live request asked about is being evicted.
LeaseProtects == \A q \in Reqs : Keys(q) \cap evicting = {}

\* What rank 0 holds in DDR lies above the cut, so a later pass can evict it.
ResidentAboveCut ==
  \A g \in Groups \ evicting :
    mem[Rank0][g] # {} /\ ~SaveInFlight(Rank0, g)
      => g \in rows[Rank0] /\ la[g] > evictedUntil

\* Once the pause request has been answered no eviction is under way.
PauseHolds == pause = "held" => evicting = {} /\ unlinking = {}

\* The cut only moves forward: no pass selects again what an earlier one has
\* already unlinked.
CutAdvances == [][evictedUntil' >= evictedUntil]_evictedUntil

\* A has() that waits for a batch is woken up: every batch is finished.
EvictionFinishes == evicting # {} ~> evicting = {}

\* A request that was sent to the ranks finishes once no new ones arrive: its
\* loads are served, at the latest by the retry behind the saves, and its saves
\* land.  An endless stream of loads may keep the saves waiting: OMP-Main takes
\* the levels in strict order.
RequestFinishes ==
  \/ []<><<\E q \in Reqs, p \in Prompts : Has(q, p)>>_vars
  \/ \A q \in Reqs : req[q].st = "running" ~> req[q].st = "idle"
=============================================================================
