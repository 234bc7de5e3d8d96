-------------------------------- MODULE Xfer -------------------------------
(***************************************************************************)
(* The life of transfer contexts in one process: pools are registered, a   *)
(* Context is created on a device pool and a CPU pool, its copies and its  *)
(* completion event are queued to the H2D or the D2H worker, a thread      *)
(* waits for the data, and the context is dropped.                         *)
(*                                                                         *)
(* What a copy does depends on the process: the DSA engine or a GPU        *)
(* stream, an RDMA request of the daemon, or memcpy in place.  KVFlow      *)
(* creates its contexts one after the other in one call ("flow"); a        *)
(* SliceCopier owns a context, its pools and a stream ("copier").          *)
(***************************************************************************)
EXTENDS Dsa, KvPool

CONSTANTS
  H2D, D2H,  \* the two workers, and the directions of a transfer
  Procs      \* the processes considered: kind, dsa, syncGet, reset, faults, pools, jobs of the contexts

Ctxs == Waiters
Dirs == {H2D, D2H}

ASSUME XferConstants ==
  /\ Submitters = Dirs
  /\ \A p \in Procs, c \in Ctxs : p.jobs[c].dir \in Dirs

\* The daemon serves KVFlow only.  A context's device pool is a client's, and the
\* registrations are kept by base address: what has one base is on one device.
ASSUME RemoteProcs ==
  \A p \in Procs : p.kind = "remote" =>
    /\ IsFiniteSet(DOMAIN p.pools)
    /\ \A m, n \in DOMAIN p.pools :
         p.pools[m].base = p.pools[n].base => p.pools[m].device = p.pools[n].device
    /\ \A m, n \in DOMAIN p.pools :
         None # [owner |-> m, od |-> p.pools[n].outer, is |-> p.pools[n].inner]
    /\ \A c \in Ctxs : /\ p.jobs[c].owner = "flow"
                       /\ {p.jobs[c].pool, p.jobs[c].cpu} \subseteq DOMAIN p.pools
                       /\ p.pools[p.jobs[c].pool].device = "remote"

\* A call of KVFlow has a first context, created before the others.  A copy names at
\* least one block: xfer_chunks_batch reads the first.
ASSUME GpuProcs ==
  \A p \in Procs : p.kind = "gpu" => \A c \in Ctxs :
    /\ p.jobs[c].group \in Nat /\ p.pools[p.jobs[c].pool].outer \in Nat \ {0}
    /\ p.jobs[c].calls \in Seq(Seq(Nat \X Nat) \ {<<>>})
    /\ p.jobs[c].owner = "flow" =>
         \E b \in Ctxs : /\ b = c \/ b < c
                         /\ p.jobs[b].owner = "flow" /\ p.jobs[b].first
                         /\ p.jobs[b].dir = p.jobs[c].dir /\ p.jobs[b].group = p.jobs[c].group

\* A pool is cut as make_kv_pool cuts it.
Cut(p) ==
  /\ p.base \in Nat /\ {p.num, p.outer, p.inner} \subseteq Nat \ {0}
  /\ p.stride = p.inner /\ p.outerSize = p.num * p.inner /\ p.bytes = p.outer * p.inner

\* The first page of a pool, and the bytes of the pages its first n bytes are on.
FirstPage(p) == p.base - (p.base % PageSize)
PagesFor(p, n) == (((p.base % PageSize) + n + PageSize - 1) \div PageSize) * PageSize
OnPages(p, addr) ==
  FirstPage(p) <= addr /\ addr < FirstPage(p) + PagesFor(p, p.outer * p.outerSize)

\* CPU pools are cut along their first dimension, and what starts on the pages of a
\* device pool is that pool: allocations of a GPU do not share pages.
ASSUME DevicePools ==
  \A p \in Procs : p.kind = "gpu" => \A c \in Ctxs :
    /\ Cut(p.pools[p.jobs[c].pool]) /\ Cut(p.pools[p.jobs[c].cpu])
    /\ p.pools[p.jobs[c].cpu].outer = 1
    /\ \A b \in Ctxs : OnPages(p.pools[p.jobs[c].pool], p.pools[p.jobs[b].pool].base) =>
         p.pools[p.jobs[b].pool].base = p.pools[p.jobs[c].pool].base

VARIABLES
  proc,     \* the process of this behaviour
  inPools,  \* the registry: names of the registered pools
  hooked,   \* rdma_init installed its hooks
  regs,     \* Rdma.regs: base -> its reference count and descriptor list
  lists,    \* descriptor lists that exist in NIXL
  ctx,      \* the contexts
  queue,    \* the tasks of the H2D and D2H workers
  stream,   \* the work streams of the device
  rdma,     \* rdma[d]: the rows of the request worker d has posted
  freeEv,   \* GpuEventPool
  event,    \* event[e]: "pending" from its record until the stream reaches it
  curDone,  \* work of the compute stream that is done
  landed,   \* landed[c]: the rows that were copied for context c
  aborted   \* an IAXL_CHECK failed

xferVars == <<proc, inPools, hooked, regs, lists, ctx, queue, stream, rdma, freeEv, event,
              curDone, landed, aborted>>
vars == <<dsaVars, xferVars>>
poolVars == <<inPools, hooked, regs, lists>>
deviceVars == <<stream, rdma, freeEv, event, curDone, landed>>

\* Which back end's Ops a context gets.
Gpu == proc.kind = "gpu"
Remote == proc.kind = "remote"
Job(c) == proc.jobs[c]
Pool(c) == proc.pools[Job(c).pool]
CpuPool(c) == proc.pools[Job(c).cpu]
\* work_stream: KVFlow has one per direction, a SliceCopier its own.
StreamOf(c) == IF Job(c).owner = "copier" THEN c ELSE Job(c).dir

\* An event nobody has recorded: CUDA and SYCL call it complete, the flag of the
\* RDMA back end starts as false.
FreshEvent == IF Remote THEN "pending" ELSE "done"

New == [at |-> "new", todo |-> <<>>, ticket |-> 0, fut |-> FALSE, ev |-> None,
        remote |-> None, local |-> None]
Live(c) == ctx[c].at \notin {"new", "gone"}

Init ==
  /\ DsaInit
  /\ proc \in Procs
  /\ inPools = {} /\ hooked = FALSE /\ regs = <<>> /\ lists = {}
  /\ ctx = [c \in Ctxs |-> New]
  /\ queue = [d \in Dirs |-> <<>>]
  /\ stream = [x \in Dirs \cup Ctxs |-> <<>>]
  /\ rdma = [d \in Dirs |-> None]
  /\ freeEv = <<>> /\ event = [e \in Ctxs |-> FreshEvent]
  /\ curDone = 0
  /\ landed = [c \in Ctxs |-> {}]
  /\ aborted = FALSE

-----------------------------------------------------------------------------
(* Pools.                                                                  *)

\* rdma_init: the daemon makes its agent before any pool exists.
RdmaInit ==
  /\ Remote /\ ~hooked /\ hooked' = TRUE
  /\ UNCHANGED <<dsaVars, proc, inPools, regs, lists, ctx, queue, deviceVars, aborted>>

\* on_register, for the pools N in turn (they differ in name, maybe not in base).
DlistOf(n) == [owner |-> n, od |-> proc.pools[n].outer, is |-> proc.pools[n].inner]
OnRegister(n) ==
  LET p == proc.pools[n]
      fresh == p.base \notin DOMAIN regs
      list == IF p.device = "remote" THEN DlistOf(n) ELSE None
  IN  IF ~hooked THEN UNCHANGED <<regs, lists>>
      ELSE /\ regs' = [b \in DOMAIN regs \cup {p.base} |->
                        IF b # p.base THEN regs[b]
                        ELSE IF fresh THEN [refs |-> 1, dlist |-> list]
                        ELSE [regs[b] EXCEPT !.refs = @ + 1]]
           /\ lists' = IF fresh /\ list # None THEN lists \cup {list} ELSE lists

\* register_kv_pool by KVFlow, its scratch pool and the daemon.
RegisterPool(n) ==
  /\ \A c \in Ctxs : Job(c).owner = "flow" /\ ctx[c].at = "new"
  /\ n \notin inPools /\ (Remote => hooked)
  /\ aborted' = \E m \in inPools : ~MayShare(proc.pools[m], proc.pools[n])
  /\ inPools' = inPools \cup {n}
  /\ OnRegister(n)
  /\ UNCHANGED <<dsaVars, proc, hooked, ctx, queue, deviceVars>>

\* Mutant of Unreferenced: the first pool to go takes the shared list along.
UnreferencedAny(b) == TRUE
Unreferenced(b) == regs[b].refs = 1

\* on_unregister: the list is released with the last pool on the buffer.
OnUnregister(n) ==
  LET b == proc.pools[n].base
  IN  IF b \notin DOMAIN regs THEN UNCHANGED <<regs, lists>>
      ELSE IF Unreferenced(b)
      THEN /\ regs' = [x \in DOMAIN regs \ {b} |-> regs[x]]
           /\ lists' = lists \ {regs[b].dlist}
      ELSE /\ regs' = [regs EXCEPT ![b].refs = @ - 1]
           /\ UNCHANGED lists

\* unregister_kv_pool: its owner calls it once no context of the pool is left.
UnregisterPool(n) ==
  /\ n \in inPools
  /\ \A c \in Ctxs : Job(c).owner = "flow"
                     /\ (n \in {Job(c).pool, Job(c).cpu} => ctx[c].at = "gone")
  /\ inPools' = inPools \ {n}
  /\ OnUnregister(n)
  /\ UNCHANGED <<dsaVars, proc, hooked, ctx, queue, deviceVars, aborted>>

-----------------------------------------------------------------------------
(* The caller: create a context, queue its copies and its completion.      *)

\* event_acquire: a pooled event of the GPU if there is one, else a new one.
Acquired(c) == IF Gpu /\ freeEv # <<>> THEN Head(freeEv) ELSE c
AfterAcquire == IF Gpu /\ freeEv # <<>> THEN Tail(freeEv) ELSE freeEv

\* event_release: a GPU event goes back to the pool as it is.
AfterRelease(c) == IF Gpu THEN Append(freeEv, ctx[c].ev) ELSE freeEv

\* local_dlist: built for the geometry of the first remote pool it serves.
LocalDlist(c) ==
  LET r == regs[CpuPool(c).base]
  IN  IF r.dlist # None THEN r.dlist ELSE [DlistOf(Job(c).pool) EXCEPT !.owner = Job(c).cpu]

\* rdma_context_create: the list of the remote pool, made when it was registered.
RemoteDlist(c) == regs[Pool(c).base].dlist

\* put waits for the compute stream on its first context, for all of them; get only
\* with IAXL_CACHE_STREAM_SYNC_ON_GET, off by default.  The daemon has no device_type.
Waits(c) == Job(c).first /\ ~Remote /\ (Job(c).dir = D2H \/ proc.syncGet)

\* What context_create and rdma_context_create build.
Created(c, local) ==
  [New EXCEPT !.at = IF Waits(c) THEN "sync" ELSE "issue", !.todo = Job(c).calls,
              !.ev = Acquired(c), !.local = local,
              !.remote = IF Remote THEN RemoteDlist(c) ELSE None]

\* Context::create while the pools in names are registered.
Create(c, names) ==
  LET p == Pool(c)
      l == IF Remote THEN LocalDlist(c) ELSE None
  IN  /\ ctx' = [ctx EXCEPT ![c] = Created(c, l)]
      /\ aborted' = ~ /\ {Job(c).pool, Job(c).cpu} \subseteq names
                      /\ CpuPool(c).device = "cpu" /\ SameBlockGeometry(p, CpuPool(c))
                      /\ Remote => l.od = p.outer /\ l.is = p.inner
      /\ regs' = IF Remote THEN [regs EXCEPT ![CpuPool(c).base].dlist = l] ELSE regs
      /\ lists' = IF Remote THEN lists \cup {l} ELSE lists
      /\ freeEv' = AfterAcquire
      /\ UNCHANGED <<dsaVars, proc, hooked, queue, stream, rdma, event, curDone, landed>>

\* KVFlow.put and get create the contexts of a call in order.  put queues a layer's
\* copies before it goes on; get leaves them to the unzip task.
FlowCreate(c) ==
  /\ ctx[c].at = "new" /\ Job(c).owner = "flow"
  /\ (\A b \in Ctxs : ctx[b].at = "new") => inPools = DOMAIN proc.pools
  /\ \A b \in Ctxs : b < c => ctx[b].at \notin {"new", "sync"}
                              /\ (Job(b).dir = D2H => ctx[b].at # "issue")
  /\ Create(c, inPools)
  /\ UNCHANGED inPools

\* SliceCopier.__init__: a name that is registered already stays as it is.
CopierCreate(c) ==
  /\ ctx[c].at = "new" /\ Job(c).owner = "copier"
  /\ inPools' = inPools \cup {Job(c).pool, Job(c).cpu}
  /\ Create(c, inPools')

Push(c, task) == queue' = [queue EXCEPT ![Job(c).dir] = Append(@, task)]

\* Mutant of CurSynced: put does not wait for the compute stream.
CurSyncedNot(c) == TRUE
\* context_sync_cur: put blocks until the compute stream has written its blocks.
CurSynced(c) == Job(c).dir = D2H /\ Gpu => curDone >= Job(c).group

\* xfer_wait_cur_stream; without accelerator only put's synchronous form queues.
XferWaitCurStream(c) ==
  /\ ctx[c].at = "sync" /\ CurSynced(c)
  /\ ctx' = [ctx EXCEPT ![c].at = "issue"]
  /\ IF Gpu \/ Job(c).dir = D2H THEN Push(c, [op |-> "cur", c |-> c]) ELSE UNCHANGED queue
  /\ UNCHANGED <<dsaVars, proc, poolVars, deviceVars, aborted>>

XferChunksBatch(c) ==
  /\ ctx[c].at = "issue" /\ ctx[c].todo # <<>>
  /\ ctx' = [ctx EXCEPT ![c].todo = Tail(@)]
  /\ LET xs == Head(ctx[c].todo)
     IN  /\ aborted' = ~(CheckIndices(Pool(c), xs, 1) /\ CheckIndices(CpuPool(c), xs, 2))
         /\ Push(c, [op |-> "copy", c |-> c, xs |-> xs])
  /\ UNCHANGED <<dsaVars, proc, poolVars, deviceVars>>

XferFinish(c) ==
  /\ ctx[c].at = "issue" /\ ctx[c].todo = <<>>
  /\ ctx' = [ctx EXCEPT ![c].at = "issued"]
  /\ Push(c, [op |-> "finish", c |-> c])
  /\ UNCHANGED <<dsaVars, proc, poolVars, deviceVars, aborted>>

-----------------------------------------------------------------------------
(* The workers.  A task stays at the head of its queue while it runs.      *)

HeadIs(d, op) == queue[d] # <<>> /\ Head(queue[d]).op = op
Pop(d) == queue' = [queue EXCEPT ![d] = Tail(@)]
OnStream(x, item) == stream' = [stream EXCEPT ![x] = Append(@, item)]

\* Items of a stream: wait for the compute stream, record an event.
CurItem(c) == [op |-> "cur", group |-> Job(c).group]
EventItem(e) == [op |-> "event", e |-> e]

\* context_work_wait_cur: only a GPU has a compute stream to wait for.
RunCur(d) ==
  /\ HeadIs(d, "cur") /\ Pop(d)
  /\ LET c == Head(queue[d]).c
     IN  IF Gpu THEN OnStream(StreamOf(c), CurItem(c))
         ELSE UNCHANGED stream
  /\ UNCHANGED <<dsaVars, proc, poolVars, ctx, rdma, freeEv, event, curDone, landed, aborted>>

\* xfer_finish's task: record the event, then the future becomes ready.
RunFinish(d) ==
  /\ HeadIs(d, "finish") /\ Pop(d)
  /\ LET c == Head(queue[d]).c
         e == ctx[c].ev
     IN  /\ event' = [event EXCEPT ![e] = IF Gpu THEN "pending" ELSE "done"]
         /\ IF Gpu THEN OnStream(StreamOf(c), EventItem(e)) ELSE UNCHANGED stream
         /\ ctx' = [ctx EXCEPT ![c].fut = TRUE]
  /\ UNCHANGED <<dsaVars, proc, poolVars, rdma, freeEv, curDone, landed, aborted>>

\* dsa_copy_chunks_batch gives up before it maps anything.
DsaRefuses(c) == ~proc.dsa \/ Pool(c).inner % 8 # 0

\* cudaMemcpy3DBatchAsync on the work stream.
StreamCopy(c, xs) ==
  OnStream(StreamOf(c), [op |-> "copy", c |-> c, rows |-> StreamRows(Pool(c), CpuPool(c), xs)])
RunCopyStream(d) ==
  /\ HeadIs(d, "copy") /\ Gpu /\ DsaRefuses(Head(queue[d]).c)
  /\ proc.dsa => holder = None
  /\ StreamCopy(Head(queue[d]).c, Head(queue[d]).xs) /\ Pop(d)
  /\ UNCHANGED <<dsaVars, proc, poolVars, ctx, rdma, freeEv, event, curDone, landed, aborted>>

\* The span of GPU memory a call touches, and the batch entries built from the
\* address b of the pool's base in its window.
Span(c, xs) ==
  LET p == Pool(c)
  IN  Max({xs[i][1] * p.stride + (p.outer - 1) * p.outerSize + p.inner : i \in DOMAIN xs})
Entries(c, xs, b) ==
  LET p == Pool(c)
      Entry(k) ==
        LET x == xs[1 + (k - 1) \div p.outer]
            o == (k - 1) % p.outer
        IN  [c |-> c, bar |-> b.bar, off |-> b.off + x[1] * p.stride + o * p.outerSize,
             n |-> p.inner, cpu |-> BlockPtr(CpuPool(c), x[2], 0) + o * p.inner]
  IN  [k \in 1..(Len(xs) * p.outer) |-> Entry(k)]

\* dsa_copy_chunks_batch up to the ticket: map the span, look the window up again
\* by its first row only, lay out the batches.  The copy goes to the stream when
\* pinning fails (~ok), or when an entry is refused; the mapping then stays.
RunCopyDsa(d, ok) ==
  /\ HeadIs(d, "copy") /\ Gpu /\ ~DsaRefuses(Head(queue[d]).c)
  /\ holder = None
  /\ \E c \in {Head(queue[d]).c} : \E xs \in {Head(queue[d]).xs} :
     \E ms \in {Registered(Pool(c).base, Span(c, xs), ok)} :
       IF FindEnclosing(ms, Pool(c).base, Span(c, xs)) = None
       THEN /\ StreamCopy(c, xs) /\ Pop(d)
            /\ UNCHANGED <<dsaVars, ctx>>
       ELSE /\ maps' = ms /\ nextBar' = IF ms = maps THEN nextBar ELSE nextBar + 1
            /\ UNCHANGED ctx
            /\ \E entries \in {Entries(c, xs, BarAddr(ms, Pool(c).base, Pool(c).inner))} :
                 IF CheckEntries(entries)
                 THEN holder' = d /\ AsyncBegin(d, entries) /\ UNCHANGED <<queue, stream>>
                 ELSE StreamCopy(c, xs) /\ Pop(d) /\ UNCHANGED <<engineVars, holder>>
  /\ UNCHANGED <<proc, poolVars, rdma, freeEv, event, curDone, landed, aborted>>

\* The batches go out one by one; after the last the context holds the ticket.
RunDsaSubmit(d) ==
  /\ SubmitSlot(d)
  /\ IF call'[d] = None
     THEN /\ ctx' = [ctx EXCEPT ![Head(queue[d]).c].ticket = call[d].ticket]
          /\ holder' = None /\ Pop(d)
     ELSE UNCHANGED <<ctx, holder, queue>>
  /\ UNCHANGED <<maps, nextBar, proc, poolVars, deviceVars, aborted>>

\* rdma::copy_chunks_batch: post the request and poll it to its end.
RunRdmaPost(d) ==
  /\ HeadIs(d, "copy") /\ Remote /\ rdma[d] = None
  /\ LET c == Head(queue[d]).c
         l == ctx[c].local
         remote == RemoteDescs(proc.pools[ctx[c].remote.owner])
     IN  rdma' = [rdma EXCEPT ![d] = RdmaRows(Pool(c), CpuPool(c), remote,
                                       LocalDescs(CpuPool(c), l.od, l.is), Head(queue[d]).xs)]
  /\ UNCHANGED <<dsaVars, proc, poolVars, ctx, queue, stream, freeEv, event, curDone, landed, aborted>>
RunRdmaDone(d, ok) ==
  /\ rdma[d] # None
  /\ rdma' = [rdma EXCEPT ![d] = None]
  /\ IF ok THEN /\ landed' = [landed EXCEPT ![Head(queue[d]).c] = @ \cup rdma[d]]
                /\ Pop(d) /\ UNCHANGED aborted
     ELSE aborted' = TRUE /\ UNCHANGED <<landed, queue>>
  /\ UNCHANGED <<dsaVars, proc, poolVars, ctx, stream, freeEv, event, curDone>>

\* The CPU back end copies at once, and nothing when the codec worked in place.
RunCopyCpu(d) ==
  /\ HeadIs(d, "copy") /\ proc.kind = "cpu"
  /\ LET c == Head(queue[d]).c
     IN  landed' = [landed EXCEPT ![c] = @ \cup CpuRows(Pool(c), CpuPool(c), Head(queue[d]).xs)]
  /\ Pop(d)
  /\ UNCHANGED <<dsaVars, proc, poolVars, ctx, stream, rdma, freeEv, event, curDone, aborted>>

-----------------------------------------------------------------------------
(* The devices.                                                            *)

CurStep ==
  /\ Gpu /\ curDone < Max({Job(c).group : c \in Ctxs})
  /\ curDone' = curDone + 1
  /\ UNCHANGED <<dsaVars, proc, poolVars, ctx, queue, stream, rdma, freeEv, event, landed, aborted>>

\* A stream runs its items in order.
StreamStep(x) ==
  /\ stream[x] # <<>>
  /\ LET i == Head(stream[x])
     IN  /\ i.op = "cur" => curDone >= i.group
         /\ landed' = IF i.op = "copy" THEN [landed EXCEPT ![i.c] = @ \cup i.rows] ELSE landed
         /\ event' = IF i.op = "event" THEN [event EXCEPT ![i.e] = "done"] ELSE event
  /\ stream' = [stream EXCEPT ![x] = Tail(@)]
  /\ UNCHANGED <<dsaVars, proc, poolVars, ctx, queue, rdma, freeEv, curDone, aborted>>

EntryRow(e) == Row(Reached(maps, e.bar, e.off), e.cpu)
DsaStep(s, ok) ==
  /\ HwDone(s, ok)
  /\ LET w == hw[s].work
         c == w[1].c
     IN  landed' = IF ok THEN [landed EXCEPT ![c] = @ \cup {EntryRow(w[k]) : k \in DOMAIN w}]
                   ELSE landed
  /\ UNCHANGED <<holder, maps, nextBar, proc, poolVars, ctx, queue, stream, rdma, freeEv, event,
                 curDone, aborted>>
-----------------------------------------------------------------------------
(* The waiting thread and the end of a context.                            *)

\* xfer_wait: the future of xfer_finish, then the DSA ticket, then the event.
WaitFuture(c) ==
  /\ ctx[c].at = "issued" /\ ctx[c].fut
  /\ IF Gpu /\ proc.dsa /\ ctx[c].ticket # 0
     THEN WaitBegin(c, ctx[c].ticket) /\ ctx' = [ctx EXCEPT ![c].at = "dsa"]
     ELSE UNCHANGED wait /\ ctx' = [ctx EXCEPT ![c].at = "event"]
  /\ UNCHANGED <<slotVars, lastTicket, firstFailed, nextWq, call, holder, maps, nextBar,
                 proc, poolVars, queue, deviceVars, aborted>>

DsaWaitStep(c) ==
  /\ WaitLook(c) \/ WaitPoll(c)
  /\ UNCHANGED <<holder, maps, nextBar, xferVars>>

\* dsa_wait_ticket aborts when a batch up to the ticket failed.
DsaWaited(c) ==
  /\ ctx[c].at = "dsa" /\ wait[c].at = "back"
  /\ wait' = [wait EXCEPT ![c] = NotWaiting]
  /\ ctx' = [ctx EXCEPT ![c].at = "event"]
  /\ aborted' = (wait[c].rc # 0)
  /\ UNCHANGED <<slotVars, lastTicket, firstFailed, nextWq, call, holder, maps, nextBar,
                 proc, poolVars, queue, deviceVars>>

EventWait(c) ==
  /\ ctx[c].at = "event" /\ event[ctx[c].ev] = "done"
  /\ ctx' = [ctx EXCEPT ![c].at = "ready"]
  /\ UNCHANGED <<dsaVars, proc, poolVars, queue, deviceVars, aborted>>

\* The context is gone; SliceCopier.close then unregisters the pools it named.
Gone(c) ==
  /\ ctx' = [ctx EXCEPT ![c].at = "gone"]
  /\ inPools' = IF Job(c).owner = "copier" THEN inPools \ {Job(c).pool, Job(c).cpu} ELSE inPools

\* Mutant of ResetTicket: the destructor waits for its own batches only.
ResetTicketOwn(c) == ctx[c].ticket
ResetTicket(c) == TicketAll

\* ~Context: the event goes back to the pool; with RESET_ON_DESTROY the whole
\* engine is drained before the mappings are torn down.
Destroy(c) ==
  /\ ctx[c].at = "ready"
  /\ freeEv' = AfterRelease(c)
  /\ IF Gpu /\ proc.reset
     THEN /\ holder = None /\ holder' = c
          /\ WaitBegin(c, ResetTicket(c))
          /\ ctx' = [ctx EXCEPT ![c].at = "reset"]
          /\ UNCHANGED inPools
     ELSE Gone(c) /\ UNCHANGED <<holder, wait>>
  /\ UNCHANGED <<slotVars, lastTicket, firstFailed, nextWq, call, maps, nextBar, proc, hooked,
                 regs, lists, queue, stream, rdma, event, curDone, landed, aborted>>

ResetDone(c) ==
  /\ ctx[c].at = "reset" /\ wait[c].at = "back"
  /\ wait' = [wait EXCEPT ![c] = NotWaiting]
  /\ maps' = <<>> /\ holder' = None
  /\ Gone(c)
  /\ UNCHANGED <<slotVars, lastTicket, firstFailed, nextWq, call, nextBar, proc, hooked, regs,
                 lists, queue, deviceVars, aborted>>

-----------------------------------------------------------------------------
\* The outcomes of a step that fails only in a process with this fault.
May(fault) == IF fault \in proc.faults THEN BOOLEAN ELSE {TRUE}

\* The calls on a Context, what the H2D and D2H threads do with them, and the
\* thread that waits.
Caller(c) ==
  \/ FlowCreate(c) \/ CopierCreate(c)
  \/ XferWaitCurStream(c) \/ XferChunksBatch(c) \/ XferFinish(c)
Worker(d) ==
  \/ RunCur(d) \/ RunFinish(d) \/ RunCopyStream(d) \/ RunDsaSubmit(d)
  \/ \E ok \in May("pin") : RunCopyDsa(d, ok)
  \/ \E ok \in May("rdma") : RunRdmaDone(d, ok)
  \/ RunRdmaPost(d) \/ RunCopyCpu(d)
Waiter(c) ==
  WaitFuture(c) \/ DsaWaitStep(c) \/ DsaWaited(c) \/ EventWait(c) \/ ResetDone(c)
Device ==
  \/ CurStep
  \/ \E x \in Dirs \cup Ctxs : StreamStep(x)
  \/ \E s \in Slots, ok \in May("batch") : DsaStep(s, ok)

Next ==
  /\ ~aborted
  /\ \/ RdmaInit \/ \E n \in DOMAIN proc.pools : RegisterPool(n) \/ UnregisterPool(n)
     \/ \E c \in Ctxs : Caller(c) \/ Waiter(c) \/ Destroy(c)
     \/ \E d \in Dirs : Worker(d)
     \/ Device

\* Threads and devices run; nobody has to start a transfer or to drop a context,
\* but a destructor that holds the mutex finishes, and a put that began goes on.
Fairness ==
  /\ \A d \in Dirs : WF_vars(~aborted /\ Worker(d))
  /\ \A c \in Ctxs : WF_vars(~aborted /\ Waiter(c))
  /\ \A c \in Ctxs : WF_vars(~aborted /\ (XferWaitCurStream(c) \/ XferChunksBatch(c) \/ XferFinish(c)))
  /\ \A x \in Dirs \cup Ctxs : WF_vars(~aborted /\ StreamStep(x))
  /\ \A s \in Slots : WF_vars(~aborted /\ \E ok \in May("batch") : DsaStep(s, ok))
  /\ WF_vars(~aborted /\ CurStep)
Spec == Init /\ [][Next]_vars /\ Fairness

-----------------------------------------------------------------------------
Wanted(c) ==
  LET all == UNION {WantedRows(Pool(c), CpuPool(c), Job(c).calls[i]) : i \in DOMAIN Job(c).calls}
  IN  IF proc.kind = "cpu" THEN {r \in all : r.dev # r.cpu} ELSE all
InFlight(c) ==
  \/ \E s \in Slots : hw[s] # None /\ \E k \in DOMAIN hw[s].work : hw[s].work[k].c = c
  \/ \E x \in Dirs \cup Ctxs : \E i \in DOMAIN stream[x] :
       stream[x][i].op = "copy" /\ stream[x][i].c = c

\* xfer_wait returns only when every row of every chunk is at its place, whichever
\* back end moved it, with nothing left that could still write the blocks the
\* caller now compresses, frees or hands out again.
TransfersLand ==
  \A c \in Ctxs :
    /\ landed[c] \subseteq Wanted(c)
    /\ ctx[c].at \in {"ready", "reset", "gone"} /\ ~aborted => landed[c] = Wanted(c) /\ ~InFlight(c)

\* A batch in flight reaches, through a mapping that still exists, the very memory
\* it was built for: no reset, and no other mapping of the pool, pulls it away.
BarInside ==
  \A s \in Slots : hw[s] # None =>
    \A k \in DOMAIN hw[s].work : EntryRow(hw[s].work[k]) \in Wanted(hw[s].work[k].c)

\* The copies a stream or a blocking wait orders behind the compute stream: those of
\* every put, and with the switch those of a get that go to the stream.  A get without
\* the switch, or through the engine, starts whatever the compute stream is doing.
Ordered(c) ==
  Gpu /\ Job(c).owner = "flow" /\ (Job(c).dir = D2H \/ (proc.syncGet /\ ~proc.dsa))

\* No block is read before the compute stream has written it, whichever layer of the
\* put it belongs to; with the switch and without the engine no get overwrites a block
\* the compute stream still uses.
AfterCompute == \A c \in Ctxs : landed[c] # {} /\ Ordered(c) => curDone >= Job(c).group

\* The descriptor lists a context of the daemon holds exist in NIXL and are cut
\* like its own pools, though layers that share a buffer come and go.
DlistAlive ==
  \A c \in Ctxs : Remote /\ Live(c) => ctx[c].remote \in lists /\ ctx[c].local \in lists

\* A transfer that was issued ends: its waiter gets the data or the process stops
\* with an error, however full the queues are and whoever resets the engine.
XferReturns == \A c \in Ctxs : (ctx[c].at = "issued") ~> (aborted \/ ctx[c].at = "ready")
=============================================================================
