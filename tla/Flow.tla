-------------------------------- MODULE Flow --------------------------------
(***************************************************************************)
(* KVFlow: saves and loads through the scratch pool.                       *)
(*                                                                         *)
(* One Python thread calls put, get, put_wait and get_wait.  A call makes  *)
(* one task per layer; a task holds scratch blocks, one per chunk, from    *)
(* its allocation until somebody waits for it.  Three queue threads and    *)
(* the device work behind the caller's back:                               *)
(*   put: D2H issues the copy, the device fills the blocks, OMP-Main waits *)
(*        for the event, compresses the blocks and puts them into Mem;     *)
(*   get: OMP-Main decompresses from Mem into the blocks and submits the   *)
(*        copy to H2D, the device reads the blocks.                        *)
(* A chunk of a layer is a key; a block's content is the key it carries,   *)
(* so a block that is handed out again too early shows as a wrong key.     *)
(***************************************************************************)
EXTENDS Integers, Sequences, FiniteSets, SequencesExt

CONSTANTS
  NumBlocks,   \* blocks of the scratch pool
  Calls,       \* the calls of the client, each made at most once
  Op,          \* Op[c]: "put" or "get"
  Keys,        \* Keys[c][l]: the keys of layer l of call c, one per chunk
  None         \* no content, no task

Blocks == 0..(NumBlocks - 1)
Tasks == UNION {{<<c, l>> : l \in 1..Len(Keys[c])} : c \in Calls}
OpOf(t) == Op[t[1]]
KeysOf(t) == Keys[t[1]][t[2]]
Need(t) == Len(KeysOf(t))
AllKeys == UNION {Range(KeysOf(t)) : t \in Tasks}

\* Native work: the task, the block indices captured when it was submitted,
\* and whether it is a load's second attempt.
Works == [t : Tasks, bs : Seq(Blocks), again : BOOLEAN]
Work(t, bs, again) == [t |-> t, bs |-> bs, again |-> again]

ASSUME FlowAssumption ==
  /\ NumBlocks \in Nat
  /\ IsFiniteSet(Calls)
  /\ Op \in [Calls -> {"put", "get"}]
  /\ Keys \in [Calls -> Seq(Seq(AllKeys))]
  /\ \A c \in Calls : Keys[c] # <<>> /\ \A l \in 1..Len(Keys[c]) : Keys[c][l] # <<>>
  /\ None \notin Tasks /\ None \notin AllKeys /\ None \notin Works

VARIABLES
  free,       \* ScratchPool._free, handed out from the end
  held,       \* held[t]: block_indices of the task, <<>> once released
  live,       \* tasks whose ctx is not None
  made,       \* tasks put() and get() have created
  call,       \* the layer the Python thread is about to submit, or None
  raised,     \* the layers _allocate has raised for
  d2h, h2d,   \* copies queued for the two transfer threads
  stream,     \* stream[o]: copies issued to the device, in order
  hi, lo,     \* OMP-Main: loads on their levels; saves and retries in order
  omp,        \* the work OMP-Main has popped, or None
  copied,     \* tasks whose event is reached
  ready,      \* tasks whose zip_future_ or unzip_future_ is ready
  aborted,    \* a retried load missed again: IAXL_CHECK(false)
  blk,        \* blk[b]: what block b holds
  mem,        \* mem[k]: what Mem holds for key k
  gpu         \* gpu[t]: what a load has copied to the device

poolVars   == <<free, held, live, made>>
clientVars == <<call, raised>>
xferVars   == <<d2h, h2d, stream, copied>>
ompVars    == <<hi, lo, omp, ready, aborted>>
dataVars   == <<blk, mem, gpu>>
vars == <<poolVars, clientVars, xferVars, ompVars, dataVars>>

Init ==
  /\ free = [i \in 1..NumBlocks |-> i - 1]
  /\ held = [t \in Tasks |-> <<>>] /\ live = {} /\ made = {}
  /\ call = None /\ raised = {}
  /\ d2h = <<>> /\ h2d = <<>> /\ copied = {}
  /\ stream = [o \in {"put", "get"} |-> <<>>]
  /\ hi = {} /\ lo = <<>> /\ omp = None /\ ready = {} /\ aborted = FALSE
  /\ blk = [b \in Blocks |-> None]
  /\ mem = [k \in AllKeys |-> None]
  /\ gpu = [t \in Tasks |-> <<>>]

-----------------------------------------------------------------------------
(* The Python thread.                                                      *)

LayersOf(c) == {t \in Tasks : t[1] = c}
Begun(c) == \E t \in LayersOf(c) : t \in made \cup raised

\* Keys has() answers for: put_finish follows the whole put(), not its work.
Recorded ==
  UNION {Range(KeysOf(t)) : t \in {u \in Tasks : OpOf(u) = "put" /\ LayersOf(u[1]) \subseteq made}}

\* put() or get() is called; a load only for keys has() answered for.
Begin(c) ==
  /\ call = None /\ ~Begun(c)
  /\ Op[c] = "get" => \A t \in LayersOf(c) : Range(KeysOf(t)) \subseteq Recorded
  /\ call' = <<c, 1>>
  /\ UNCHANGED <<poolVars, raised, xferVars, ompVars, dataVars>>

\* ScratchPool.allocate: the last n free blocks, and what stays.
Left(n) == SubSeq(free, 1, Len(free) - n)
Taken(n) == SubSeq(free, Len(free) - n + 1, Len(free))

\* One layer of put() or get(): the blocks, the pending task, the next layer.
Layer(o) ==
  /\ call # None /\ OpOf(call) = o /\ Need(call) <= Len(free)
  /\ free' = Left(Need(call))
  /\ held' = [held EXCEPT ![call] = Taken(Need(call))]
  /\ live' = live \cup {call}
  /\ made' = made \cup {call}
  /\ call' = IF call[2] < Len(Keys[call[1]]) THEN <<call[1], call[2] + 1>> ELSE None

\* put(): the copy for the D2H thread, the compression for OMP-Main.
PutLayer ==
  /\ Layer("put")
  /\ LET w == Work(call, Taken(Need(call)), FALSE) IN
       d2h' = Append(d2h, w) /\ lo' = Append(lo, w)
  /\ UNCHANGED <<raised, h2d, stream, copied, hi, omp, ready, aborted, dataVars>>

\* get(): the decompression for OMP-Main.
GetLayer ==
  /\ Layer("get")
  /\ hi' = hi \cup {Work(call, Taken(Need(call)), FALSE)}
  /\ UNCHANGED <<raised, xferVars, lo, omp, ready, aborted, dataVars>>

\* Mutant of Complete: a load is complete once its event is recorded.
CompleteRecorded(t) ==
  t \in ready /\ (OpOf(t) = "get" =>
    t \in copied \/ \E i \in 1..Len(stream["get"]) : stream["get"][i].t = t)
\* zip_wait returns; unzip_wait and then xfer_wait, up to the event, return.
Complete(t) == t \in ready /\ (OpOf(t) = "get" => t \in copied)

\* Mutant of Forget: block_indices is kept.
ForgetNot(t) == held
Forget(t) == [held EXCEPT ![t] = <<>>]

\* put_wait or get_wait passes over a task without ctx, and otherwise gives up
\* the ctx and the blocks of a complete one.
Release(t) ==
  /\ t \in live /\ Complete(t)
  /\ live' = live \ {t}
  /\ free' = free \o held[t]
  /\ held' = Forget(t)
  /\ UNCHANGED <<made, clientVars, xferVars, ompVars, dataVars>>

\* The client waits for a task, or asks for it without waiting.  It has no
\* handle on the tasks of a call that raised.
Wait(t) == call = None /\ LayersOf(t[1]) \cap raised = {} /\ Release(t)

\* _allocate has too few free blocks.
Starved == call # None /\ Need(call) > Len(free)

\* _pending_puts and _pending_gets.
Pending == live

\* It polls the pending tasks, ...
Poll(t) == Starved /\ t \in Pending /\ Release(t)

\* Mutant of GivesUp: one round of polling that frees nothing is enough.
GivesUpEarly == \A t \in Pending : ~Complete(t)
GivesUp == Pending = {}

\* ... and raises when there are none; put() or get() ends with the exception.
Raise ==
  /\ Starved /\ GivesUp
  /\ raised' = raised \cup {call} /\ call' = None
  /\ UNCHANGED <<poolVars, xferVars, ompVars, dataVars>>

-----------------------------------------------------------------------------
(* The transfer threads and the device.                                    *)

\* The D2H or H2D thread issues the copy and records the event behind it.
IssueD2H ==
  /\ d2h # <<>>
  /\ d2h' = Tail(d2h)
  /\ stream' = [stream EXCEPT !["put"] = Append(@, Head(d2h))]
  /\ UNCHANGED <<poolVars, clientVars, h2d, copied, ompVars, dataVars>>

IssueH2D ==
  /\ h2d # <<>>
  /\ h2d' = Tail(h2d)
  /\ stream' = [stream EXCEPT !["get"] = Append(@, Head(h2d))]
  /\ UNCHANGED <<poolVars, clientVars, d2h, copied, ompVars, dataVars>>

\* Blocks bs after val was written to them; what blocks bs hold.
Written(bs, val) ==
  [b \in Blocks |-> IF \E i \in DOMAIN bs : bs[i] = b
                     THEN val[CHOOSE i \in DOMAIN bs : bs[i] = b] ELSE blk[b]]
Content(bs) == [i \in DOMAIN bs |-> blk[bs[i]]]

\* The device runs the front copy of a stream and reaches its event.
DeviceCopy(o) ==
  /\ stream[o] # <<>>
  /\ LET w == Head(stream[o]) IN
       /\ blk' = IF o = "put" THEN Written(w.bs, KeysOf(w.t)) ELSE blk
       /\ gpu' = IF o = "get" THEN [gpu EXCEPT ![w.t] = Content(w.bs)] ELSE gpu
       /\ copied' = copied \cup {w.t}
  /\ stream' = [stream EXCEPT ![o] = Tail(@)]
  /\ UNCHANGED <<poolVars, clientVars, d2h, h2d, ompVars, mem>>

-----------------------------------------------------------------------------
(* OMP-Main.                                                               *)

\* A load's level goes first, in whatever order the levels and sorts give.
PopHigh ==
  /\ omp = None /\ ~aborted
  /\ \E w \in hi : hi' = hi \ {w} /\ omp' = w
  /\ UNCHANGED <<poolVars, clientVars, xferVars, lo, ready, aborted, dataVars>>

PopLow ==
  /\ omp = None /\ ~aborted /\ hi = {} /\ lo # <<>>
  /\ lo' = Tail(lo) /\ omp' = Head(lo)
  /\ UNCHANGED <<poolVars, clientVars, xferVars, hi, ready, aborted, dataVars>>

\* Mutant of XferDone: zip_to_mem_work does not wait for the copy.
XferDoneNot(t) == TRUE
\* xfer_wait: the event of the copy is reached.
XferDone(t) == t \in copied

\* zip_to_mem_work: wait for the copy, compress the blocks, Mem::put.
ZipToMem ==
  /\ omp # None /\ OpOf(omp.t) = "put" /\ XferDone(omp.t)
  /\ mem' = [k \in AllKeys |->
               IF \E i \in 1..Need(omp.t) : KeysOf(omp.t)[i] = k
               THEN Content(omp.bs)[CHOOSE i \in 1..Need(omp.t) : KeysOf(omp.t)[i] = k]
               ELSE mem[k]]
  /\ ready' = ready \cup {omp.t}
  /\ omp' = None
  /\ UNCHANGED <<poolVars, clientVars, xferVars, hi, lo, aborted, blk, gpu>>

Found(w) == \A i \in 1..Need(w.t) : mem[KeysOf(w.t)[i]] # None

\* execute() with every key present: decompress, submit the copy, set the promise.
UnzipFromMem ==
  /\ omp # None /\ OpOf(omp.t) = "get" /\ Found(omp)
  /\ blk' = Written(omp.bs, [i \in 1..Need(omp.t) |-> mem[KeysOf(omp.t)[i]]])
  /\ h2d' = Append(h2d, omp)
  /\ ready' = ready \cup {omp.t}
  /\ omp' = None
  /\ UNCHANGED <<poolVars, clientVars, d2h, stream, copied, hi, lo, aborted, mem, gpu>>

\* Mutant of Requeue: the retry goes before the saves.
RequeueFirst(w) == <<[w EXCEPT !.again = TRUE]>> \o lo
\* Mutant of Requeue: the retry is dropped.
RequeueNone(w) == lo
Requeue(w) == Append(lo, [w EXCEPT !.again = TRUE])

\* execute() with a key missing: once more behind the saves, then abort.
Miss ==
  /\ omp # None /\ OpOf(omp.t) = "get" /\ ~Found(omp)
  /\ aborted' = omp.again
  /\ lo' = IF omp.again THEN lo ELSE Requeue(omp)
  /\ omp' = None
  /\ UNCHANGED <<poolVars, clientVars, xferVars, hi, ready, dataVars>>

-----------------------------------------------------------------------------

Submit == PutLayer \/ GetLayer
Python == Submit \/ (\E t \in Tasks : Poll(t)) \/ Raise
Omp == PopHigh \/ PopLow \/ ZipToMem \/ UnzipFromMem \/ Miss
Device == \E o \in {"put", "get"} : DeviceCopy(o)

Next ==
  \/ \E c \in Calls : Begin(c)
  \/ \E t \in Tasks : Wait(t)
  \/ Python \/ IssueD2H \/ IssueH2D \/ Device \/ Omp

Spec == Init /\ [][Next]_vars

\* A call in progress goes on, the three queue threads run, and the device
\* completes what was issued.  The client need not call or wait.
FairSpec ==
  /\ Spec /\ WF_vars(Python)
  /\ WF_vars(IssueD2H) /\ WF_vars(IssueH2D) /\ WF_vars(Omp)
  /\ \A o \in {"put", "get"} : WF_vars(DeviceCopy(o))

-----------------------------------------------------------------------------
(* Properties.                                                             *)

\* Every scratch block is free or held by one task, never twice and never by
\* nobody, whoever released it: the client's wait or the poll of _allocate.
OneOwner ==
  /\ Range(free) \cup UNION {Range(held[t]) : t \in Tasks} = Blocks
  /\ Cardinality(Range(free)) = Len(free)
  /\ \A t \in Tasks : /\ Range(held[t]) \cap Range(free) = {}
                       /\ \A u \in Tasks \ {t} : Range(held[t]) \cap Range(held[u]) = {}

\* The work some thread or the device still has to do on blocks.
InFlight ==
  hi \cup Range(lo) \cup ({omp} \ {None}) \cup Range(d2h) \cup Range(h2d)
     \cup Range(stream["put"]) \cup Range(stream["get"])

\* No block goes back to the pool while a queued compression, a queued copy or
\* a copy on the device still has its index.
InFlightOwned == \A w \in InFlight : held[w.t] = w.bs

\* What Mem holds for a key is that key's data: compression never reads a
\* block before its copy, nor after another task got it.
SavesRight == \A k \in AllKeys : mem[k] \in {k, None}

\* get_wait returns only with every chunk of the layer on the device, no load
\* ever copies another chunk's data there, and none aborts: a load that overtakes
\* its save runs again behind it ("cache key missing after retry" is unreachable
\* without eviction).
LoadsRight ==
  /\ ~aborted
  /\ \A t \in made : OpOf(t) = "get" =>
       /\ gpu[t] \in {<<>>, KeysOf(t)}
       /\ t \notin live => gpu[t] = KeysOf(t)

\* "ScratchPool exhausted" is raised only for a call that needs more blocks
\* than the pool has, never because other tasks were still running.
RaiseJustified == \A t \in raised : Need(t) > NumBlocks

\* put() and get() return or raise, though nobody waits for earlier tasks: the
\* poll in _allocate gets their blocks back.
CallReturns == (call # None) ~> (call = None)
=============================================================================
