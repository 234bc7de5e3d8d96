------------------------------- MODULE KvZip -------------------------------
(***************************************************************************)
(* kv_zip: one batch of tensors is compressed into blocks, the blocks      *)
(* outlive the process, and a later process, perhaps configured otherwise, *)
(* decompresses them.                                                      *)
(*                                                                         *)
(* The threads of zip_pipeline claim segments from shared cursors and keep *)
(* a request in flight on each of their slots.  QAT answers are handed out *)
(* by whichever thread polls the instance, IAA jobs may be killed by a     *)
(* page fault and are replayed, CPU requests are synchronous.  A segment   *)
(* that finishes while others of its tensor are in flight parks its        *)
(* payload over its own bytes in the tensor; the last one assembles.       *)
(***************************************************************************)
EXTENDS ZipPlan

CONSTANTS
  NumTensors,  \* tensors of the batch
  TensorBytes, \* pool.block_bytes
  Configs,     \* the environments a process may be started with
  Growth,      \* bytes by which an incompressible segment grows
  ReplayLimit, \* PAGE_FAULT_RETRY_LIMIT
  MaxSlots,    \* slots of one back end, a bound of the model
  None

Tensors == 1..NumTensors
Backends == {"qat", "iaa", "cpu"}
SlotIds == Backends \X (0..(MaxSlots - 1))
Original == [t \in Tensors |-> [i \in 1..TensorBytes |-> [of |-> t, at |-> i, cut |-> FALSE]]]
Junk == [t \in Tensors |-> [i \in 1..TensorBytes |-> None]]
NoEntry == [offset |-> 0, length |-> 0, stored |-> FALSE, iaa |-> FALSE]
FreeSlot == [st |-> "free", in |-> <<>>, len |-> 0, out |-> <<>>, ok |-> TRUE, replays |-> 0]

VARIABLES
  cfg,      \* the environment of the running process
  phase,    \* "save" "zip" "zipped" "load" "unzip" "loaded"
  plan,     \* lane_plan(), computed at the first pipeline of a process
  tensor,   \* the tensors' bytes in the pool
  block,    \* out_bufs: the block made of each tensor
  entries,  \* segment entries of the batch, by position in segs
  pending,  \* ZipBlock::pending
  segs,     \* the segments of the batch: <<tensor, index>>
  cursor,   \* the claim cursors, with their ends
  lane,     \* lane[j]: what the owner of lane j is doing with it
  slot,     \* the back ends' slots
  aborted,  \* the failed IAXL_CHECK, or None
  wanted    \* what the blocks must decode to

batchVars == <<entries, pending, segs>>
workVars == <<cursor, lane, slot>>
vars == <<cfg, phase, plan, tensor, block, batchVars, workVars, aborted, wanted>>

Init ==
  /\ cfg \in {Envs(c) : c \in {d \in Configs : EnvsValid(d)}}
  /\ phase = "save" /\ plan = <<>>
  /\ tensor = Original
  /\ block = [t \in Tensors |-> None]
  /\ entries = <<>> /\ pending = [t \in Tensors |-> 0] /\ segs = <<>>
  /\ cursor = [iaa |-> 0, iaaEnd |-> 0, other |-> 0, otherEnd |-> 0]
  /\ lane = <<>> /\ slot = [s \in SlotIds |-> FreeSlot]
  /\ aborted = None
  /\ wanted = Original

Running == aborted = None
Abort(why) == aborted' = why /\ UNCHANGED <<cfg, phase, plan, tensor, block, batchVars, workVars, wanted>>

-----------------------------------------------------------------------------
(* The pipeline.                                                           *)

\* zip_pipeline: every thread goes through its lanes in the order of the plan.
StartPipeline(sq, iaaEnd) ==
  /\ plan' = LanePlan(cfg)
  /\ segs' = sq
  /\ cursor' = [iaa |-> 0, iaaEnd |-> iaaEnd, other |-> iaaEnd, otherEnd |-> Len(sq)]
  /\ lane' = [j \in 1..Len(AllLanes(cfg)) |-> [st |-> "todo", item |-> 0]]
  /\ slot' = [s \in SlotIds |-> FreeSlot]

SlotAt(j) == <<plan[j].be, plan[j].slot>>
Header(t) == MakeHeader(TensorBytes, cfg, cfg.shuffle)
Entry(i) == block[segs[i][1]].table[segs[i][2] + 1]
HeaderOf(i) == IF phase = "zip" THEN Header(segs[i][1]) ELSE block[segs[i][1]].h

\* The input the owner prepares for item i: the masked, shuffled segment, or
\* the stream of the payload without its raw second half.
Input(i) ==
  LET t == segs[i][1]
      k == segs[i][2]
      h == HeaderOf(i)
      bytes == Masked(cfg, SegmentBytes(h, tensor[t], k))
      start == Entry(i).offset - PayloadStart(h.segments)
      raw == SegmentLength(h, k) - ZipLength(h, k)
  IN  IF phase = "zip" THEN (IF h.shuffled THEN ShuffleCopy(bytes) ELSE bytes)
      ELSE SubSeq(block[t].body, start + 1, start + Entry(i).length - raw)
InputLength(i, data) == IF phase = "zip" THEN ZipLength(HeaderOf(i), segs[i][2]) ELSE Len(data)

\* What a back end may make of a request: a shorter stream or one that is not,
\* and an error when the output buffer is too small.
CompressResults(be, data) ==
  {[ok |-> n <= cfg.dstCap, out |-> Deflate(be, data, n)] : n \in {1, Len(data) + Growth}}
DecompressResults(be, data) ==
  IF Inflatable(be, data) THEN {[ok |-> Len(data[1].data) <= cfg.srcCap, out |-> data[1].data]}
  ELSE {[ok |-> FALSE, out |-> <<>>]}
Results(be, data) == IF phase = "zip" THEN CompressResults(be, data) ELSE DecompressResults(be, data)

\* Mutant of RangeOf: IAA workers also take the segments of the others.
RangeShared(be) == IF phase = "unzip" /\ cursor.iaa < cursor.iaaEnd THEN "iaa" ELSE "other"
\* The range a back end claims from: IAA streams go to IAA only.
RangeOf(be) == IF phase = "unzip" /\ be = "iaa" THEN "iaa" ELSE "other"
End(range) == IF range = "iaa" THEN cursor.iaaEnd ELSE cursor.otherEnd

\* A request in a slot, as submit_slot leaves it: QAT and IAA work on it by
\* themselves, the CPU has finished it (with result r).
Submitted(be, data, n, r) ==
  [st |-> IF be = "cpu" THEN "done" ELSE "busy", in |-> data, len |-> n,
   out |-> r.out, ok |-> r.ok, replays |-> 0]
InputCap == IF phase = "zip" THEN cfg.srcCap ELSE cfg.dstCap

\* Item i goes to slot s of back end be.
Submit(s, be, i) ==
  \E data \in {Input(i)} :
    LET n == InputLength(i, data)
        answers == IF be = "cpu" THEN Results(be, SubSeq(data, 1, n))
                   ELSE {[ok |-> TRUE, out |-> <<>>]}
    IN  IF n > InputCap \/ n = 0 THEN aborted' = "submit" /\ UNCHANGED slot
        ELSE /\ \E r \in answers : slot' = [slot EXCEPT ![s] = Submitted(be, data, n, r)]
             /\ UNCHANGED aborted

\* A lane claims the next segment and submits it, or is dropped.  Claims at the
\* start go in the order of the plan; later ones when a request completes.
Offer(j) ==
  /\ Running /\ lane[j].st \in {"todo", "next"}
  /\ \A m \in 1..Len(plan) : m < j /\ plan[m].owner = plan[j].owner => lane[m].st # "todo"
  /\ LET range == RangeOf(plan[j].be) IN
       /\ cursor' = [cursor EXCEPT ![range] = @ + 1]
       /\ IF cursor[range] >= End(range)
          THEN lane' = [lane EXCEPT ![j] = [st |-> "off", item |-> 0]] /\ UNCHANGED <<slot, aborted>>
          ELSE /\ lane' = [lane EXCEPT ![j] = [st |-> "flight", item |-> cursor'[range]]]
               /\ Submit(SlotAt(j), plan[j].be, cursor'[range])
  /\ UNCHANGED <<cfg, phase, plan, tensor, block, batchVars, wanted>>

\* The hardware finishes the request of slot s.  A QAT answer waits on the
\* instance's ring, an IAA answer is seen by qpl_check_job at once.
DeviceDone(s) ==
  /\ Running /\ slot[s].st = "busy"
  /\ \E r \in Results(s[1], SubSeq(slot[s].in, 1, slot[s].len)) :
       slot' = [slot EXCEPT ![s].st = IF s[1] = "qat" THEN "resp" ELSE "done",
                            ![s].out = r.out, ![s].ok = r.ok]
  /\ UNCHANGED <<cfg, phase, plan, tensor, block, batchVars, cursor, lane, aborted, wanted>>

\* IAA cannot resolve page faults: the kernel dropped a mapping, the job dies.
DeviceFault(s) ==
  /\ Running /\ s[1] = "iaa" /\ slot[s].st = "busy"
  /\ slot' = [slot EXCEPT ![s].st = "fault"]
  /\ UNCHANGED <<cfg, phase, plan, tensor, block, batchVars, cursor, lane, aborted, wanted>>

\* A thread polls its own lanes once all of them have been offered.
Polls(j) ==
  /\ Running /\ lane[j].st = "flight"
  /\ \A m \in 1..Len(plan) : plan[m].owner = plan[j].owner => lane[m].st # "todo"

SameInstance(s, r) == s[1] = r[1] /\ InstanceOf(cfg, s[1], s[2]) = InstanceOf(cfg, r[1], r[2])

\* Mutant of Called: only the poller's own slot is marked, other answers are lost.
CalledOwn(s, r) == r = s
\* The slots whose callback runs when the owner of slot s polls its instance.
Called(s, r) == SameInstance(s, r)

\* wait_op on a slot that is not done: icp_sal_DcPollInstance takes every answer
\* off the ring and runs dc_callback for it, whoever owns the slot.
PollQat(j) ==
  /\ Polls(j) /\ plan[j].be = "qat" /\ slot[SlotAt(j)].st # "done"
  /\ slot' = [r \in SlotIds |->
               IF SameInstance(SlotAt(j), r) /\ slot[r].st = "resp"
               THEN [slot[r] EXCEPT !.st = IF Called(SlotAt(j), r) THEN "done" ELSE "lost"]
               ELSE slot[r]]
  /\ UNCHANGED <<cfg, phase, plan, tensor, block, batchVars, cursor, lane, aborted, wanted>>

\* iaa_zip_wait on a killed job: touch the pages and submit it again from the
\* slot's input buffer, at most ReplayLimit times.
ReplayFault(j) ==
  /\ Polls(j) /\ slot[SlotAt(j)].st = "fault"
  /\ IF slot[SlotAt(j)].replays < ReplayLimit
     THEN /\ slot' = [slot EXCEPT ![SlotAt(j)].st = "busy", ![SlotAt(j)].replays = @ + 1]
          /\ UNCHANGED aborted
     ELSE aborted' = "replays" /\ UNCHANGED slot
  /\ UNCHANGED <<cfg, phase, plan, tensor, block, batchVars, cursor, lane, wanted>>

-----------------------------------------------------------------------------
(* Saving.                                                                 *)

\* Position of segment k of tensor t in segs.
PosOf(t, k) == CHOOSE i \in DOMAIN segs : segs[i] = <<t, k>>

\* Parks payload p over the bytes of segment k.
Park(bytes, h, k, p) ==
  [i \in DOMAIN bytes |-> IF i > k * h.segSize /\ i <= k * h.segSize + Len(p)
                          THEN p[i - k * h.segSize] ELSE bytes[i]]

\* assemble: the payloads in order behind header and table; segment `last` is
\* taken from p unless it was parked (p = None).
Assembled(t, last, p, es) ==
  LET h == Header(t)
      e(k) == es[PosOf(t, k)]
      Part(k) == IF k = last /\ p # None THEN p
                 ELSE SubSeq(tensor[t], k * h.segSize + 1, k * h.segSize + e(k).length)
      parts == [k \in 1..h.segments |-> Part(k - 1)]
      Before(k) == FoldLeft(LAMBDA n, q : n + Len(q), 0, SubSeq(parts, 1, k - 1))
  IN  [h |-> h, body |-> FlattenSeq(parts),
       table |-> [k \in 1..h.segments |->
                   [e(k - 1) EXCEPT !.offset = PayloadStart(h.segments) + Before(k)]]]

\* Mutant of OthersInFlight: two segments in flight count as one.
OthersInFlightOff(n) == n > 2
\* The test on pending, both when it is read and when it is decremented.
OthersInFlight(n) == n > 1

\* The completion of a compression: entry and payload, then either park the
\* payload or, as the last segment, assemble from the output buffer.
ZipComplete(j) ==
  LET s == slot[SlotAt(j)]
      i == lane[j].item
      t == segs[i][1]
      h == Header(t)
      shrunk == Len(s.out) < s.len
      payload == IF shrunk THEN s.out \o SubSeq(s.in, s.len + 1, Len(s.in)) ELSE s.in
      es == [entries EXCEPT ![i] = [offset |-> 0, length |-> Len(payload), stored |-> ~shrunk,
                                    iaa |-> shrunk /\ plan[j].be = "iaa"]]
  IN  /\ entries' = es
      /\ IF OthersInFlight(pending[t])
         THEN /\ tensor' = [tensor EXCEPT ![t] = Park(@, h, segs[i][2], payload)]
              /\ lane' = [lane EXCEPT ![j].st = "parked"]
              /\ UNCHANGED block
         ELSE /\ block' = [block EXCEPT ![t] = Assembled(t, segs[i][2], payload, es)]
              /\ lane' = [lane EXCEPT ![j].st = "next"]
              /\ UNCHANGED tensor

\* The decrement after parking; the last one assembles from the tensor alone.
Parked(j) ==
  /\ Running /\ lane[j].st = "parked"
  /\ LET t == segs[lane[j].item][1] IN
       /\ pending' = [pending EXCEPT ![t] = @ - 1]
       /\ block' = IF OthersInFlight(pending[t]) THEN block
                   ELSE [block EXCEPT ![t] = Assembled(t, segs[lane[j].item][2], None, entries)]
  /\ lane' = [lane EXCEPT ![j].st = "next"]
  /\ UNCHANGED <<cfg, phase, plan, tensor, entries, segs, cursor, slot, aborted, wanted>>

\* kv_zip_compress_batch: raw blocks when compression is off, else the set-up of
\* the batch and the pipeline.
SaveBegin(compress, up) ==
  /\ Running /\ phase = "save"
  /\ LET h == IF compress /\ cfg.comp THEN Header(1) ELSE MakeHeader(TensorBytes, cfg, FALSE)
         sq == FlattenSeq([t \in Tensors |-> [k \in 1..h.segments |-> <<t, k - 1>>]])
     IN  IF ~compress \/ ~cfg.comp
         THEN /\ block' = [t \in Tensors |->
                   [h |-> h, body |-> tensor[t],
                    table |-> [k \in 1..h.segments |->
                       [offset |-> PayloadStart(h.segments) + (k - 1) * h.segSize,
                        length |-> SegmentLength(h, k - 1), stored |-> TRUE, iaa |-> FALSE]]]]
              /\ phase' = "zipped"
              /\ UNCHANGED <<cfg, plan, tensor, batchVars, workVars, aborted, wanted>>
         ELSE IF SegmentLength(h, h.segments - 1) > cfg.srcCap THEN Abort("cap")
         ELSE IF ~ZipInitOK(cfg, up) THEN Abort("init")
         ELSE /\ StartPipeline(sq, 0)
              /\ entries' = [i \in DOMAIN sq |-> NoEntry]
              /\ pending' = [t \in Tensors |-> h.segments]
              /\ wanted' = [t \in Tensors |-> Masked(cfg, Original[t])]
              /\ phase' = "zip"
              /\ UNCHANGED <<cfg, tensor, block, aborted>>

\* The save returns when every thread has dropped its lanes.
SaveReturns ==
  /\ Running /\ phase = "zip" /\ \A j \in DOMAIN lane : lane[j].st = "off"
  /\ phase' = "zipped"
  /\ UNCHANGED <<cfg, plan, tensor, block, batchVars, workVars, aborted, wanted>>

-----------------------------------------------------------------------------
(* Loading.                                                                *)

\* The blocks are on disk; another process, with its own environment and its
\* own plan, will load them.
Restart(c) ==
  /\ Running /\ phase = "zipped" /\ EnvsValid(c)
  /\ cfg' = Envs(c) /\ plan' = <<>> /\ phase' = "load"
  /\ tensor' = Junk
  /\ entries' = <<>> /\ pending' = [t \in Tensors |-> 0] /\ segs' = <<>>
  /\ cursor' = [iaa |-> 0, iaaEnd |-> 0, other |-> 0, otherEnd |-> 0]
  /\ lane' = <<>> /\ slot' = [s \in SlotIds |-> FreeSlot]
  /\ UNCHANGED <<block, aborted, wanted>>

PlaceLength(h, e, k) == IF ~e.stored /\ h.expOnly THEN ZipLength(h, k) ELSE SegmentLength(h, k)

\* place: the bytes of segment k given its decoded head; the raw second half of
\* an exponent-only segment ends the payload.
Placed(b, k, head) ==
  LET h == b.h
      e == b.table[k + 1]
      full == SegmentLength(h, k)
      stop == e.offset - PayloadStart(h.segments) + e.length
      tail == SubSeq(b.body, stop - (full - Len(head)) + 1, stop)
  IN  IF h.shuffled
      THEN (IF ~e.stored /\ h.expOnly THEN ShuffleCopy(head \o tail) ELSE ShuffleCopy(head))
      ELSE head

PayloadOf(b, k) ==
  LET start == b.table[k + 1].offset - PayloadStart(b.h.segments)
  IN  SubSeq(b.body, start + 1, start + b.table[k + 1].length)

Segments(stored, iaa) ==
  FlattenSeq([t \in Tensors |->
    SelectSeq([k \in 1..block[t].h.segments |-> <<t, k - 1>>],
      LAMBDA r : LET e == block[r[1]].table[r[2] + 1] IN e.stored = stored /\ e.iaa = iaa)])

\* kv_zip_decompress_batch: stored segments are placed at once; the others need
\* an enabled back end that can decode them.
LoadBegin(up) ==
  /\ Running /\ phase = "load"
  /\ LET stored == Segments(TRUE, FALSE)
         iaa == Segments(FALSE, TRUE)
         others == Segments(FALSE, FALSE)
         placed == [t \in Tensors |->
           LET b == block[t]
           IN  FoldLeft(LAMBDA bytes, r : IF r[1] # t THEN bytes
                          ELSE Park(bytes, b.h, r[2], Placed(b, r[2], PayloadOf(b, r[2]))),
                        tensor[t], stored)]
     IN  IF iaa # <<>> /\ ~cfg.iaaOn THEN Abort("iaa")
         ELSE IF others # <<>> /\ ~cfg.qatOn /\ ~cfg.cpuOn THEN Abort("others")
         ELSE IF iaa \o others = <<>>
         THEN /\ tensor' = placed /\ phase' = "loaded"
              /\ UNCHANGED <<cfg, plan, block, batchVars, workVars, aborted, wanted>>
         ELSE IF ~ZipInitOK(cfg, up) THEN Abort("init")
         ELSE /\ tensor' = placed /\ phase' = "unzip"
              /\ StartPipeline(iaa \o others, Len(iaa))
              /\ UNCHANGED <<cfg, block, entries, pending, aborted, wanted>>

UnzipComplete(j) ==
  LET i == lane[j].item
      t == segs[i][1]
      k == segs[i][2]
      out == slot[SlotAt(j)].out
  IN  /\ tensor' = [tensor EXCEPT ![t] = Park(@, block[t].h, k, Placed(block[t], k, out))]
      /\ lane' = [lane EXCEPT ![j].st = "next"]
      /\ UNCHANGED <<block, entries>>

\* The completion of a request, with the checks on its status and its size.
Finish(j) ==
  /\ Polls(j) /\ slot[SlotAt(j)].st = "done"
  /\ LET s == slot[SlotAt(j)]
         i == lane[j].item
         e == Entry(i)
     IN  IF ~s.ok THEN Abort("wait")
         ELSE IF phase = "unzip" /\ Len(s.out) # PlaceLength(HeaderOf(i), e, segs[i][2])
         THEN Abort("size")
         ELSE /\ IF phase = "zip" THEN ZipComplete(j) ELSE UnzipComplete(j)
              /\ slot' = [slot EXCEPT ![SlotAt(j)].st = "free"]
              /\ UNCHANGED <<cfg, phase, plan, pending, segs, cursor, aborted, wanted>>

LoadReturns ==
  /\ Running /\ phase = "unzip" /\ \A j \in DOMAIN lane : lane[j].st = "off"
  /\ phase' = "loaded"
  /\ UNCHANGED <<cfg, plan, tensor, block, batchVars, workVars, aborted, wanted>>

-----------------------------------------------------------------------------
LaneStep(j) == Offer(j) \/ PollQat(j) \/ ReplayFault(j) \/ Finish(j) \/ Parked(j)
Device(s) == DeviceDone(s) \/ DeviceFault(s)

Next ==
  \/ \E compress, up \in BOOLEAN : SaveBegin(compress, up)
  \/ \E up \in BOOLEAN : LoadBegin(up)
  \/ \E j \in DOMAIN lane : LaneStep(j)
  \/ \E s \in SlotIds : Device(s)
  \/ \E c \in Configs : Restart(c)
  \/ SaveReturns \/ LoadReturns

\* The pipeline's threads go round their lanes for ever, the hardware answers
\* what it accepts, and a returned call returns.
Fairness ==
  /\ \A j \in 1..(3 * MaxSlots) : WF_vars(j \in DOMAIN lane /\ LaneStep(j))
  /\ \A s \in SlotIds : WF_vars(DeviceDone(s))
  /\ WF_vars(SaveReturns) /\ WF_vars(LoadReturns)

Spec == Init /\ [][Next]_vars /\ Fairness

-----------------------------------------------------------------------------
(* Properties.                                                             *)

\* A reference decoder: what segment k of block b stands for.
Decoded(b, k) ==
  LET h == b.h
      e == b.table[k + 1]
      stream == SubSeq(PayloadOf(b, k), 1, e.length - (SegmentLength(h, k) - ZipLength(h, k)))
  IN  IF e.stored THEN Placed(b, k, PayloadOf(b, k))
      ELSE IF ~Inflatable(IF e.iaa THEN "iaa" ELSE "cpu", stream) THEN <<None>>
      ELSE Placed(b, k, stream[1].data)

\* Every block that assemble has made decodes, segment by segment, to the
\* tensor it was made from, and none is missing when the save returns: no
\* payload was taken from the tensor before it was parked, or overwritten.
BlocksRight ==
  /\ \A t \in Tensors : block[t] # None =>
       FlattenSeq([k \in 1..block[t].h.segments |-> Decoded(block[t], k - 1)]) = wanted[t]
  /\ phase = "zipped" => \A t \in Tensors : block[t] # None

\* A load that returns has restored every tensor, whichever back ends made the
\* blocks and whichever decode them.
RoundTrip == phase = "loaded" => tensor = wanted

\* No slot serves two requests: as long as one is in flight its input buffer
\* holds that item's data, also for the replays after page faults, and no
\* stream reaches a back end that cannot decode it.
SlotsExclusive ==
  /\ \A j \in DOMAIN lane : lane[j].st = "flight" /\ Running =>
       slot[SlotAt(j)].in = Input(lane[j].item) /\ slot[SlotAt(j)].st # "free"
  /\ aborted \notin {"submit", "wait", "size"}

\* Every batch ends, however the threads share the instances: no answer is
\* lost between the thread that polls it and the thread that waits for it.
BatchEnds == phase \in {"zip", "unzip"} ~> (phase \notin {"zip", "unzip"} \/ ~Running)
=============================================================================
