------------------------------ MODULE ZipPlan ------------------------------
(* What kv_zip computes once from the environment and the host before any   *)
(* byte moves: the back-end instances it opens, the slots of those           *)
(* instances, the thread that drives each slot (lane_plan), the split of a   *)
(* tensor into segments, and the byte transforms of a segment.               *)
(* A configuration is a record of the IAXL_ variables it depends on.         *)
EXTENDS Integers, Sequences, FiniteSets, SequencesExt

CONSTANTS
  QatDevices,  \* instances the driver reports for each PCIe bus, a sequence
  IaaDevices   \* numa_node of each IAA device the host lists, -1 where it has none

MaxQueueDepth == 4
MaxInstances == 256
MaxNumaNodes == 16
HeaderBytes == 20
EntryBytes == 12

Least(a, b) == IF a < b THEN a ELSE b
Clamp(x, lo, hi) == IF x < lo THEN lo ELSE Least(x, hi)

(* The environment.                                                          *)

\* A disabled back end counts no workers, and at least one thread drives them.
Envs(c) == [c EXCEPT !.qatNum = IF c.qatOn THEN @ ELSE 0,
                     !.iaaNum = IF c.iaaOn THEN @ ELSE 0,
                     !.cpuNum = IF c.cpuOn THEN @ ELSE 0,
                     !.omp = IF @ < 1 THEN 1 ELSE @]

\* IAXL_KV_COMPRESSION=1 without any back end ends the process.
EnvsValid(c) == c.comp => c.qatOn \/ c.iaaOn \/ c.cpuOn

Depth(c, be) == CASE be = "qat" -> Clamp(c.qatDepth, 1, MaxQueueDepth)
                  [] be = "iaa" -> Clamp(c.iaaDepth, 1, MaxQueueDepth)
                  [] be = "cpu" -> 1

(* Instances.                                                                *)

\* The raw instances discovery finds on the bus of device d.
DiscoverAll(d) == [i \in 1..QatDevices[d] |-> <<d, i>>]

SelectionValid(c) == c.qatSel # <<>> /\ \A s \in DOMAIN c.qatSel : c.qatSel[s] \in DOMAIN QatDevices

\* The instances opened, device by device in the order of the selection.
QatInstances(c) ==
  FlattenSeq([s \in DOMAIN c.qatSel |->
    LET found == DiscoverAll(c.qatSel[s])
    IN  SubSeq(found, 1, Least(Len(found), Clamp(c.qatPer, 1, 64)))])

\* The number of devices of each NUMA node; devices without a node do not count, and
\* nodes met after the table is full are passed over.
DiscoverIaaNodes ==
  LET nodes == Range(IaaDevices) \cap Nat
      First(n) == CHOOSE i \in DOMAIN IaaDevices :
                    IaaDevices[i] = n /\ \A j \in 1..(i - 1) : IaaDevices[j] # n
      Before(n) == {m \in nodes : First(m) < First(n)}
  IN  [n \in {k \in nodes : Cardinality(Before(k)) < MaxNumaNodes} |->
         Cardinality({i \in DOMAIN IaaDevices : IaaDevices[i] = n})]

\* No selection means "auto": every node with a device, in order.
SelectIaaNodes(c) ==
  IF c.iaaSel = <<>> THEN SetToSortSeq(DOMAIN DiscoverIaaNodes, <)
  ELSE SubSeq(c.iaaSel, 1, Least(Len(c.iaaSel), MaxNumaNodes))

NodesValid(c) ==
  /\ SelectIaaNodes(c) # <<>>
  /\ \A n \in DOMAIN SelectIaaNodes(c) :
       SelectIaaNodes(c)[n] \in DOMAIN DiscoverIaaNodes

\* One instance of every node in turn, until each node has its share.
IaaInstances(c) ==
  LET nodes == SelectIaaNodes(c)
      Want(n) == DiscoverIaaNodes[n] * Clamp(c.iaaPer, 1, MaxInstances)
      Round(i) == SelectSeq(nodes, LAMBDA n : i <= Want(n))
      rounds == CHOOSE m \in {Want(nodes[k]) : k \in DOMAIN nodes} :
                  \A k \in DOMAIN nodes : Want(nodes[k]) <= m
      all == FlattenSeq([i \in 1..rounds |-> Round(i)])
  IN  SubSeq(all, 1, Least(Len(all), MaxInstances))

\* ensure_zip_init: each enabled back end comes up and has the instances asked
\* for.  A failed allocation (up = FALSE) closes what was opened and aborts.
ZipInitOK(c, up) ==
  /\ up
  /\ c.qatOn => SelectionValid(c) /\ Len(QatInstances(c)) > 0 /\ c.qatNum <= Len(QatInstances(c))
  /\ c.iaaOn => NodesValid(c) /\ c.iaaNum <= Len(IaaInstances(c))

(* Lanes: a back-end slot and the thread that drives it.                     *)

Workers(c) == c.qatNum + c.iaaNum + c.cpuNum
WorkerBackend(c, w) == CASE w < c.qatNum -> "qat"
                         [] w >= c.qatNum /\ w < c.qatNum + c.iaaNum -> "iaa"
                         [] OTHER -> "cpu"
FirstWorker(c, be) == CASE be = "qat" -> 0
                        [] be = "iaa" -> c.qatNum
                        [] be = "cpu" -> c.qatNum + c.iaaNum

\* Slot k of worker w, numbered within its back end.
SlotOf(c, w, k) ==
  LET be == WorkerBackend(c, w)
  IN  (w - FirstWorker(c, be)) * Depth(c, be) + k

\* Slot k of every worker before slot k + 1 of any.
AllLanes(c) ==
  FlattenSeq([k \in 1..MaxQueueDepth |->
    LET ws == SelectSeq([w \in 1..Workers(c) |-> w - 1],
                        LAMBDA w : k <= Depth(c, WorkerBackend(c, w)))
    IN  [j \in DOMAIN ws |-> [be |-> WorkerBackend(c, ws[j]), slot |-> SlotOf(c, ws[j], k - 1),
                              worker |-> ws[j]]]])

PlanThreads(c) == Least(c.omp, Len(AllLanes(c)))

\* Up to one thread per worker each worker stays on one thread; extra threads
\* take the slots round-robin.
Owner(c, j) ==
  IF PlanThreads(c) <= Workers(c) THEN AllLanes(c)[j].worker % PlanThreads(c)
  ELSE (j - 1) % PlanThreads(c)

LanePlan(c) == [j \in 1..Len(AllLanes(c)) |->
                  [be |-> AllLanes(c)[j].be, slot |-> AllLanes(c)[j].slot, owner |-> Owner(c, j)]]

\* The instance a slot belongs to: submissions and polls go to it.
InstanceOf(c, be, slot) == slot \div Depth(c, be)

(* Segments.                                                                 *)

SegmentSizeFor(size, seg) ==
  IF seg = 0 \/ seg >= size THEN (IF size > 1 THEN size ELSE 1) ELSE seg
SegmentCount(size, segSize) == IF size \div segSize > 1 THEN size \div segSize ELSE 1
MakeHeader(size, c, shuffled) ==
  LET s == SegmentSizeFor(size, c.seg)
  IN  [orig |-> size, segSize |-> s, segments |-> SegmentCount(size, s),
       shuffled |-> shuffled, expOnly |-> shuffled /\ c.expOnly]

\* Mutant of SegmentLength: the remainder is dropped.
SegmentLengthEven(h, k) == h.segSize
\* Segment k = 0, 1, ... starts at k * segSize; the last takes the remainder.
SegmentLength(h, k) == IF k + 1 < h.segments THEN h.segSize ELSE h.orig - k * h.segSize
ZipLength(h, k) == IF h.expOnly THEN SegmentLength(h, k) \div 2 ELSE SegmentLength(h, k)
PayloadStart(segments) == HeaderBytes + segments * EntryBytes
SegmentBytes(h, bytes, k) ==
  SubSeq(bytes, k * h.segSize + 1, k * h.segSize + SegmentLength(h, k))

(* Byte transforms.                                                          *)

\* shuffle_copy exchanges the low bytes of the first half's words with the high
\* bytes of the second half's; done twice it restores the input.
ShuffleFrom(p, size) ==
  LET half == size \div 2
      words == 2 * (size \div 4)
      o == p - 1
  IN  IF o < words /\ o % 2 = 0 THEN p + half + 1
      ELSE IF o >= half /\ o - half < words /\ (o - half) % 2 = 1 THEN p - half - 1
      ELSE p
ShuffleCopy(s) == [p \in 1..Len(s) |-> s[ShuffleFrom(p, Len(s))]]

\* lossy_mask: truncation is applied to every element, and applied twice
\* changes nothing more.
Masked(c, s) == [i \in DOMAIN s |-> IF c.lossy THEN [s[i] EXCEPT !.cut = TRUE] ELSE s[i]]

\* A DEFLATE stream of n bytes: useful only whole, and only to a back end of
\* its family.
Family(be) == IF be = "iaa" THEN "iaa" ELSE "deflate"
Deflate(be, data, n) == [i \in 1..n |-> [fam |-> Family(be), data |-> data, at |-> i, of |-> n]]
Inflatable(be, s) ==
  /\ s # <<>>
  /\ \A i \in DOMAIN s : DOMAIN s[i] = {"fam", "data", "at", "of"}
  /\ \A i \in DOMAIN s : s[i] = [fam |-> Family(be), data |-> s[1].data, at |-> i, of |-> Len(s)]
=============================================================================
