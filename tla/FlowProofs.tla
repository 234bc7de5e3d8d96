----------------------------- MODULE FlowProofs -----------------------------
(***************************************************************************)
(* KVFlow and its scratch pool, proved for every pool size and all calls:  *)
(* a block has one owner, and keeps it while any thread or the device has  *)
(* its index; what is saved and what is loaded is the right data; a load   *)
(* that overtook its save finds it the second time.                        *)
(***************************************************************************)
EXTENDS Flow, FiniteSetTheorems, SequenceTheorems, TLAPS

Ops == {"put", "get"}

FlowType ==
  /\ free \in Seq(Blocks) /\ held \in [Tasks -> Seq(Blocks)]
  /\ made \in SUBSET Tasks /\ live \in SUBSET made
  /\ call \in Tasks \cup {None} /\ raised \in SUBSET Tasks
  /\ d2h \in Seq(Works) /\ h2d \in Seq(Works) /\ stream \in [Ops -> Seq(Works)]
  /\ copied \in SUBSET made /\ ready \in SUBSET made
  /\ hi \in SUBSET Works /\ lo \in Seq(Works) /\ omp \in Works \cup {None}
  /\ aborted \in BOOLEAN
  /\ blk \in [Blocks -> AllKeys \cup {None}]
  /\ mem \in [AllKeys -> AllKeys \cup {None}]
  /\ gpu \in [Tasks -> Seq(AllKeys \cup {None})]

NoRepeat(s) == \A i, j \in DOMAIN s : s[i] = s[j] => i = j

\* Blocks: free or held by one task, never twice; a task holds its blocks from
\* its allocation until it is waited for.
Owners ==
  /\ NoRepeat(free)
  /\ \A t \in Tasks : /\ NoRepeat(held[t])
                      /\ Len(held[t]) = IF t \in live THEN Need(t) ELSE 0
                      /\ Range(held[t]) \cap Range(free) = {}
                      /\ \A u \in Tasks \ {t} : Range(held[t]) \cap Range(held[u]) = {}
  /\ \A b \in Blocks : b \in Range(free) \/ \E t \in Tasks : b \in Range(held[t])

\* The layers a call has still to submit are not made yet.
CallFresh == call # None =>
  \A t \in Tasks : t[1] = call[1] /\ t[2] >= call[2] => t \notin made

\* The tasks with work in a queue.
At(s) == {s[i].t : i \in DOMAIN s}
Apart(s) == \A i, j \in DOMAIN s : s[i].t = s[j].t => i = j
OmpAt == IF omp = None THEN {} ELSE {omp.t}

\* Work in flight is a live task's and has the blocks that task holds.
Flight == \A w \in InFlight : w.t \in live /\ held[w.t] = w.bs

\* A task is in one place of each pipeline at most, and in none once the event
\* is reached or the future is ready.
CopyStages ==
  /\ Apart(d2h) /\ Apart(h2d) /\ Apart(stream["put"]) /\ Apart(stream["get"])
  /\ At(d2h) \cap At(stream["put"]) = {} /\ At(h2d) \cap At(stream["get"]) = {}
  /\ \A t \in At(d2h) \cup At(stream["put"]) : OpOf(t) = "put" /\ t \notin copied
  /\ \A t \in At(h2d) \cup At(stream["get"]) : OpOf(t) = "get" /\ t \notin copied /\ t \in ready
OmpStages ==
  /\ \A v, w \in hi : v.t = w.t => v = w
  /\ \A w \in hi : OpOf(w.t) = "get" /\ ~w.again /\ w.t \notin ready
                   /\ w.t \notin At(lo) /\ w.t \notin OmpAt
  /\ Apart(lo)
  /\ \A t \in At(lo) : t \notin ready /\ t \notin OmpAt
  /\ \A t \in OmpAt : t \notin ready

\* The order in which a task gets through its stages.
Order ==
  /\ \A t \in ready : OpOf(t) = "put" => t \in copied
  /\ \A t \in copied : OpOf(t) = "get" => t \in ready
  /\ \A t \in made \ live : t \in ready /\ (OpOf(t) = "get" => t \in copied)

\* Between the event and the compression of a save, and between the
\* decompression and the copy of a load, the blocks hold the task's chunks.
Loaded(t) == IF OpOf(t) = "put" THEN t \in copied \ ready ELSE t \in ready \ copied
BlocksHold == \A t \in Tasks : Loaded(t) =>
  \A i \in 1..Need(t) : blk[held[t][i]] = KeysOf(t)[i]
Delivered == \A t \in Tasks : OpOf(t) = "get" =>
  gpu[t] = IF t \in copied THEN KeysOf(t) ELSE <<>>

\* Why a second miss is impossible: a load was promised what saves made before
\* it record, and a retry queues behind every one of them that has not run.
Saved(t) == \A k \in Range(KeysOf(t)) : mem[k] # None
Promised ==
  /\ call # None /\ OpOf(call) = "get" =>
       \A t \in LayersOf(call[1]) : Range(KeysOf(t)) \subseteq Recorded
  /\ \A t \in made : OpOf(t) = "get" => Range(KeysOf(t)) \subseteq Recorded
Unsaved == \A t \in made : OpOf(t) = "put" => Saved(t) \/ t \in At(lo) \/ t \in OmpAt
Behind ==
  /\ \A i \in DOMAIN lo : lo[i].again => \A k \in Range(KeysOf(lo[i].t)) :
       \/ mem[k] # None
       \/ \E j \in 1..(i - 1) : OpOf(lo[j].t) = "put" /\ k \in Range(KeysOf(lo[j].t))
       \/ \E t \in OmpAt : OpOf(t) = "put" /\ k \in Range(KeysOf(t))
  /\ omp # None /\ omp.again => Saved(omp.t)
  /\ \A i \in DOMAIN lo : OpOf(lo[i].t) = "put" => ~lo[i].again

FlowInv ==
  /\ FlowType /\ Owners /\ CallFresh /\ Flight /\ CopyStages /\ OmpStages /\ Order
  /\ BlocksHold /\ Delivered /\ SavesRight
  /\ Promised /\ Unsaved /\ Behind /\ ~aborted /\ RaiseJustified

-----------------------------------------------------------------------------
(* Tasks and sequences.                                                    *)

LEMMA TaskFacts ==
  ASSUME NEW t \in Tasks
  PROVE  /\ t[1] \in Calls /\ t[2] \in 1..Len(Keys[t[1]]) /\ t = <<t[1], t[2]>>
         /\ Len(Keys[t[1]]) \in Nat
         /\ KeysOf(t) \in Seq(AllKeys) /\ Need(t) \in Nat \ {0}
         /\ OpOf(t) \in Ops
         /\ Range(KeysOf(t)) \subseteq AllKeys
<1>1. PICK c \in Calls : \E l \in 1..Len(Keys[c]) : t = <<c, l>>
  BY DEF Tasks
<1>2. PICK l \in 1..Len(Keys[c]) : t = <<c, l>>
  BY <1>1
<1>3. Keys[c] \in Seq(Seq(AllKeys)) /\ Len(Keys[c]) \in Nat /\ Keys[c][l] # <<>>
  BY FlowAssumption
<1>4. KeysOf(t) \in Seq(AllKeys) /\ KeysOf(t) # <<>>
  BY <1>2, <1>3 DEF KeysOf
<1>5. Need(t) \in Nat \ {0}
  BY <1>4 DEF Need
<1>6. Range(KeysOf(t)) \subseteq AllKeys
  BY <1>4 DEF Range
<1>7. OpOf(t) \in Ops
  BY <1>2, FlowAssumption DEF OpOf, Ops
<1>8. QED
  BY <1>2, <1>3, <1>4, <1>5, <1>6, <1>7

LEMMA AppendFacts ==
  ASSUME NEW s \in Seq(Works), NEW w \in Works
  PROVE  /\ Append(s, w) \in Seq(Works)
         /\ Range(Append(s, w)) = Range(s) \cup {w}
         /\ At(Append(s, w)) = At(s) \cup {w.t}
         /\ Apart(s) /\ w.t \notin At(s) => Apart(Append(s, w))
<1> DEFINE r == Append(s, w)
<1>1. /\ r \in Seq(Works) /\ Len(s) \in Nat /\ Len(r) = Len(s) + 1
      /\ DOMAIN s = 1..Len(s) /\ DOMAIN r = 1..(Len(s) + 1)
      /\ r[Len(s) + 1] = w /\ \A i \in 1..Len(s) : r[i] = s[i]
  OBVIOUS
<1> HIDE DEF r
<1>2. \A i \in DOMAIN r : (i \in DOMAIN s /\ r[i] = s[i]) \/ i = Len(s) + 1
  BY <1>1
<1>3. Range(r) = Range(s) \cup {w}
  BY <1>1, <1>2 DEF Range
<1>4. At(r) = At(s) \cup {w.t}
  BY <1>1, <1>2 DEF At
<1>5. ASSUME Apart(s), w.t \notin At(s) PROVE Apart(r)
  BY <1>1, <1>2, <1>5 DEF At, Apart
<1>6. QED
  BY <1>1, <1>3, <1>4, <1>5 DEF r

LEMMA TailFacts ==
  ASSUME NEW s \in Seq(Works), s # <<>>
  PROVE  /\ Tail(s) \in Seq(Works) /\ Head(s) \in Works
         /\ Head(s) \in Range(s) /\ Range(Tail(s)) \subseteq Range(s)
         /\ Head(s).t \in At(s) /\ At(Tail(s)) \subseteq At(s)
         /\ At(s) = At(Tail(s)) \cup {Head(s).t}
         /\ Apart(s) => Apart(Tail(s)) /\ Head(s).t \notin At(Tail(s))
<1> DEFINE r == Tail(s)
<1>1. /\ r \in Seq(Works) /\ Len(s) \in Nat \ {0} /\ Len(r) = Len(s) - 1
      /\ DOMAIN s = 1..Len(s) /\ DOMAIN r = 1..(Len(s) - 1)
      /\ Head(s) = s[1] /\ Head(s) \in Works /\ \A i \in 1..(Len(s) - 1) : r[i] = s[i + 1]
  OBVIOUS
<1> HIDE DEF r
<1>2. \A i \in DOMAIN r : i + 1 \in DOMAIN s /\ r[i] = s[i + 1] /\ i + 1 # 1
  BY <1>1
<1>3. \A i \in DOMAIN s : i # 1 => i - 1 \in DOMAIN r /\ s[i] = r[i - 1]
  <2> SUFFICES ASSUME NEW i \in DOMAIN s, i # 1 PROVE i - 1 \in DOMAIN r /\ s[i] = r[i - 1]
    OBVIOUS
  <2>1. i - 1 \in 1..(Len(s) - 1) /\ (i - 1) + 1 = i
    BY <1>1
  <2>2. r[i - 1] = s[(i - 1) + 1]
    BY <1>1, <2>1
  <2>3. QED
    BY <1>1, <2>1, <2>2
<1>4. 1 \in DOMAIN s
  BY <1>1
<1>5. Head(s) \in Range(s) /\ Range(r) \subseteq Range(s)
  BY <1>1, <1>2, <1>4 DEF Range
<1>6. At(s) = At(r) \cup {Head(s).t}
  <2>1. At(r) \subseteq At(s) /\ Head(s).t \in At(s)
    BY <1>1, <1>2, <1>4 DEF At
  <2>2. At(s) \subseteq At(r) \cup {Head(s).t}
    BY <1>1, <1>3 DEF At
  <2>3. QED
    BY <2>1, <2>2
<1>7. ASSUME Apart(s) PROVE Apart(r) /\ Head(s).t \notin At(r)
  <2>1. Apart(r)
    <3> SUFFICES ASSUME NEW i \in DOMAIN r, NEW j \in DOMAIN r, r[i].t = r[j].t PROVE i = j
      BY DEF Apart
    <3>1. i + 1 = j + 1
      BY <1>2, <1>7 DEF Apart
    <3>2. QED
      BY <1>1, <3>1
  <2>2. Head(s).t \notin At(r)
    BY <1>1, <1>2, <1>4, <1>7 DEF At, Apart
  <2>3. QED
    BY <2>1, <2>2
<1>8. QED
  BY <1>1, <1>5, <1>6, <1>7 DEF r

\* allocate() cuts the free list in two.
LEMMA SplitFacts ==
  ASSUME NEW n \in Nat, free \in Seq(Blocks), NoRepeat(free), n <= Len(free)
  PROVE  /\ Left(n) \in Seq(Blocks) /\ Taken(n) \in Seq(Blocks) /\ Len(Taken(n)) = n
         /\ NoRepeat(Left(n)) /\ NoRepeat(Taken(n))
         /\ Range(Left(n)) \cap Range(Taken(n)) = {}
         /\ Range(Left(n)) \cup Range(Taken(n)) = Range(free)
<1> DEFINE m == Len(free) - n
<1>1. m \in 0..Len(free) /\ Len(free) \in Nat /\ m + n = Len(free) /\ DOMAIN free = 1..Len(free)
  OBVIOUS
<1>2. /\ Left(n) \in Seq(Blocks) /\ DOMAIN Left(n) = 1..m
      /\ \A i \in 1..m : Left(n)[i] = free[i]
  BY <1>1 DEF Left
<1>3. /\ Taken(n) \in Seq(Blocks) /\ DOMAIN Taken(n) = 1..n /\ Len(Taken(n)) = n
      /\ \A i \in 1..n : Taken(n)[i] = free[m + i]
  BY <1>1 DEF Taken
<1> HIDE DEF m
<1>4. NoRepeat(Left(n)) /\ NoRepeat(Taken(n))
  <2>1. NoRepeat(Left(n))
    BY <1>1, <1>2 DEF NoRepeat
  <2>2. ASSUME NEW i \in 1..n, NEW j \in 1..n, Taken(n)[i] = Taken(n)[j] PROVE i = j
    <3>0. m + i \in DOMAIN free /\ m + j \in DOMAIN free /\ free[m + i] = free[m + j]
      BY <1>1, <1>3, <2>2
    <3>1. m + i = m + j
      BY <3>0 DEF NoRepeat
    <3>2. QED
      BY <1>1, <3>1
  <2>3. QED
    BY <1>3, <2>1, <2>2 DEF NoRepeat
<1>5. Range(Left(n)) \cap Range(Taken(n)) = {}
  <2> SUFFICES ASSUME NEW i \in 1..m, NEW j \in 1..n, free[i] = free[m + j] PROVE FALSE
    BY <1>2, <1>3 DEF Range
  <2>1. i = m + j
    BY <1>1 DEF NoRepeat
  <2>2. QED
    BY <1>1, <2>1
<1>6. Range(Left(n)) \cup Range(Taken(n)) = Range(free)
  <2>0. \A i \in 1..n : m + i \in DOMAIN free
    BY <1>1
  <2>1a. Range(Left(n)) \subseteq Range(free)
    BY <1>1, <1>2 DEF Range
  <2>1b. Range(Taken(n)) \subseteq Range(free)
    BY <1>3, <2>0 DEF Range
  <2>1. Range(Left(n)) \cup Range(Taken(n)) \subseteq Range(free)
    BY <2>1a, <2>1b
  <2>2. ASSUME NEW i \in 1..Len(free) PROVE free[i] \in Range(Left(n)) \cup Range(Taken(n))
    <3>1. CASE i <= m
      BY <1>1, <1>2, <3>1 DEF Range
    <3>2. CASE i > m
      <4>1. i - m \in 1..n /\ m + (i - m) = i
        BY <1>1, <3>2
      <4>2. Taken(n)[i - m] = free[i]
        BY <1>3, <4>1
      <4>3. QED
        BY <1>3, <4>1, <4>2 DEF Range
    <3>3. QED
      BY <1>1, <3>1, <3>2
  <2>3. QED
    BY <1>1, <2>1, <2>2 DEF Range
<1>7. QED
  BY <1>2, <1>3, <1>4, <1>5, <1>6

\* release() appends the blocks of a task to the free list.
LEMMA RejoinFacts ==
  ASSUME NEW s \in Seq(Blocks), NEW r \in Seq(Blocks), NoRepeat(s), NoRepeat(r),
         Range(s) \cap Range(r) = {}
  PROVE  /\ s \o r \in Seq(Blocks) /\ NoRepeat(s \o r)
         /\ Range(s \o r) = Range(s) \cup Range(r)
<1> DEFINE q == s \o r
<1>1. /\ q \in Seq(Blocks) /\ Len(s) \in Nat /\ Len(r) \in Nat
      /\ DOMAIN s = 1..Len(s) /\ DOMAIN r = 1..Len(r) /\ DOMAIN q = 1..(Len(s) + Len(r))
      /\ \A i \in 1..Len(s) : q[i] = s[i]
      /\ \A i \in 1..(Len(s) + Len(r)) : i > Len(s) => q[i] = r[i - Len(s)]
  OBVIOUS
<1> HIDE DEF q
<1>2. \A i \in DOMAIN q : \/ i \in DOMAIN s /\ q[i] = s[i]
                          \/ i - Len(s) \in DOMAIN r /\ q[i] = r[i - Len(s)]
  BY <1>1
<1>3. Range(q) \subseteq Range(s) \cup Range(r)
  BY <1>2 DEF Range
<1>4. Range(s) \subseteq Range(q)
  BY <1>1 DEF Range
<1>5. Range(r) \subseteq Range(q)
  <2> SUFFICES ASSUME NEW i \in DOMAIN r PROVE r[i] \in Range(q)
    BY DEF Range
  <2>1. i + Len(s) \in DOMAIN q /\ i + Len(s) > Len(s) /\ (i + Len(s)) - Len(s) = i
    BY <1>1
  <2>2. q[i + Len(s)] = r[i]
    BY <1>1, <2>1
  <2>3. QED
    BY <2>1, <2>2 DEF Range
<1>6. NoRepeat(q)
  <2> SUFFICES ASSUME NEW i \in DOMAIN q, NEW j \in DOMAIN q, q[i] = q[j] PROVE i = j
    BY DEF NoRepeat
  <2>1. i \in Nat /\ j \in Nat
    BY <1>1
  <2>2. CASE i \in DOMAIN s /\ j \in DOMAIN s
    BY <1>1, <2>2 DEF NoRepeat
  <2>3. CASE i \notin DOMAIN s /\ j \notin DOMAIN s
    <3>1. i - Len(s) = j - Len(s)
      BY <1>2, <2>3 DEF NoRepeat
    <3>2. QED
      BY <1>1, <2>1, <3>1
  <2>4. CASE i \in DOMAIN s /\ j \notin DOMAIN s
    BY <1>1, <1>2, <2>4 DEF Range
  <2>5. CASE i \notin DOMAIN s /\ j \in DOMAIN s
    BY <1>1, <1>2, <2>5 DEF Range
  <2>6. QED
    BY <2>2, <2>3, <2>4, <2>5
<1>7. QED
  BY <1>1, <1>3, <1>4, <1>5, <1>6 DEF q

\* The blocks of two tasks are different.
LEMMA HeldFacts ==
  ASSUME FlowType, Owners, NEW t \in live
  PROVE  /\ held[t] \in Seq(Blocks) /\ NoRepeat(held[t]) /\ Len(held[t]) = Need(t)
         /\ DOMAIN held[t] = 1..Need(t)
         /\ \A u \in live \ {t} : \A i \in 1..Need(u) : held[u][i] \in Blocks \ Range(held[t])
<1>1. t \in Tasks /\ held[t] \in Seq(Blocks) /\ NoRepeat(held[t]) /\ Len(held[t]) = Need(t)
  BY DEF FlowType, Owners
<1>2. ASSUME NEW u \in live \ {t}, NEW i \in 1..Need(u)
      PROVE  held[u][i] \in Blocks \ Range(held[t])
  <2>1. u \in Tasks /\ held[u] \in Seq(Blocks) /\ Len(held[u]) = Need(u)
        /\ Range(held[t]) \cap Range(held[u]) = {}
    BY <1>1 DEF FlowType, Owners
  <2>2. i \in DOMAIN held[u] /\ held[u][i] \in Blocks
    BY <2>1
  <2>3. QED
    BY <2>1, <2>2 DEF Range
<1>3. QED
  BY <1>1, <1>2

\* What a copy or a decompression leaves in the blocks of its task.
LEMMA WrittenFacts ==
  ASSUME FlowType, Owners, NEW t \in live, NEW val \in [1..Need(t) -> AllKeys \cup {None}]
  PROVE  /\ Written(held[t], val) \in [Blocks -> AllKeys \cup {None}]
         /\ \A i \in 1..Need(t) : Written(held[t], val)[held[t][i]] = val[i]
         /\ \A b \in Blocks \ Range(held[t]) : Written(held[t], val)[b] = blk[b]
<1> DEFINE bs == held[t]
<1>1. /\ DOMAIN bs = 1..Need(t) /\ NoRepeat(bs) /\ \A i \in 1..Need(t) : bs[i] \in Blocks
      /\ blk \in [Blocks -> AllKeys \cup {None}]
  BY HeldFacts DEF FlowType
<1> HIDE DEF bs
<1>2. \A b \in Blocks \ Range(bs) : Written(bs, val)[b] = blk[b]
  BY DEF Written, Range
<1>3. ASSUME NEW i \in 1..Need(t) PROVE Written(bs, val)[bs[i]] = val[i]
  <2> DEFINE j == CHOOSE k \in DOMAIN bs : bs[k] = bs[i]
  <2>1. j \in DOMAIN bs /\ bs[j] = bs[i]
    BY <1>1
  <2>2. j = i
    BY <1>1, <2>1 DEF NoRepeat
  <2>3. Written(bs, val)[bs[i]] = val[j]
    BY <1>1 DEF Written
  <2>4. QED
    BY <2>2, <2>3
<1>4. \A b \in Blocks : Written(bs, val)[b] \in AllKeys \cup {None}
  <2> SUFFICES ASSUME NEW b \in Blocks PROVE Written(bs, val)[b] \in AllKeys \cup {None}
    OBVIOUS
  <2>1. CASE b \in Range(bs)
    <3>1. PICK i \in 1..Need(t) : bs[i] = b
      BY <1>1, <2>1 DEF Range
    <3>2. QED
      BY <1>3, <3>1
  <2>2. CASE b \notin Range(bs)
    BY <1>1, <1>2, <2>2
  <2>3. QED
    BY <2>1, <2>2
<1>5. Written(bs, val) = [b \in Blocks |-> Written(bs, val)[b]]
  BY DEF Written
<1>6. QED
  BY <1>2, <1>3, <1>4, <1>5 DEF bs

\* Every queue holds live tasks only.
LEMMA QueuesLive ==
  ASSUME FlowType, Flight
  PROVE  /\ At(d2h) \cup At(h2d) \cup At(stream["put"]) \cup At(stream["get"]) \subseteq live
         /\ At(lo) \cup OmpAt \subseteq live /\ \A w \in hi : w.t \in live
<1>1. \A w \in Range(d2h) \cup Range(h2d) \cup Range(stream["put"]) \cup Range(stream["get"])
              \cup Range(lo) \cup hi : w.t \in live
  BY DEF Flight, InFlight
<1>2. OmpAt \subseteq live
  BY DEF OmpAt, Flight, InFlight
<1>3. QED
  BY <1>1, <1>2 DEF At, Range

LEMMA RecordedGrows ==
  ASSUME made \subseteq made' PROVE Recorded \subseteq Recorded'
  BY DEF Recorded

-----------------------------------------------------------------------------
(* The inductive invariant: the Python thread.                             *)

LEMMA FlowInit == Init => FlowInv
<1> SUFFICES ASSUME Init PROVE FlowInv
  OBVIOUS
<1> USE FlowAssumption DEF Init
<1>0. /\ free \in Seq(Blocks) /\ Len(free) = NumBlocks /\ DOMAIN free = 1..NumBlocks
      /\ \A i \in 1..NumBlocks : free[i] = i - 1
  BY DEF Blocks
<1>1. FlowType
  <2>1. <<>> \in Seq(Blocks) /\ <<>> \in Seq(Works) /\ <<>> \in Seq(AllKeys \cup {None})
    OBVIOUS
  <2>2. QED
    BY <1>0, <2>1 DEF FlowType, Ops
<1>2. Owners
  <2>1. NoRepeat(free)
    BY <1>0 DEF NoRepeat
  <2>2. \A t \in Tasks : held[t] = <<>> /\ Len(held[t]) = 0 /\ Range(held[t]) = {}
                         /\ NoRepeat(held[t])
    BY DEF Range, NoRepeat
  <2>3. \A b \in Blocks : b \in Range(free)
    <3> SUFFICES ASSUME NEW b \in Blocks PROVE b \in Range(free)
      OBVIOUS
    <3>1. b + 1 \in DOMAIN free /\ free[b + 1] = b
      BY <1>0 DEF Blocks
    <3>2. QED
      BY <3>1 DEF Range
  <2>4. QED
    BY <2>1, <2>2, <2>3 DEF Owners
<1>3. /\ Range(<<>>) = {} /\ At(<<>>) = {} /\ Apart(<<>>) /\ DOMAIN <<>> = {}
  BY DEF Range, At, Apart
<1>4. Flight
  BY <1>3 DEF Flight, InFlight
<1>5. CopyStages /\ OmpStages
  BY <1>3 DEF CopyStages, OmpStages, OmpAt
<1>6. CallFresh /\ Order /\ BlocksHold /\ Delivered /\ SavesRight /\ Unsaved /\ RaiseJustified
  BY DEF CallFresh, Order, BlocksHold, Loaded, Delivered, SavesRight, Unsaved, RaiseJustified
<1>7. Promised /\ Behind
  BY <1>3 DEF Promised, Behind
<1>8. QED
  BY <1>1, <1>2, <1>4, <1>5, <1>6, <1>7 DEF FlowInv

LEMMA BeginKeeps ==
  ASSUME FlowInv, NEW c \in Calls, Begin(c)
  PROVE  FlowInv'
<1> USE DEF FlowInv, Begin, poolVars, xferVars, ompVars, dataVars
<1>1. <<c, 1>> \in Tasks
  <2>1. 1 \in 1..Len(Keys[c])
    BY FlowAssumption
  <2>2. QED
    BY <2>1 DEF Tasks
<1>2. FlowType'
  BY <1>1 DEF FlowType
<1>3. CallFresh'
  BY DEF CallFresh, Begun, LayersOf
<1>4. Promised'
  BY DEF Promised, Recorded, OpOf, LayersOf
<1>5. Owners' /\ Flight' /\ CopyStages' /\ OmpStages' /\ Order' /\ RaiseJustified'
  BY DEF Owners, Flight, InFlight, CopyStages, OmpStages, OmpAt, Order, RaiseJustified
<1>6. BlocksHold' /\ Delivered' /\ SavesRight' /\ Unsaved' /\ Behind' /\ ~aborted'
  BY DEF BlocksHold, Loaded, Delivered, SavesRight, Unsaved, Saved, Behind, OmpAt
<1>7. QED
  BY <1>2, <1>3, <1>4, <1>5, <1>6

\* What put() and get() have in common: the blocks of a layer come from the free
\* list, and the layer was not made before.
LEMMA LayerFacts ==
  ASSUME FlowInv, NEW o \in Ops, Layer(o)
  PROVE  /\ call \in Tasks \ made /\ OpOf(call) = o
         /\ free' \in Seq(Blocks) /\ held' \in [Tasks -> Seq(Blocks)]
         /\ Taken(Need(call)) \in Seq(Blocks) /\ held'[call] = Taken(Need(call))
         /\ \A t \in Tasks \ {call} : held'[t] = held[t]
         /\ made' = made \cup {call} /\ live' = live \cup {call}
         /\ call' \in Tasks \cup {None}
         /\ call' # None => call'[1] = call[1]
         /\ Owners' /\ CallFresh' /\ Promised'
<1> USE DEF FlowInv, Layer
<1>0. call \in Tasks /\ OpOf(call) = o /\ free \in Seq(Blocks) /\ held \in [Tasks -> Seq(Blocks)]
  BY DEF FlowType
<1>1. call[1] \in Calls /\ call[2] \in 1..Len(Keys[call[1]]) /\ Need(call) \in Nat
      /\ Len(Keys[call[1]]) \in Nat
  BY <1>0, TaskFacts
<1>2. call \notin made /\ call \notin live
  BY <1>0, <1>1 DEF CallFresh, FlowType
<1>3. /\ Left(Need(call)) \in Seq(Blocks) /\ Taken(Need(call)) \in Seq(Blocks)
      /\ Len(Taken(Need(call))) = Need(call)
      /\ NoRepeat(Left(Need(call))) /\ NoRepeat(Taken(Need(call)))
      /\ Range(Left(Need(call))) \cap Range(Taken(Need(call))) = {}
      /\ Range(Left(Need(call))) \cup Range(Taken(Need(call))) = Range(free)
  BY <1>0, <1>1, SplitFacts DEF Owners
<1>4. /\ held' \in [Tasks -> Seq(Blocks)] /\ held'[call] = Taken(Need(call))
      /\ \A t \in Tasks \ {call} : held'[t] = held[t]
  BY <1>0, <1>3
<1>5. Owners'
  <2>1. held[call] = <<>> /\ Range(held[call]) = {}
    <3>1. held[call] \in Seq(Blocks) /\ Len(held[call]) = 0
      BY <1>0, <1>2 DEF Owners
    <3>2. QED
      BY <3>1 DEF Range
  <2>2. NoRepeat(free')
    BY <1>3
  <2>3. ASSUME NEW t \in Tasks
        PROVE  /\ NoRepeat(held'[t])
               /\ Len(held'[t]) = IF t \in live' THEN Need(t) ELSE 0
               /\ Range(held'[t]) \cap Range(free') = {}
               /\ \A u \in Tasks \ {t} : Range(held'[t]) \cap Range(held'[u]) = {}
    <3>1. NoRepeat(held'[t]) /\ Len(held'[t]) = IF t \in live' THEN Need(t) ELSE 0
      BY <1>3, <1>4 DEF Owners
    <3>2. Range(held'[t]) \cap Range(free') = {}
      BY <1>3, <1>4 DEF Owners
    <3>3. \A u \in Tasks : Range(held[u]) \cap Range(Taken(Need(call))) = {}
      BY <1>3 DEF Owners
    <3>4. \A u \in Tasks \ {t} : Range(held'[t]) \cap Range(held'[u]) = {}
      BY <1>4, <3>3 DEF Owners
    <3>5. QED
      BY <3>1, <3>2, <3>4
  <2>4. ASSUME NEW b \in Blocks
        PROVE  b \in Range(free') \/ \E t \in Tasks : b \in Range(held'[t])
    BY <1>0, <1>3, <1>4, <2>1 DEF Owners
  <2>5. QED
    BY <2>2, <2>3, <2>4 DEF Owners
<1>6. call' \in Tasks \cup {None} /\ (call' # None => call'[1] = call[1] /\ call'[2] = call[2] + 1)
  <2>1. ASSUME call[2] < Len(Keys[call[1]]) PROVE <<call[1], call[2] + 1>> \in Tasks
    <3>1. call[2] + 1 \in 1..Len(Keys[call[1]])
      BY <1>1, <2>1
    <3>2. QED
      BY <1>1, <3>1 DEF Tasks
  <2>2. QED
    BY <2>1
<1>7. CallFresh'
  <2> SUFFICES ASSUME call' # None, NEW t \in Tasks, t[1] = call'[1], t[2] >= call'[2]
               PROVE  t \notin made'
    BY DEF CallFresh
  <2>1. t[2] \in Nat /\ call[2] \in Nat
    BY <1>1, TaskFacts
  <2>2. t[2] >= call[2] /\ t # call /\ t[1] = call[1]
    BY <1>6, <2>1
  <2>3. QED
    BY <1>0, <2>2, FlowAssumption DEF CallFresh
<1>8. Promised'
  <2>1. Recorded \subseteq Recorded'
    BY RecordedGrows
  <2>2. call' # None => LayersOf(call'[1]) = LayersOf(call[1]) /\ OpOf(call') = OpOf(call)
    BY <1>6 DEF LayersOf, OpOf
  <2>3. call \in LayersOf(call[1])
    BY <1>0 DEF LayersOf
  <2>4. \A t \in LayersOf(call[1]) : OpOf(call) = "get" => Range(KeysOf(t)) \subseteq Recorded
    BY <1>0, FlowAssumption DEF Promised
  <2>5. ASSUME NEW t \in made', OpOf(t) = "get" PROVE Range(KeysOf(t)) \subseteq Recorded'
    <3>1. CASE t = call
      BY <2>1, <2>3, <2>4, <2>5, <3>1
    <3>2. CASE t \in made
      BY <2>1, <2>5, <3>2 DEF Promised
    <3>3. QED
      BY <2>5, <3>1, <3>2
  <2>6. ASSUME call' # None, OpOf(call') = "get", NEW t \in LayersOf(call'[1])
        PROVE  Range(KeysOf(t)) \subseteq Recorded'
    BY <2>1, <2>2, <2>4, <2>6
  <2>7. (LayersOf(call[1]))' = LayersOf(call'[1]) /\ (OpOf(call))' = OpOf(call')
    BY DEF LayersOf, OpOf
  <2>8. QED
    BY <2>5, <2>6, <2>7 DEF Promised
<1>9. QED
  BY <1>0, <1>2, <1>3, <1>4, <1>5, <1>6, <1>7, <1>8

LEMMA PutLayerKeeps ==
  ASSUME FlowInv, PutLayer
  PROVE  FlowInv'
<1> DEFINE w == Work(call, Taken(Need(call)), FALSE)
<1> USE DEF FlowInv
<1>0. /\ call \in Tasks \ made /\ OpOf(call) = "put"
      /\ free' \in Seq(Blocks) /\ held' \in [Tasks -> Seq(Blocks)]
      /\ Taken(Need(call)) \in Seq(Blocks) /\ held'[call] = Taken(Need(call))
      /\ \A t \in Tasks \ {call} : held'[t] = held[t]
      /\ made' = made \cup {call} /\ live' = live \cup {call}
      /\ call' \in Tasks \cup {None}
      /\ Owners' /\ CallFresh' /\ Promised'
  BY LayerFacts DEF PutLayer, Ops
<1>1. w \in Works /\ w.t = call /\ w.bs = Taken(Need(call)) /\ w.again = FALSE
  BY <1>0 DEF Work, Works
<1>2. /\ d2h' = Append(d2h, w) /\ lo' = Append(lo, w)
      /\ UNCHANGED <<raised, h2d, stream, copied, hi, omp, ready, aborted, blk, mem, gpu>>
  BY DEF PutLayer, dataVars
<1> HIDE DEF w
<1>3. d2h \in Seq(Works) /\ lo \in Seq(Works) /\ live \subseteq made /\ made \subseteq Tasks
      /\ copied \subseteq made /\ ready \subseteq made
  BY DEF FlowType
<1>4. /\ d2h' \in Seq(Works) /\ Range(d2h') = Range(d2h) \cup {w}
      /\ At(d2h') = At(d2h) \cup {call} /\ (call \notin At(d2h) => Apart(d2h'))
      /\ lo' \in Seq(Works) /\ Range(lo') = Range(lo) \cup {w}
      /\ At(lo') = At(lo) \cup {call} /\ (call \notin At(lo) => Apart(lo'))
  BY <1>1, <1>2, <1>3, AppendFacts DEF CopyStages, OmpStages
<1>5. /\ call \notin At(d2h) /\ call \notin At(stream["put"]) /\ call \notin At(lo)
      /\ call \notin OmpAt /\ \A v \in hi : v.t # call
  BY <1>0, <1>3, QueuesLive
<1>6. FlowType'
  BY <1>0, <1>2, <1>4 DEF FlowType
<1>7. Flight'
  <2> SUFFICES ASSUME NEW v \in InFlight' PROVE v.t \in live' /\ held'[v.t] = v.bs
    BY DEF Flight
  <2>1. v \in InFlight \/ v = w
    BY <1>2, <1>4 DEF InFlight
  <2>2. CASE v = w
    BY <1>0, <1>1, <2>2
  <2>3. CASE v \in InFlight
    BY <1>0, <1>3, <2>3 DEF Flight
  <2>4. QED
    BY <2>1, <2>2, <2>3
<1>8. CopyStages'
  BY <1>0, <1>2, <1>3, <1>4, <1>5 DEF CopyStages
<1>9. OmpStages'
  BY <1>0, <1>2, <1>3, <1>4, <1>5 DEF OmpStages, OmpAt
<1>10. Order' /\ Delivered' /\ SavesRight' /\ RaiseJustified' /\ ~aborted'
  BY <1>0, <1>2 DEF Order, Delivered, SavesRight, RaiseJustified
<1>11. BlocksHold'
  <2> SUFFICES ASSUME NEW u \in Tasks, Loaded(u)' PROVE
                 \A i \in 1..Need(u) : blk'[held'[u][i]] = KeysOf(u)[i]
    BY DEF BlocksHold
  <2>1. Loaded(u) /\ u # call
    BY <1>0, <1>2, <1>3 DEF Loaded
  <2>2. QED
    BY <1>0, <1>2, <2>1 DEF BlocksHold
<1>12. Unsaved'
  BY <1>0, <1>2, <1>4 DEF Unsaved, Saved, OmpAt
<1>13. Behind'
  <2>1. /\ Len(lo) \in Nat /\ DOMAIN lo = 1..Len(lo) /\ DOMAIN lo' = 1..(Len(lo) + 1)
        /\ lo'[Len(lo) + 1] = w /\ \A i \in 1..Len(lo) : lo'[i] = lo[i]
    BY <1>1, <1>2, <1>3
  <2>2. \A i \in DOMAIN lo' : (i \in DOMAIN lo /\ lo'[i] = lo[i]) \/ lo'[i].again = FALSE
    BY <1>1, <2>1
  <2>3. \A i \in DOMAIN lo : \A j \in 1..(i - 1) : lo'[j] = lo[j]
    BY <2>1
  <2>4. UNCHANGED <<mem, omp>>
    BY <1>2
  <2>5. QED
    BY <2>2, <2>3, <2>4 DEF Behind, Saved, OmpAt
<1>14. QED
  BY <1>0, <1>6, <1>7, <1>8, <1>9, <1>10, <1>11, <1>12, <1>13

LEMMA GetLayerKeeps ==
  ASSUME FlowInv, GetLayer
  PROVE  FlowInv'
<1> DEFINE w == Work(call, Taken(Need(call)), FALSE)
<1> USE DEF FlowInv
<1>0. /\ call \in Tasks \ made /\ OpOf(call) = "get"
      /\ free' \in Seq(Blocks) /\ held' \in [Tasks -> Seq(Blocks)]
      /\ Taken(Need(call)) \in Seq(Blocks) /\ held'[call] = Taken(Need(call))
      /\ \A t \in Tasks \ {call} : held'[t] = held[t]
      /\ made' = made \cup {call} /\ live' = live \cup {call}
      /\ call' \in Tasks \cup {None}
      /\ Owners' /\ CallFresh' /\ Promised'
  BY LayerFacts DEF GetLayer, Ops
<1>1. w \in Works /\ w.t = call /\ w.bs = Taken(Need(call)) /\ w.again = FALSE
  BY <1>0 DEF Work, Works
<1>2. /\ hi' = hi \cup {w}
      /\ UNCHANGED <<raised, d2h, h2d, stream, copied, lo, omp, ready, aborted, blk, mem, gpu>>
  BY DEF GetLayer, dataVars, xferVars
<1> HIDE DEF w
<1>3. live \subseteq made /\ made \subseteq Tasks /\ copied \subseteq made /\ ready \subseteq made
  BY DEF FlowType
<1>5. call \notin At(lo) /\ call \notin OmpAt /\ \A v \in hi : v.t # call
  BY <1>0, <1>3, QueuesLive
<1>6. FlowType'
  BY <1>0, <1>1, <1>2 DEF FlowType
<1>7. Flight'
  <2> SUFFICES ASSUME NEW v \in InFlight' PROVE v.t \in live' /\ held'[v.t] = v.bs
    BY DEF Flight
  <2>1. v \in InFlight \/ v = w
    BY <1>2 DEF InFlight
  <2>2. CASE v = w
    BY <1>0, <1>1, <2>2
  <2>3. CASE v \in InFlight
    BY <1>0, <1>3, <2>3 DEF Flight
  <2>4. QED
    BY <2>1, <2>2, <2>3
<1>8. CopyStages'
  BY <1>2 DEF CopyStages
<1>9. OmpStages'
  BY <1>0, <1>1, <1>2, <1>3, <1>5 DEF OmpStages, OmpAt
<1>10. Order' /\ Delivered' /\ SavesRight' /\ RaiseJustified' /\ ~aborted'
  BY <1>0, <1>2 DEF Order, Delivered, SavesRight, RaiseJustified
<1>11. BlocksHold'
  <2> SUFFICES ASSUME NEW u \in Tasks, Loaded(u)' PROVE
                 \A i \in 1..Need(u) : blk'[held'[u][i]] = KeysOf(u)[i]
    BY DEF BlocksHold
  <2>1. Loaded(u) /\ u # call
    BY <1>0, <1>2, <1>3 DEF Loaded
  <2>2. QED
    BY <1>0, <1>2, <2>1 DEF BlocksHold
<1>12. Unsaved'
  BY <1>0, <1>2 DEF Unsaved, Saved, OmpAt
<1>13. Behind'
  BY <1>2 DEF Behind, Saved, OmpAt
<1>14. QED
  BY <1>0, <1>6, <1>7, <1>8, <1>9, <1>10, <1>11, <1>12, <1>13

\* A complete task has no work in flight; its blocks go back to the free list.
LEMMA ReleaseKeeps ==
  ASSUME FlowInv, NEW t \in Tasks, Release(t)
  PROVE  FlowInv'
<1> USE DEF FlowInv, Release, clientVars, xferVars, ompVars, dataVars
<1>0. /\ t \in live /\ t \in ready /\ (OpOf(t) = "get" => t \in copied)
      /\ held \in [Tasks -> Seq(Blocks)] /\ free \in Seq(Blocks)
      /\ OpOf(t) \in Ops
  BY TaskFacts DEF Complete, FlowType
<1>1. /\ held' \in [Tasks -> Seq(Blocks)] /\ held'[t] = <<>>
      /\ \A u \in Tasks \ {t} : held'[u] = held[u]
  BY <1>0 DEF Forget
<1>2. /\ free' \in Seq(Blocks) /\ NoRepeat(free')
      /\ Range(free') = Range(free) \cup Range(held[t])
  BY <1>0, RejoinFacts DEF Owners
<1>3. FlowType'
  BY <1>1, <1>2 DEF FlowType
<1>4. Owners'
  <2>1. Range(held'[t]) = {} /\ NoRepeat(held'[t]) /\ Len(held'[t]) = 0
    BY <1>1 DEF Range, NoRepeat
  <2>2. ASSUME NEW u \in Tasks
        PROVE  /\ NoRepeat(held'[u]) /\ Len(held'[u]) = IF u \in live' THEN Need(u) ELSE 0
               /\ Range(held'[u]) \cap Range(free') = {}
               /\ \A v \in Tasks \ {u} : Range(held'[u]) \cap Range(held'[v]) = {}
    <3>1. CASE u = t
      BY <2>1, <3>1
    <3>2. CASE u # t
      <4>1. NoRepeat(held'[u]) /\ Len(held'[u]) = IF u \in live' THEN Need(u) ELSE 0
        BY <1>1, <3>2 DEF Owners
      <4>2. Range(held'[u]) \cap Range(free') = {}
        BY <1>1, <1>2, <3>2 DEF Owners
      <4>3. \A v \in Tasks \ {u} : Range(held'[u]) \cap Range(held'[v]) = {}
        BY <1>1, <2>1, <3>2 DEF Owners
      <4>4. QED
        BY <4>1, <4>2, <4>3
    <3>3. QED
      BY <3>1, <3>2
  <2>3. ASSUME NEW b \in Blocks
        PROVE  b \in Range(free') \/ \E u \in Tasks : b \in Range(held'[u])
    BY <1>1, <1>2 DEF Owners
  <2>4. QED
    BY <1>2, <2>2, <2>3 DEF Owners
<1>5. /\ t \notin At(d2h) \cup At(stream["put"]) \cup At(h2d) \cup At(stream["get"])
      /\ t \notin At(lo) \cup OmpAt /\ \A w \in hi : w.t # t
  BY <1>0 DEF CopyStages, OmpStages, Order, Ops
<1>6. Flight'
  <2> SUFFICES ASSUME NEW w \in InFlight PROVE w.t \in live' /\ held'[w.t] = w.bs
    BY DEF Flight, InFlight
  <2>1. w.t # t
    BY <1>5 DEF InFlight, Range, At, OmpAt
  <2>2. w.t \in live /\ held[w.t] = w.bs /\ w.t \in Tasks
    BY DEF Flight, FlowType
  <2>3. QED
    BY <1>1, <2>1, <2>2
<1>7. Order'
  BY <1>0 DEF Order
<1>8. BlocksHold'
  <2> SUFFICES ASSUME NEW u \in Tasks, Loaded(u)' PROVE
                 \A i \in 1..Need(u) : blk'[held'[u][i]] = KeysOf(u)[i]
    BY DEF BlocksHold
  <2>1. Loaded(u) /\ u # t
    BY <1>0 DEF Loaded, Ops, Order
  <2>2. QED
    BY <1>1, <2>1 DEF BlocksHold
<1>9. CallFresh' /\ CopyStages' /\ OmpStages' /\ RaiseJustified'
  BY DEF CallFresh, CopyStages, OmpStages, OmpAt, RaiseJustified
<1>10. Promised' /\ Delivered' /\ SavesRight' /\ Unsaved' /\ Behind' /\ ~aborted'
  BY DEF Promised, Recorded, Delivered, SavesRight, Unsaved, Saved, Behind, OmpAt
<1>11. QED
  BY <1>3, <1>4, <1>6, <1>7, <1>8, <1>9, <1>10

\* With no task pending every block is free: the call needs more than there are.
LEMMA RaiseKeeps ==
  ASSUME FlowInv, Raise
  PROVE  FlowInv'
<1> USE DEF FlowInv, Raise, poolVars, xferVars, ompVars, dataVars
<1>0. live = {} /\ call \in Tasks /\ Need(call) > Len(free) /\ Need(call) \in Nat
  BY TaskFacts DEF Starved, GivesUp, Pending, FlowType
<1>1. Len(free) >= NumBlocks
  <2>1. \A t \in Tasks : Range(held[t]) = {}
    <3> SUFFICES ASSUME NEW t \in Tasks PROVE Range(held[t]) = {}
      OBVIOUS
    <3>1. held[t] \in Seq(Blocks) /\ Len(held[t]) = 0
      BY <1>0 DEF FlowType, Owners
    <3>2. QED
      BY <3>1 DEF Range
  <2>2. Blocks \subseteq Range(free)
    BY <2>1 DEF Owners
  <2>3. free \in Seq(Blocks) /\ Len(free) \in Nat /\ DOMAIN free = 1..Len(free)
    BY DEF FlowType
  <2>4. SUFFICES ASSUME Len(free) < NumBlocks PROVE FALSE
    BY <2>3, FlowAssumption
  <2>5. NumBlocks \in Nat /\ NumBlocks - 1 \in Int
    BY FlowAssumption
  <2>6. IsFiniteSet(Blocks) /\ Cardinality(Blocks) = NumBlocks
    <3>1. 0..(NumBlocks - 1) = Blocks
      BY DEF Blocks
    <3>2. ~ (0 > NumBlocks - 1) /\ (NumBlocks - 1) - 0 + 1 = NumBlocks
      BY <2>3, <2>4, <2>5
    <3>3. QED
      BY <2>5, <3>1, <3>2, FS_Interval, 0 \in Int, Zenon
  <2>7. IsFiniteSet(1..Len(free)) /\ Cardinality(1..Len(free)) = Len(free)
    <3>1. CASE Len(free) = 0
      <4>1. 1..Len(free) = {}
        BY <3>1
      <4>2. QED
        BY <3>1, <4>1, FS_EmptySet
    <3>2. CASE Len(free) # 0
      <4>1. ~ (1 > Len(free)) /\ Len(free) - 1 + 1 = Len(free) /\ Len(free) \in Int
        BY <2>3, <3>2
      <4>2. QED
        BY <4>1, FS_Interval, 1 \in Int, Zenon
    <3>3. QED
      BY <3>1, <3>2
  <2>8. Cardinality(1..Len(free)) < Cardinality(Blocks)
    BY <2>4, <2>6, <2>7
  <2> DEFINE f == [b \in Blocks |-> CHOOSE i \in DOMAIN free : free[i] = b]
  <2>9. f \in [Blocks -> 1..Len(free)] /\ \A b \in Blocks : free[f[b]] = b
    BY <2>2, <2>3 DEF Range
  <2> HIDE DEF f
  <2>10. \E b, d \in Blocks : b # d /\ f[b] = f[d]
    <3> DEFINE T == 1..Len(free)
    <3>1. IsFiniteSet(T) /\ Cardinality(T) < Cardinality(Blocks) /\ f \in [Blocks -> T]
      BY <2>7, <2>8, <2>9
    <3> HIDE DEF T
    <3>2. QED
      BY <2>6, <3>1, FS_PigeonHole
  <2>11. QED
    BY <2>9, <2>10
<1>2. RaiseJustified'
  BY <1>0, <1>1, FlowAssumption DEF RaiseJustified, FlowType
<1>3. FlowType'
  BY <1>0 DEF FlowType
<1>4. Owners' /\ Flight' /\ CallFresh' /\ Promised'
  BY DEF Owners, Flight, InFlight, CallFresh, Promised, Recorded
<1>5. CopyStages' /\ OmpStages' /\ Order'
  BY DEF CopyStages, OmpStages, OmpAt, Order
<1>6. BlocksHold' /\ Delivered' /\ SavesRight' /\ Unsaved' /\ Behind' /\ ~aborted'
  BY DEF BlocksHold, Loaded, Delivered, SavesRight, Unsaved, Saved, Behind, OmpAt
<1>7. QED
  BY <1>2, <1>3, <1>4, <1>5, <1>6

-----------------------------------------------------------------------------
(* The transfer threads and the device.                                    *)

LEMMA IssueD2HKeeps ==
  ASSUME FlowInv, IssueD2H
  PROVE  FlowInv'
<1> USE DEF FlowInv
<1>0. d2h \in Seq(Works) /\ d2h # <<>> /\ stream["put"] \in Seq(Works)
      /\ stream \in [Ops -> Seq(Works)]
  BY DEF FlowType, IssueD2H, Ops
<1>1. /\ d2h' = Tail(d2h) /\ stream'["put"] = Append(stream["put"], Head(d2h))
      /\ stream'["get"] = stream["get"] /\ stream' \in [Ops -> Seq(Works)]
      /\ UNCHANGED <<free, held, live, made, call, raised, h2d, copied>>
      /\ UNCHANGED <<hi, lo, omp, ready, aborted, blk, mem, gpu>>
  BY <1>0, TailFacts, AppendFacts
     DEF IssueD2H, Ops, poolVars, clientVars, ompVars, dataVars
<1>2. /\ Tail(d2h) \in Seq(Works) /\ Head(d2h) \in Works
      /\ Head(d2h) \in Range(d2h) /\ Range(Tail(d2h)) \subseteq Range(d2h)
      /\ At(d2h) = At(Tail(d2h)) \cup {Head(d2h).t}
      /\ Apart(Tail(d2h)) /\ Head(d2h).t \notin At(Tail(d2h))
  BY <1>0, TailFacts DEF CopyStages
<1>3. /\ Range(stream'["put"]) = Range(stream["put"]) \cup {Head(d2h)}
      /\ At(stream'["put"]) = At(stream["put"]) \cup {Head(d2h).t}
      /\ Head(d2h).t \notin At(stream["put"]) => Apart(stream'["put"])
  BY <1>0, <1>1, <1>2, AppendFacts DEF CopyStages
<1>4. FlowType'
  BY <1>1, <1>2 DEF FlowType
<1>5. InFlight' \subseteq InFlight
  BY <1>1, <1>2, <1>3 DEF InFlight
<1>6. Flight'
  BY <1>1, <1>5 DEF Flight
<1>7. CopyStages'
  BY <1>1, <1>2, <1>3 DEF CopyStages
<1>8. Owners' /\ CallFresh' /\ OmpStages' /\ Order' /\ RaiseJustified'
  BY <1>1 DEF Owners, CallFresh, OmpStages, OmpAt, Order, RaiseJustified
<1>9. BlocksHold' /\ Delivered' /\ SavesRight' /\ ~aborted'
  BY <1>1 DEF BlocksHold, Loaded, Delivered, SavesRight
<1>10. Promised' /\ Unsaved' /\ Behind'
  BY <1>1 DEF Promised, Recorded, Unsaved, Saved, Behind, OmpAt
<1>11. QED
  BY <1>4, <1>6, <1>7, <1>8, <1>9, <1>10

LEMMA IssueH2DKeeps ==
  ASSUME FlowInv, IssueH2D
  PROVE  FlowInv'
<1> USE DEF FlowInv
<1>0. h2d \in Seq(Works) /\ h2d # <<>> /\ stream["get"] \in Seq(Works)
      /\ stream \in [Ops -> Seq(Works)]
  BY DEF FlowType, IssueH2D, Ops
<1>1. /\ h2d' = Tail(h2d) /\ stream'["get"] = Append(stream["get"], Head(h2d))
      /\ stream'["put"] = stream["put"] /\ stream' \in [Ops -> Seq(Works)]
      /\ UNCHANGED <<free, held, live, made, call, raised, d2h, copied>>
      /\ UNCHANGED <<hi, lo, omp, ready, aborted, blk, mem, gpu>>
  BY <1>0, TailFacts, AppendFacts
     DEF IssueH2D, Ops, poolVars, clientVars, ompVars, dataVars
<1>2. /\ Tail(h2d) \in Seq(Works) /\ Head(h2d) \in Works
      /\ Head(h2d) \in Range(h2d) /\ Range(Tail(h2d)) \subseteq Range(h2d)
      /\ At(h2d) = At(Tail(h2d)) \cup {Head(h2d).t}
      /\ Apart(Tail(h2d)) /\ Head(h2d).t \notin At(Tail(h2d))
  BY <1>0, TailFacts DEF CopyStages
<1>3. /\ Range(stream'["get"]) = Range(stream["get"]) \cup {Head(h2d)}
      /\ At(stream'["get"]) = At(stream["get"]) \cup {Head(h2d).t}
      /\ Head(h2d).t \notin At(stream["get"]) => Apart(stream'["get"])
  BY <1>0, <1>1, <1>2, AppendFacts DEF CopyStages
<1>4. FlowType'
  BY <1>1, <1>2 DEF FlowType
<1>5. InFlight' \subseteq InFlight
  BY <1>1, <1>2, <1>3 DEF InFlight
<1>6. Flight'
  BY <1>1, <1>5 DEF Flight
<1>7. CopyStages'
  BY <1>1, <1>2, <1>3 DEF CopyStages
<1>8. Owners' /\ CallFresh' /\ OmpStages' /\ Order' /\ RaiseJustified'
  BY <1>1 DEF Owners, CallFresh, OmpStages, OmpAt, Order, RaiseJustified
<1>9. BlocksHold' /\ Delivered' /\ SavesRight' /\ ~aborted'
  BY <1>1 DEF BlocksHold, Loaded, Delivered, SavesRight
<1>10. Promised' /\ Unsaved' /\ Behind'
  BY <1>1 DEF Promised, Recorded, Unsaved, Saved, Behind, OmpAt
<1>11. QED
  BY <1>4, <1>6, <1>7, <1>8, <1>9, <1>10

\* A copy to the host: the task's blocks, and no other task's, get its chunks.
LEMMA DevicePutKeeps ==
  ASSUME FlowInv, DeviceCopy("put")
  PROVE  FlowInv'
<1> DEFINE w == Head(stream["put"])
<1> USE DEF FlowInv
<1>0. stream["put"] \in Seq(Works) /\ stream["put"] # <<>> /\ stream \in [Ops -> Seq(Works)]
  BY DEF FlowType, DeviceCopy, Ops
<1>1. /\ stream'["put"] = Tail(stream["put"]) /\ stream'["get"] = stream["get"]
      /\ stream' \in [Ops -> Seq(Works)]
      /\ blk' = Written(w.bs, KeysOf(w.t)) /\ copied' = copied \cup {w.t}
      /\ UNCHANGED <<free, held, live, made, call, raised, d2h, h2d>>
      /\ UNCHANGED <<hi, lo, omp, ready, aborted, mem, gpu>>
  BY <1>0, TailFacts DEF DeviceCopy, Ops, poolVars, clientVars, ompVars
<1>2. /\ w \in Works /\ w \in Range(stream["put"]) /\ w.t \in At(stream["put"])
      /\ Range(stream'["put"]) \subseteq Range(stream["put"])
      /\ At(stream'["put"]) \subseteq At(stream["put"])
      /\ Apart(stream'["put"]) /\ w.t \notin At(stream'["put"])
  BY <1>0, <1>1, TailFacts DEF CopyStages
<1> HIDE DEF w
<1>3. /\ w.t \in live /\ held[w.t] = w.bs /\ OpOf(w.t) = "put" /\ w.t \notin copied
      /\ w.t \notin ready /\ w.t \in Tasks /\ w.t \in made
  BY <1>2 DEF Flight, InFlight, CopyStages, Order, FlowType
<1>4. /\ w.bs \in Seq(Blocks) /\ NoRepeat(w.bs) /\ Len(w.bs) = Need(w.t)
      /\ \A u \in live \ {w.t} : \A i \in 1..Need(u) : held[u][i] \in Blocks \ Range(w.bs)
  BY <1>3, HeldFacts
<1>5. KeysOf(w.t) \in [1..Len(w.bs) -> AllKeys \cup {None}] /\ DOMAIN w.bs = 1..Need(w.t)
  BY <1>3, <1>4, TaskFacts DEF Need
<1>6. /\ blk' \in [Blocks -> AllKeys \cup {None}]
      /\ \A i \in 1..Need(w.t) : blk'[held[w.t][i]] = KeysOf(w.t)[i]
      /\ \A b \in Blocks \ Range(w.bs) : blk'[b] = blk[b]
  <2>1. KeysOf(w.t) \in [1..Need(w.t) -> AllKeys \cup {None}]
    BY <1>4, <1>5
  <2>2. blk' = Written(held[w.t], KeysOf(w.t))
    BY <1>1, <1>3
  <2>3. QED
    BY <1>3, <2>1, <2>2, WrittenFacts
<1>7. FlowType'
  BY <1>1, <1>3, <1>6 DEF FlowType
<1>8. InFlight' \subseteq InFlight
  BY <1>1, <1>2 DEF InFlight
<1>9. Flight'
  BY <1>1, <1>8 DEF Flight
<1>10. CopyStages'
  BY <1>1, <1>2, <1>3 DEF CopyStages
<1>11. Order'
  BY <1>1, <1>3 DEF Order
<1>12. BlocksHold'
  <2> SUFFICES ASSUME NEW u \in Tasks, Loaded(u)', NEW i \in 1..Need(u)
               PROVE  blk'[held'[u][i]] = KeysOf(u)[i]
    BY DEF BlocksHold
  <2>1. CASE u = w.t
    BY <1>1, <1>6, <2>1
  <2>2. CASE u # w.t
    <3>1. Loaded(u)
      BY <1>1, <2>2 DEF Loaded
    <3>2. u \in live
      BY <3>1, TaskFacts DEF Loaded, Order, FlowType, Ops
    <3>3. blk'[held[u][i]] = blk[held[u][i]]
      BY <1>4, <1>6, <2>2, <3>2
    <3>4. QED
      BY <1>1, <3>1, <3>3 DEF BlocksHold
  <2>3. QED
    BY <2>1, <2>2
<1>13. Delivered'
  BY <1>1, <1>3 DEF Delivered
<1>14. Owners' /\ CallFresh' /\ OmpStages' /\ RaiseJustified' /\ SavesRight' /\ ~aborted'
  BY <1>1 DEF Owners, CallFresh, OmpStages, OmpAt, RaiseJustified, SavesRight
<1>15. Promised' /\ Unsaved' /\ Behind'
  BY <1>1 DEF Promised, Recorded, Unsaved, Saved, Behind, OmpAt
<1>16. QED
  BY <1>7, <1>9, <1>10, <1>11, <1>12, <1>13, <1>14, <1>15

\* A copy to the device: it delivers what the blocks hold.
LEMMA DeviceGetKeeps ==
  ASSUME FlowInv, DeviceCopy("get")
  PROVE  FlowInv'
<1> DEFINE w == Head(stream["get"])
<1> USE DEF FlowInv
<1>0. stream["get"] \in Seq(Works) /\ stream["get"] # <<>> /\ stream \in [Ops -> Seq(Works)]
  BY DEF FlowType, DeviceCopy, Ops
<1>1. /\ stream'["get"] = Tail(stream["get"]) /\ stream'["put"] = stream["put"]
      /\ stream' \in [Ops -> Seq(Works)]
      /\ gpu' = [gpu EXCEPT ![w.t] = Content(w.bs)] /\ copied' = copied \cup {w.t}
      /\ UNCHANGED <<free, held, live, made, call, raised, d2h, h2d>>
      /\ UNCHANGED <<hi, lo, omp, ready, aborted, mem, blk>>
  BY <1>0, TailFacts DEF DeviceCopy, Ops, poolVars, clientVars, ompVars
<1>2. /\ w \in Works /\ w \in Range(stream["get"]) /\ w.t \in At(stream["get"])
      /\ Range(stream'["get"]) \subseteq Range(stream["get"])
      /\ At(stream'["get"]) \subseteq At(stream["get"])
      /\ Apart(stream'["get"]) /\ w.t \notin At(stream'["get"])
  BY <1>0, <1>1, TailFacts DEF CopyStages
<1> HIDE DEF w
<1>3. /\ w.t \in live /\ held[w.t] = w.bs /\ OpOf(w.t) = "get" /\ w.t \notin copied
      /\ w.t \in ready /\ w.t \in Tasks /\ w.t \in made
  BY <1>2 DEF Flight, InFlight, CopyStages, FlowType
<1>4. DOMAIN w.bs = 1..Need(w.t) /\ DOMAIN KeysOf(w.t) = 1..Need(w.t)
      /\ KeysOf(w.t) \in Seq(AllKeys)
  BY <1>3, HeldFacts, TaskFacts DEF Need
<1>5. Content(w.bs) = KeysOf(w.t)
  <2>1. \A i \in 1..Need(w.t) : blk[w.bs[i]] = KeysOf(w.t)[i]
    BY <1>3 DEF BlocksHold, Loaded
  <2>2. KeysOf(w.t) \in [1..Need(w.t) -> AllKeys]
    BY <1>4 DEF Need
  <2>3. Content(w.bs) = [i \in 1..Need(w.t) |-> blk[w.bs[i]]]
    BY <1>4 DEF Content
  <2>4. QED
    BY <2>1, <2>2, <2>3
<1>6. /\ gpu'[w.t] = KeysOf(w.t) /\ \A u \in Tasks \ {w.t} : gpu'[u] = gpu[u]
      /\ gpu' \in [Tasks -> Seq(AllKeys \cup {None})]
  BY <1>1, <1>3, <1>4, <1>5 DEF FlowType
<1>7. FlowType'
  BY <1>1, <1>3, <1>6 DEF FlowType
<1>8. InFlight' \subseteq InFlight
  BY <1>1, <1>2 DEF InFlight
<1>9. Flight'
  BY <1>1, <1>8 DEF Flight
<1>10. CopyStages'
  BY <1>1, <1>2, <1>3 DEF CopyStages
<1>11. Order'
  BY <1>1, <1>3 DEF Order
<1>12. BlocksHold'
  <2> SUFFICES ASSUME NEW u \in Tasks, Loaded(u)', NEW i \in 1..Need(u)
               PROVE  blk'[held'[u][i]] = KeysOf(u)[i]
    BY DEF BlocksHold
  <2>1. Loaded(u)
    BY <1>1, <1>3 DEF Loaded
  <2>2. QED
    BY <1>1, <2>1 DEF BlocksHold
<1>13. Delivered'
  BY <1>1, <1>3, <1>6 DEF Delivered
<1>14. Owners' /\ CallFresh' /\ OmpStages' /\ RaiseJustified' /\ SavesRight' /\ ~aborted'
  BY <1>1 DEF Owners, CallFresh, OmpStages, OmpAt, RaiseJustified, SavesRight
<1>15. Promised' /\ Unsaved' /\ Behind'
  BY <1>1 DEF Promised, Recorded, Unsaved, Saved, Behind, OmpAt
<1>16. QED
  BY <1>7, <1>9, <1>10, <1>11, <1>12, <1>13, <1>14, <1>15

-----------------------------------------------------------------------------
(* OMP-Main.                                                               *)

LEMMA PopHighKeeps ==
  ASSUME FlowInv, PopHigh
  PROVE  FlowInv'
<1> USE DEF FlowInv
<1>0. PICK w \in hi : hi' = hi \ {w} /\ omp' = w
  BY DEF PopHigh
<1>1. /\ omp = None
      /\ UNCHANGED <<free, held, live, made, call, raised, d2h, h2d, stream, copied>>
      /\ UNCHANGED <<lo, ready, aborted, blk, mem, gpu>>
  BY DEF PopHigh, poolVars, clientVars, xferVars, dataVars
<1>2. w \in Works /\ w # None /\ ~w.again /\ OpOf(w.t) = "get" /\ OmpAt = {} /\ OmpAt' = {w.t}
  BY <1>0, <1>1, FlowAssumption DEF FlowType, OmpStages, OmpAt
<1>3. FlowType'
  BY <1>0, <1>1, <1>2 DEF FlowType
<1>4. InFlight' \subseteq InFlight
  BY <1>0, <1>1 DEF InFlight
<1>5. Flight'
  BY <1>1, <1>4 DEF Flight
<1>6. OmpStages'
  BY <1>0, <1>1, <1>2 DEF OmpStages
<1>7. Unsaved'
  BY <1>1, <1>2 DEF Unsaved, Saved
<1>8. Behind'
  BY <1>0, <1>1, <1>2 DEF Behind, Saved
<1>9. Owners' /\ CallFresh' /\ CopyStages' /\ Order' /\ RaiseJustified' /\ Promised'
  BY <1>1 DEF Owners, CallFresh, CopyStages, Order, RaiseJustified, Promised, Recorded
<1>10. BlocksHold' /\ Delivered' /\ SavesRight' /\ ~aborted'
  BY <1>1 DEF BlocksHold, Loaded, Delivered, SavesRight
<1>11. QED
  BY <1>3, <1>5, <1>6, <1>7, <1>8, <1>9, <1>10

\* The saves ahead of a retry are popped before it.
LEMMA PopLowKeeps ==
  ASSUME FlowInv, PopLow
  PROVE  FlowInv'
<1> DEFINE w == Head(lo)
<1> USE DEF FlowInv
<1>0. /\ omp = None /\ hi = {} /\ lo # <<>> /\ lo' = Tail(lo) /\ omp' = w
      /\ UNCHANGED <<free, held, live, made, call, raised, d2h, h2d, stream, copied>>
      /\ UNCHANGED <<hi, ready, aborted, blk, mem, gpu>>
  BY DEF PopLow, poolVars, clientVars, xferVars, dataVars
<1>1. lo \in Seq(Works)
  BY DEF FlowType
<1>2. /\ lo' \in Seq(Works) /\ w \in Works /\ w \in Range(lo) /\ Range(lo') \subseteq Range(lo)
      /\ At(lo) = At(lo') \cup {w.t} /\ Apart(lo') /\ w.t \notin At(lo')
  BY <1>0, <1>1, TailFacts DEF OmpStages
<1>3. /\ Len(lo) \in Nat \ {0} /\ DOMAIN lo = 1..Len(lo) /\ w = lo[1]
      /\ DOMAIN lo' = 1..(Len(lo) - 1) /\ \A i \in 1..(Len(lo) - 1) : lo'[i] = lo[i + 1]
  BY <1>0, <1>1
<1> HIDE DEF w
<1>4. w # None /\ OmpAt = {} /\ OmpAt' = {w.t}
  BY <1>0, <1>2, FlowAssumption DEF OmpAt
<1>5. FlowType'
  BY <1>0, <1>2 DEF FlowType
<1>6. InFlight' \subseteq InFlight
  BY <1>0, <1>2 DEF InFlight
<1>7. Flight'
  BY <1>0, <1>6 DEF Flight
<1>8. OmpStages'
  BY <1>0, <1>2, <1>4 DEF OmpStages
<1>9. Unsaved'
  BY <1>0, <1>2, <1>4 DEF Unsaved, Saved
<1>10. Behind'
  <2>1. ASSUME w.again PROVE Saved(w.t)
    <3>1. 1 \in DOMAIN lo /\ lo[1].again /\ 1..(1 - 1) = {}
      BY <1>3, <2>1
    <3>2. QED
      BY <1>3, <1>4, <3>1 DEF Behind, Saved
  <2>2. ASSUME NEW i \in DOMAIN lo', lo'[i].again, NEW k \in Range(KeysOf(lo'[i].t))
        PROVE  \/ mem[k] # None
               \/ \E j \in 1..(i - 1) : OpOf(lo'[j].t) = "put" /\ k \in Range(KeysOf(lo'[j].t))
               \/ OpOf(w.t) = "put" /\ k \in Range(KeysOf(w.t))
    <3>1. i \in Nat /\ i + 1 \in DOMAIN lo /\ lo'[i] = lo[i + 1]
      BY <1>3
    <3>2. CASE mem[k] # None
      BY <3>2
    <3>3. CASE mem[k] = None
      <4>1. PICK j \in 1..((i + 1) - 1) : OpOf(lo[j].t) = "put" /\ k \in Range(KeysOf(lo[j].t))
        BY <1>4, <2>2, <3>1, <3>3 DEF Behind
      <4>2. CASE j = 1
        BY <1>3, <4>1, <4>2
      <4>3. CASE j # 1
        <5>1. j - 1 \in 1..(i - 1) /\ j - 1 \in 1..(Len(lo) - 1) /\ (j - 1) + 1 = j
          BY <1>3, <3>1, <4>3
        <5>2. lo'[j - 1] = lo[j]
          BY <1>3, <5>1
        <5>3. QED
          BY <4>1, <5>1, <5>2
      <4>4. QED
        BY <4>2, <4>3
    <3>4. QED
      BY <3>2, <3>3
  <2>3. \A i \in DOMAIN lo' : OpOf(lo'[i].t) = "put" => ~lo'[i].again
    <3> SUFFICES ASSUME NEW i \in DOMAIN lo' PROVE OpOf(lo'[i].t) = "put" => ~lo'[i].again
      OBVIOUS
    <3>1. i + 1 \in DOMAIN lo /\ lo'[i] = lo[i + 1]
      BY <1>3
    <3>2. QED
      BY <3>1 DEF Behind
  <2>4. omp' # None /\ omp'.again => \A k \in Range(KeysOf(omp'.t)) : mem'[k] # None
    BY <1>0, <2>1 DEF Saved
  <2>5. QED
    BY <1>0, <1>4, <2>2, <2>3, <2>4 DEF Behind, Saved
<1>11. Owners' /\ CallFresh' /\ CopyStages' /\ Order' /\ RaiseJustified' /\ Promised'
  BY <1>0 DEF Owners, CallFresh, CopyStages, Order, RaiseJustified, Promised, Recorded
<1>12. BlocksHold' /\ Delivered' /\ SavesRight' /\ ~aborted'
  BY <1>0 DEF BlocksHold, Loaded, Delivered, SavesRight
<1>13. QED
  BY <1>5, <1>7, <1>8, <1>9, <1>10, <1>11, <1>12

\* Mem::put stores under each key what its block holds: that key's data.
LEMMA ZipToMemKeeps ==
  ASSUME FlowInv, ZipToMem
  PROVE  FlowInv'
<1> USE DEF FlowInv
<1>0. /\ omp # None /\ OpOf(omp.t) = "put" /\ omp.t \in copied
      /\ ready' = ready \cup {omp.t} /\ omp' = None
      /\ UNCHANGED <<free, held, live, made, call, raised, d2h, h2d, stream, copied>>
      /\ UNCHANGED <<hi, lo, aborted, blk, gpu>>
  BY DEF ZipToMem, XferDone, poolVars, clientVars, xferVars
<1>1. /\ omp \in Works /\ omp.t \in OmpAt /\ omp.t \notin ready /\ OmpAt' = {}
      /\ omp.t \in live /\ held[omp.t] = omp.bs /\ omp.t \in made /\ omp.t \in Tasks
  BY <1>0 DEF FlowType, OmpAt, OmpStages, Flight, InFlight
<1>2. /\ DOMAIN omp.bs = 1..Need(omp.t) /\ DOMAIN KeysOf(omp.t) = 1..Need(omp.t)
      /\ KeysOf(omp.t) \in Seq(AllKeys) /\ Range(KeysOf(omp.t)) \subseteq AllKeys
  BY <1>1, HeldFacts, TaskFacts DEF Need
<1>3. \A i \in 1..Need(omp.t) : Content(omp.bs)[i] = KeysOf(omp.t)[i]
  BY <1>0, <1>1, <1>2 DEF BlocksHold, Loaded, Content
<1>4. /\ \A k \in AllKeys : mem'[k] = IF k \in Range(KeysOf(omp.t)) THEN k ELSE mem[k]
      /\ mem' \in [AllKeys -> AllKeys \cup {None}]
  <2>1. ASSUME NEW k \in AllKeys
        PROVE  mem'[k] = IF k \in Range(KeysOf(omp.t)) THEN k ELSE mem[k]
    <3>1. CASE k \in Range(KeysOf(omp.t))
      <4> DEFINE j == CHOOSE i \in 1..Need(omp.t) : KeysOf(omp.t)[i] = k
      <4>1. \E i \in 1..Need(omp.t) : KeysOf(omp.t)[i] = k
        BY <1>2, <3>1 DEF Range
      <4>2. j \in 1..Need(omp.t) /\ KeysOf(omp.t)[j] = k
        BY <4>1
      <4>3. mem'[k] = Content(omp.bs)[j]
        BY <4>1 DEF ZipToMem
      <4>4. QED
        BY <1>3, <3>1, <4>2, <4>3
    <3>2. CASE k \notin Range(KeysOf(omp.t))
      <4>1. ~ \E i \in 1..Need(omp.t) : KeysOf(omp.t)[i] = k
        BY <1>2, <3>2 DEF Range
      <4>2. QED
        BY <3>2, <4>1 DEF ZipToMem
    <3>3. QED
      BY <3>1, <3>2
  <2>2. mem' = [k \in AllKeys |-> mem'[k]]
    BY DEF ZipToMem
  <2>3. QED
    BY <2>1, <2>2 DEF FlowType
<1>5. /\ \A k \in AllKeys : mem[k] # None => mem'[k] # None
      /\ \A k \in Range(KeysOf(omp.t)) : mem'[k] # None
  BY <1>2, <1>4, FlowAssumption
<1>6. FlowType'
  BY <1>0, <1>1, <1>4 DEF FlowType
<1>7. InFlight' \subseteq InFlight
  BY <1>0 DEF InFlight
<1>8. Flight'
  BY <1>0, <1>7 DEF Flight
<1>9. CopyStages'
  BY <1>0, <1>1 DEF CopyStages
<1>10. OmpStages'
  BY <1>0, <1>1 DEF OmpStages
<1>11. Order'
  BY <1>0, <1>1 DEF Order
<1>12. BlocksHold'
  <2> SUFFICES ASSUME NEW u \in Tasks, Loaded(u)', NEW i \in 1..Need(u)
               PROVE  blk'[held'[u][i]] = KeysOf(u)[i]
    BY DEF BlocksHold
  <2>1. Loaded(u)
    BY <1>0, <1>1 DEF Loaded
  <2>2. QED
    BY <1>0, <2>1 DEF BlocksHold
<1>13. SavesRight'
  BY <1>4 DEF SavesRight
<1>14. Unsaved'
  <2> SUFFICES ASSUME NEW t \in made, OpOf(t) = "put", t \notin At(lo)
               PROVE  \A k \in Range(KeysOf(t)) : mem'[k] # None
    BY <1>0 DEF Unsaved, Saved
  <2>1. CASE t = omp.t
    BY <1>5, <2>1
  <2>2. CASE t # omp.t
    <3>1. Saved(t) /\ t \in Tasks
      BY <1>0, <2>2 DEF Unsaved, OmpAt, FlowType
    <3>2. QED
      BY <1>5, <3>1, TaskFacts DEF Saved
  <2>3. QED
    BY <2>1, <2>2
<1>15. Behind'
  <2>1. ASSUME NEW i \in DOMAIN lo, lo[i].again, NEW k \in Range(KeysOf(lo[i].t))
        PROVE  \/ mem'[k] # None
               \/ \E j \in 1..(i - 1) : OpOf(lo[j].t) = "put" /\ k \in Range(KeysOf(lo[j].t))
    <3>0. lo[i] \in Works
      BY <2>1 DEF FlowType
    <3>1. lo[i].t \in Tasks
      BY <3>0 DEF Works
    <3>2. k \in AllKeys
      BY <2>1, <3>1, TaskFacts
    <3>3. QED
      BY <1>0, <1>5, <2>1, <3>2 DEF Behind, OmpAt
  <2>2. QED
    BY <1>0, <1>1, <2>1 DEF Behind
<1>16. Owners' /\ CallFresh' /\ RaiseJustified' /\ Promised' /\ Delivered' /\ ~aborted'
  BY <1>0 DEF Owners, CallFresh, RaiseJustified, Promised, Recorded, Delivered
<1>17. QED
  BY <1>6, <1>8, <1>9, <1>10, <1>11, <1>12, <1>13, <1>14, <1>15, <1>16

\* The blocks of the load get what Mem holds for its keys.
LEMMA UnzipFromMemKeeps ==
  ASSUME FlowInv, UnzipFromMem
  PROVE  FlowInv'
<1> DEFINE val == [i \in 1..Need(omp.t) |-> mem[KeysOf(omp.t)[i]]]
<1> USE DEF FlowInv
<1>0. /\ omp # None /\ OpOf(omp.t) = "get" /\ Found(omp) /\ h2d' = Append(h2d, omp)
      /\ ready' = ready \cup {omp.t} /\ omp' = None
      /\ blk' = Written(omp.bs, val)
      /\ UNCHANGED <<free, held, live, made, call, raised, d2h, stream, copied>>
      /\ UNCHANGED <<hi, lo, aborted, mem, gpu>>
  BY DEF UnzipFromMem, poolVars, clientVars
<1>1. /\ omp \in Works /\ omp.t \in OmpAt /\ omp.t \notin ready /\ OmpAt' = {}
      /\ omp.t \in live /\ held[omp.t] = omp.bs /\ omp.t \in made /\ omp.t \in Tasks
      /\ omp \in InFlight
  BY <1>0 DEF FlowType, OmpAt, OmpStages, Flight, InFlight
<1>2. /\ KeysOf(omp.t) \in Seq(AllKeys) /\ DOMAIN KeysOf(omp.t) = 1..Need(omp.t)
  BY <1>1, TaskFacts DEF Need
<1>3. \A i \in 1..Need(omp.t) : KeysOf(omp.t)[i] \in AllKeys
                                /\ mem[KeysOf(omp.t)[i]] = KeysOf(omp.t)[i]
  <2> SUFFICES ASSUME NEW i \in 1..Need(omp.t)
               PROVE  KeysOf(omp.t)[i] \in AllKeys /\ mem[KeysOf(omp.t)[i]] = KeysOf(omp.t)[i]
    OBVIOUS
  <2>1. KeysOf(omp.t)[i] \in AllKeys
    <3>1. KeysOf(omp.t)[i] \in Range(KeysOf(omp.t))
      BY <1>2 DEF Range
    <3>2. QED
      BY <1>1, <3>1, TaskFacts
  <2>2. mem[KeysOf(omp.t)[i]] # None
    BY <1>0 DEF Found
  <2>3. QED
    BY <2>1, <2>2 DEF SavesRight
<1>4. val \in [1..Need(omp.t) -> AllKeys \cup {None}]
      /\ \A i \in 1..Need(omp.t) : val[i] = KeysOf(omp.t)[i]
  BY <1>2, <1>3
<1> HIDE DEF val
<1>5. /\ blk' \in [Blocks -> AllKeys \cup {None}]
      /\ \A i \in 1..Need(omp.t) : blk'[held[omp.t][i]] = KeysOf(omp.t)[i]
      /\ \A b \in Blocks \ Range(held[omp.t]) : blk'[b] = blk[b]
  <2>1. blk' = Written(held[omp.t], val)
    BY <1>0, <1>1
  <2>2. /\ Written(held[omp.t], val) \in [Blocks -> AllKeys \cup {None}]
        /\ \A i \in 1..Need(omp.t) : Written(held[omp.t], val)[held[omp.t][i]] = val[i]
        /\ \A b \in Blocks \ Range(held[omp.t]) : Written(held[omp.t], val)[b] = blk[b]
    BY <1>1, <1>4, WrittenFacts
  <2>3. QED
    BY <1>4, <2>1, <2>2
<1>6. omp.t \notin At(h2d) /\ omp.t \notin At(stream["get"]) /\ omp.t \notin copied
  BY <1>0, <1>1 DEF CopyStages, Order
<1>7. /\ h2d' \in Seq(Works) /\ Range(h2d') = Range(h2d) \cup {omp}
      /\ At(h2d') = At(h2d) \cup {omp.t} /\ Apart(h2d')
  BY <1>0, <1>1, <1>6, AppendFacts DEF FlowType, CopyStages
<1>8. FlowType'
  BY <1>0, <1>1, <1>5, <1>7 DEF FlowType
<1>9. InFlight' \subseteq InFlight
  BY <1>0, <1>1, <1>7 DEF InFlight
<1>10. Flight'
  BY <1>0, <1>9 DEF Flight
<1>11. CopyStages'
  BY <1>0, <1>6, <1>7 DEF CopyStages
<1>12. OmpStages'
  BY <1>0, <1>1 DEF OmpStages
<1>13. Order'
  BY <1>0, <1>1 DEF Order
<1>14. BlocksHold'
  <2> SUFFICES ASSUME NEW u \in Tasks, Loaded(u)', NEW i \in 1..Need(u)
               PROVE  blk'[held'[u][i]] = KeysOf(u)[i]
    BY DEF BlocksHold
  <2>1. CASE u = omp.t
    BY <1>0, <1>5, <2>1
  <2>2. CASE u # omp.t
    <3>1. Loaded(u)
      BY <1>0, <2>2 DEF Loaded
    <3>2. u \in live
      BY <3>1, TaskFacts DEF Loaded, Order, FlowType, Ops
    <3>3. held[u][i] \in Blocks \ Range(held[omp.t])
      BY <1>1, <2>2, <3>2, HeldFacts
    <3>4. QED
      BY <1>0, <1>5, <3>1, <3>3 DEF BlocksHold
  <2>3. QED
    BY <2>1, <2>2
<1>15. Unsaved'
  BY <1>0, <1>1 DEF Unsaved, Saved, OmpAt
<1>16. Behind'
  BY <1>0, <1>1 DEF Behind, Saved, OmpAt
<1>17. Owners' /\ CallFresh' /\ RaiseJustified' /\ Promised' /\ Delivered' /\ SavesRight'
  BY <1>0 DEF Owners, CallFresh, RaiseJustified, Promised, Recorded, Delivered, SavesRight
<1>18. QED
  BY <1>0, <1>8, <1>10, <1>11, <1>12, <1>13, <1>14, <1>15, <1>16, <1>17

\* A miss is a first attempt's: the retry goes behind every save it needs.
LEMMA MissKeeps ==
  ASSUME FlowInv, Miss
  PROVE  FlowInv'
<1> DEFINE w == [omp EXCEPT !.again = TRUE]
<1> USE DEF FlowInv
<1>0. /\ omp # None /\ OpOf(omp.t) = "get" /\ ~Found(omp) /\ omp' = None
      /\ UNCHANGED <<free, held, live, made, call, raised, d2h, h2d, stream, copied>>
      /\ UNCHANGED <<hi, ready, blk, mem, gpu>>
  BY DEF Miss, poolVars, clientVars, xferVars, dataVars
<1>1. /\ omp \in Works /\ omp.t \in OmpAt /\ omp.t \notin ready /\ OmpAt' = {}
      /\ omp.t \in live /\ held[omp.t] = omp.bs /\ omp.t \in made /\ omp.t \in Tasks
      /\ omp \in InFlight
  BY <1>0 DEF FlowType, OmpAt, OmpStages, Flight, InFlight
<1>2. ~omp.again
  <2>1. ~Saved(omp.t)
    <3>1. KeysOf(omp.t) \in Seq(AllKeys) /\ DOMAIN KeysOf(omp.t) = 1..Need(omp.t)
      BY <1>1, TaskFacts DEF Need
    <3>2. QED
      BY <1>0, <3>1 DEF Found, Saved, Range
  <2>2. QED
    BY <1>0, <2>1 DEF Behind
<1>3. aborted' = FALSE /\ lo' = Append(lo, w)
  BY <1>1, <1>2 DEF Miss, Requeue, Works
<1>4. w \in Works /\ w.t = omp.t /\ w.bs = omp.bs /\ w.again
  BY <1>1 DEF Works
<1> HIDE DEF w
<1>5. lo \in Seq(Works) /\ omp.t \notin At(lo)
  BY <1>1 DEF FlowType, OmpStages
<1>6. /\ lo' \in Seq(Works) /\ Range(lo') = Range(lo) \cup {w}
      /\ At(lo') = At(lo) \cup {omp.t} /\ Apart(lo')
  BY <1>3, <1>4, <1>5, AppendFacts DEF OmpStages
<1>7. FlowType'
  BY <1>0, <1>3, <1>6 DEF FlowType
<1>8. Flight'
  <2> SUFFICES ASSUME NEW v \in InFlight' PROVE v.t \in live /\ held[v.t] = v.bs
    BY <1>0 DEF Flight
  <2>1. v \in InFlight \/ v = w
    BY <1>0, <1>6 DEF InFlight
  <2>2. QED
    BY <1>1, <1>4, <2>1 DEF Flight
<1>9. OmpStages'
  BY <1>0, <1>1, <1>5, <1>6 DEF OmpStages
<1>10. Unsaved'
  BY <1>0, <1>1, <1>6 DEF Unsaved, Saved, OmpAt
<1>11. Behind'
  <2>1. /\ Len(lo) \in Nat /\ DOMAIN lo = 1..Len(lo) /\ DOMAIN lo' = 1..(Len(lo) + 1)
        /\ lo'[Len(lo) + 1] = w /\ \A i \in 1..Len(lo) : lo'[i] = lo[i]
    BY <1>3, <1>4, <1>5
  <2>2. ASSUME NEW k \in Range(KeysOf(omp.t)), mem[k] = None
        PROVE  \E j \in 1..Len(lo) : OpOf(lo[j].t) = "put" /\ k \in Range(KeysOf(lo[j].t))
    <3>1. k \in Recorded
      BY <1>0, <1>1 DEF Promised
    <3>2. PICK u \in Tasks : OpOf(u) = "put" /\ LayersOf(u[1]) \subseteq made
                             /\ k \in Range(KeysOf(u))
      BY <3>1 DEF Recorded
    <3>3. u \in made
      BY <3>2 DEF LayersOf
    <3>4. ~Saved(u) /\ u \notin OmpAt
      BY <1>0, <2>2, <3>2 DEF Saved, OmpAt
    <3>5. u \in At(lo)
      BY <3>2, <3>3, <3>4 DEF Unsaved
    <3>6. QED
      BY <2>1, <3>2, <3>5 DEF At
  <2>3. ASSUME NEW i \in DOMAIN lo', lo'[i].again, NEW k \in Range(KeysOf(lo'[i].t)),
               mem[k] = None
        PROVE  \E j \in 1..(i - 1) : OpOf(lo'[j].t) = "put" /\ k \in Range(KeysOf(lo'[j].t))
    <3>1. CASE i = Len(lo) + 1
      <4>1. i - 1 = Len(lo) /\ lo'[i].t = omp.t
        BY <1>4, <2>1, <3>1
      <4>2. QED
        BY <2>1, <2>2, <2>3, <4>1
    <3>2. CASE i \in 1..Len(lo)
      <4>1. lo'[i] = lo[i] /\ \A j \in 1..(i - 1) : lo'[j] = lo[j]
        BY <2>1, <3>2
      <4>2. ~ \E t \in OmpAt : OpOf(t) = "put"
        BY <1>0 DEF OmpAt
      <4>3. QED
        BY <2>1, <2>3, <3>2, <4>1, <4>2 DEF Behind
    <3>3. QED
      BY <2>1, <3>1, <3>2
  <2>4. \A i \in DOMAIN lo' : OpOf(lo'[i].t) = "put" => ~lo'[i].again
    BY <1>0, <1>4, <2>1 DEF Behind
  <2>5. QED
    BY <1>0, <2>3, <2>4 DEF Behind
<1>12. Owners' /\ CallFresh' /\ CopyStages' /\ Order' /\ RaiseJustified' /\ Promised'
  BY <1>0 DEF Owners, CallFresh, CopyStages, Order, RaiseJustified, Promised, Recorded
<1>13. BlocksHold' /\ Delivered' /\ SavesRight' /\ ~aborted'
  BY <1>0, <1>3 DEF BlocksHold, Loaded, Delivered, SavesRight
<1>14. QED
  BY <1>7, <1>8, <1>9, <1>10, <1>11, <1>12, <1>13

LEMMA FlowStep ==
  ASSUME FlowInv, [Next]_vars
  PROVE  FlowInv'
<1>1. ASSUME NEW c \in Calls, Begin(c) PROVE FlowInv'
  BY <1>1, BeginKeeps
<1>2. ASSUME NEW t \in Tasks, Wait(t) \/ Poll(t) PROVE FlowInv'
  BY <1>2, ReleaseKeeps DEF Wait, Poll
<1>3. CASE Submit
  BY <1>3, PutLayerKeeps, GetLayerKeeps DEF Submit
<1>4. CASE Raise
  BY <1>4, RaiseKeeps
<1>5. CASE IssueD2H \/ IssueH2D
  BY <1>5, IssueD2HKeeps, IssueH2DKeeps
<1>6. CASE Device
  BY <1>6, DevicePutKeeps, DeviceGetKeeps DEF Device
<1>7. CASE Omp
  BY <1>7, PopHighKeeps, PopLowKeeps, ZipToMemKeeps, UnzipFromMemKeeps, MissKeeps DEF Omp
<1>8. CASE UNCHANGED vars
  <2>1. /\ UNCHANGED <<free, held, live, made, call, raised, d2h, h2d, stream, copied>>
        /\ UNCHANGED <<hi, lo, omp, ready, aborted, blk, mem, gpu>>
    BY <1>8 DEF vars, poolVars, clientVars, xferVars, ompVars, dataVars
  <2> USE DEF FlowInv
  <2>2. FlowType' /\ Owners' /\ CallFresh' /\ RaiseJustified' /\ ~aborted'
    BY <2>1 DEF FlowType, Owners, CallFresh, RaiseJustified
  <2>3. Flight' /\ CopyStages' /\ OmpStages' /\ Order'
    BY <2>1 DEF Flight, InFlight, CopyStages, OmpStages, OmpAt, Order
  <2>4. BlocksHold' /\ Delivered' /\ SavesRight' /\ Promised'
    BY <2>1 DEF BlocksHold, Loaded, Delivered, SavesRight, Promised, Recorded
  <2>5. Unsaved' /\ Behind'
    BY <2>1 DEF Unsaved, Behind, Saved, OmpAt
  <2>6. QED
    BY <2>2, <2>3, <2>4, <2>5
<1>9. QED
  BY <1>1, <1>2, <1>3, <1>4, <1>5, <1>6, <1>7, <1>8 DEF Next, Python

LEMMA FlowInvariant == Spec => []FlowInv
<1>1. Init => FlowInv
  BY FlowInit
<1>2. FlowInv /\ [Next]_vars => FlowInv'
  BY FlowStep
<1>3. QED
  BY <1>1, <1>2, PTL DEF Spec

-----------------------------------------------------------------------------
(* What follows.                                                           *)

\* Whatever the order of put(), get(), the waits and the polls of _allocate,
\* ScratchPool neither loses a block nor hands one out twice.
THEOREM BlocksHaveOneOwner == Spec => []OneOwner
<1>1. FlowInv => OneOwner
  <2> SUFFICES ASSUME FlowInv PROVE OneOwner
    OBVIOUS
  <2>1. /\ free \in Seq(Blocks) /\ NoRepeat(free)
        /\ \A t \in Tasks : held[t] \in Seq(Blocks)
    BY DEF FlowInv, FlowType, Owners
  <2>2. Range(free) \subseteq Blocks /\ \A t \in Tasks : Range(held[t]) \subseteq Blocks
    BY <2>1 DEF Range
  <2>3. Range(free) \cup UNION {Range(held[t]) : t \in Tasks} = Blocks
    <3>1. Range(free) \cup UNION {Range(held[t]) : t \in Tasks} \subseteq Blocks
      BY <2>2
    <3>2. Blocks \subseteq Range(free) \cup UNION {Range(held[t]) : t \in Tasks}
      BY DEF FlowInv, Owners
    <3>3. QED
      BY <3>1, <3>2
  <2>4. Cardinality(Range(free)) = Len(free)
    <3> DEFINE n == Len(free)
    <3>1. n \in Nat /\ DOMAIN free = 1..n /\ free \in [1..n -> Range(free)]
      BY <2>1 DEF Range
    <3>2. \A b \in Range(free) : \E i \in 1..n : free[i] = b
      BY <3>1 DEF Range
    <3>3. free \in Bijection(1..n, Range(free))
      BY <2>1, <3>1, <3>2 DEF NoRepeat, Bijection, Injection, Surjection, IsInjective
    <3>4. IsFiniteSet(1..n) /\ Cardinality(1..n) = n
      BY <3>1, FS_Interval
    <3>5. QED
      BY <3>3, <3>4, FS_Bijection DEF ExistsBijection
  <2>5. QED
    BY <2>3, <2>4 DEF OneOwner, FlowInv, Owners
<1>2. QED
  BY <1>1, FlowInvariant, PTL

\* A block does not go back to the pool while the D2H or H2D queue, a stream of
\* the device or OMP-Main still has its index.
THEOREM FlightKeepsBlocks == Spec => []InFlightOwned
<1>1. FlowInv => InFlightOwned
  BY DEF FlowInv, Flight, InFlightOwned
<1>2. QED
  BY <1>1, FlowInvariant, PTL

\* zip_to_mem_work compresses a block only after its copy and before another
\* task gets the block, so Mem never holds another key's data.
THEOREM WhatIsSavedIsRight == Spec => []SavesRight
<1>1. FlowInv => SavesRight
  BY DEF FlowInv
<1>2. QED
  BY <1>1, FlowInvariant, PTL

\* get_wait returns with the right data on the device, and the retry of
\* unzip_from_mem never misses: "cache key missing after retry" is unreachable.
THEOREM WhatIsLoadedIsRight == Spec => []LoadsRight
<1>1. FlowInv => LoadsRight
  <2> SUFFICES ASSUME FlowInv, NEW t \in made, OpOf(t) = "get"
               PROVE  gpu[t] \in {<<>>, KeysOf(t)} /\ (t \notin live => gpu[t] = KeysOf(t))
    BY DEF LoadsRight, FlowInv
  <2>1. t \in Tasks
    BY DEF FlowInv, FlowType
  <2>2. gpu[t] = IF t \in copied THEN KeysOf(t) ELSE <<>>
    BY <2>1 DEF FlowInv, Delivered
  <2>3. t \notin live => t \in copied
    BY DEF FlowInv, Order
  <2>4. QED
    BY <2>2, <2>3
<1>2. QED
  BY <1>1, FlowInvariant, PTL

\* _allocate raises "ScratchPool exhausted" only for more blocks than there are.
THEOREM OnlyTheImpossibleRaises == Spec => []RaiseJustified
<1>1. FlowInv => RaiseJustified
  BY DEF FlowInv
<1>2. QED
  BY <1>1, FlowInvariant, PTL
=============================================================================
