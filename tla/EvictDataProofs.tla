--------------------------- MODULE EvictDataProofs ---------------------------
(***************************************************************************)
(* The cluster keeps its promises, for every number of ranks, groups,      *)
(* layers and requests: what the rank 0 database reports is on every rank  *)
(* or on its way there, no load aborts, and what rank 0 holds in DDR can   *)
(* be evicted.                                                             *)
(***************************************************************************)
EXTENDS EvictProtocolProofs

\* The deployments the argument covers: no forced eviction, persist only with
\* no request in flight, and restarts with a single rank.  The ranks persist
\* and clean their databases one by one, so with several ranks a restart in
\* between leaves them with different rows.
Sound ==
  /\ NoForce
  /\ PersistMode # "paused"
  /\ MaxCrashes = 0 \/ Ranks = {Rank0}

\* A save of layer l of g is queued on rank r; the layer is there, or will be
\* once OMP-Main has taken the saves that are queued; it is there, or will be
\* once the forward passes sent to the rank are done, too.
Queued(r, g, l) ==
  \E j \in 1..Len(lo[r]) : lo[r][j].op = "put" /\ g \in lo[r][j].gs /\ lo[r][j].layer = l
Ready(r, g, l) == l \in mem[r][g] \/ Queued(r, g, l)
Due(r, g, l) ==
  \/ Ready(r, g, l)
  \/ \E i \in 1..Len(cmd[r]) : g \in Range(cmd[r][i].save) /\ cmd[r][i].layer <= l

\* A forward pass that saves g has not submitted it to rank r's database yet.
Unsubmitted(r, g) == \E i \in 1..Len(cmd[r]) : g \in Range(cmd[r][i].save)

\* Every command and task belongs to a running request; the load levels hold
\* loads only.
Owned ==
  /\ \A r \in Ranks : \A i \in 1..Len(cmd[r]) :
       /\ req[cmd[r][i].req].st = "running"
       /\ cmd[r][i].load = req[cmd[r][i].req].load
       /\ cmd[r][i].save = req[cmd[r][i].req].save
  /\ \A r \in Ranks : \A i \in 1..Len(hi[r]) :
       /\ req[hi[r][i].req].st = "running"
       /\ hi[r][i].op = "get"
       /\ hi[r][i].gs \subseteq Keys(hi[r][i].req)
  /\ \A r \in Ranks : \A i \in 1..Len(lo[r]) :
       /\ req[lo[r][i].req].st = "running"
       /\ lo[r][i].gs \subseteq Keys(lo[r][i].req)
       /\ lo[r][i].op = "put" => lo[r][i].gs \subseteq Range(req[lo[r][i].req].save)

\* While ranks persist, eviction is paused and no request is live; a rank that
\* has answered has every row of the index persisted.
Persists ==
  persisting # {} => /\ PersistMode = "quiescent"
                     /\ pause = "held"
                     /\ \A q \in Reqs : req[q].st = "idle"
                     /\ \A r \in Ranks \ persisting : rows[Rank0] \subseteq persisted[r]

\* A rank that has answered evict_labels holds none of the labels.
Unlinked == \A r \in Ranks \ unlinking : \A g \in evicting : mem[r][g] = {}

\* What a database calls persisted has a row and is on disk, whole.
OnDisk == \A r \in Ranks : \A g \in persisted[r] : g \in rows[r] /\ disk[r][g] = Layers

\* What rank 0 calls persisted the others do too, unless it is being saved
\* again or the ranks are persisting; what eviction leaves a row, they all do.
Everywhere ==
  /\ persisting = {} =>
       \A g \in persisted[Rank0] : \A r \in Ranks : g \in persisted[r] \/ Unsubmitted(Rank0, g)
  /\ \A g \in rows[Rank0] \cap evicting : \A r \in Ranks : g \in persisted[r]

\* What a request was promised has a row.
Promised == \A q \in Reqs : Range(req[q].load) \subseteq rows[Rank0]

\* What a running request saves lands on every rank, and gets a row there.
Landing ==
  \A q \in Reqs : req[q].st = "running" =>
    \A g \in Range(req[q].save) : \A r \in Ranks :
      /\ \A l \in Layers : Due(r, g, l)
      /\ Unsubmitted(r, g) \/ (g \in rows[r] /\ g \notin persisted[r])

\* The layers a forward pass is done with are in Mem or queued.
Pushed ==
  \A r \in Ranks : \A i \in 1..Len(cmd[r]) : \A g \in Range(cmd[r][i].save) :
    \A l \in Layers : l < cmd[r][i].layer => Ready(r, g, l)

\* What the index reports, and what a Mem holds, is whole or will be.
Whole ==
  \A g \in rows[Rank0] \ evicting : \A r \in Ranks : \A l \in Layers :
    g \in persisted[r] \/ Due(r, g, l)
Held ==
  \A r \in Ranks : \A g \in Groups : mem[r][g] # {} =>
    /\ \A l \in Layers : g \in persisted[r] \/ Due(r, g, l)
    /\ g \notin evicting => g \in rows[r] \/ Unsubmitted(r, g)

\* A mark in Mem agrees with the database once the saves have landed.
Marks ==
  \A r \in Ranks : \A g \in memPersisted[r] :
    g \in persisted[r] \/ \E l \in Layers : Queued(r, g, l)

\* A load finds its layer, or a save of it is taken first: commands are
\* executed in order, the saves they queue come before the loads queued again.
ServedCmd ==
  \A r \in Ranks : \A i \in 1..Len(cmd[r]) : \A g \in Range(cmd[r][i].load) : \A l \in Layers :
    \/ g \in persisted[r]
    \/ Ready(r, g, l)
    \/ \E j \in 1..Len(cmd[r]) : j < i /\ g \in Range(cmd[r][j].save) /\ cmd[r][j].layer <= l
ServedHi ==
  \A r \in Ranks : \A i \in 1..Len(hi[r]) : \A g \in hi[r][i].gs : \A l \in Layers :
    hi[r][i].layer = l => g \in persisted[r] \/ Ready(r, g, l)
ServedLo ==
  \A r \in Ranks : \A i \in 1..Len(lo[r]) : lo[r][i].op = "get" => \A g \in lo[r][i].gs :
    \/ lo[r][i].layer \in mem[r][g]
    \/ \E j \in 1..Len(lo[r]) : /\ j < i /\ lo[r][j].op = "put"
                                /\ g \in lo[r][j].gs /\ lo[r][j].layer = lo[r][i].layer

\* The cut lies before the clock and before every live request's has(); what
\* rank 0 holds lies above it.
Cut ==
  /\ evictedUntil < now * SubTicks
  /\ \A q \in Reqs : req[q].st # "idle" => evictedUntil < req[q].start * SubTicks
  /\ \A g \in Groups \ evicting :
       mem[Rank0][g] # {} => \/ g \in rows[Rank0] /\ la[g] > evictedUntil
                             \/ Unsubmitted(Rank0, g)

DataInv ==
  /\ Owned /\ Persists /\ Unlinked /\ OnDisk /\ Everywhere
  /\ Promised /\ Landing /\ Pushed /\ Whole /\ Held /\ Marks
  /\ ServedCmd /\ ServedHi /\ ServedLo /\ Cut /\ ~aborted

Inv == BaseInv /\ LeaseInv /\ DataInv

-----------------------------------------------------------------------------
(* Operators.                                                              *)

\* The commands and tasks of a rank, as records.
LEMMA Entries ==
  ASSUME BaseInv, NEW r \in Ranks
  PROVE  /\ cmd[r] \in Seq(Step) /\ hi[r] \in Seq(Task) /\ lo[r] \in Seq(Task)
         /\ \A i \in 1..Len(cmd[r]) :
              /\ cmd[r][i] \in Step /\ cmd[r][i].req \in Reqs
              /\ cmd[r][i].load \in Seq(Groups) /\ cmd[r][i].save \in Seq(Groups)
              /\ Range(cmd[r][i].load) \subseteq Groups
              /\ Range(cmd[r][i].save) \subseteq Groups
              /\ cmd[r][i].layer \in 0..NumLayers
         /\ \A i \in 1..Len(hi[r]) :
              /\ hi[r][i] \in Task /\ hi[r][i].req \in Reqs
              /\ hi[r][i].gs \subseteq Groups /\ hi[r][i].layer \in Layers
         /\ \A i \in 1..Len(lo[r]) :
              /\ lo[r][i] \in Task /\ lo[r][i].req \in Reqs
              /\ lo[r][i].gs \subseteq Groups /\ lo[r][i].layer \in Layers
<1>1. cmd[r] \in Seq(Step) /\ hi[r] \in Seq(Task) /\ lo[r] \in Seq(Task)
  BY DEF BaseInv, TypeOK
<1>2. \A c \in Step : /\ c.req \in Reqs /\ c.load \in Seq(Groups) /\ c.save \in Seq(Groups)
                      /\ Range(c.load) \subseteq Groups /\ Range(c.save) \subseteq Groups
                      /\ c.layer \in 0..NumLayers
  BY RangeInGroups DEF Step
<1>3. \A t \in Task : t.req \in Reqs /\ t.gs \subseteq Groups /\ t.layer \in Layers
  BY DEF Task
<1>4. QED
  BY <1>1, <1>2, <1>3

\* A request's keys are groups; a live one's are not being evicted.
LEMMA LiveKeys ==
  ASSUME Inv, NEW q \in Reqs
  PROVE  /\ req[q] \in ReqState
         /\ Range(req[q].load) \subseteq Groups /\ Range(req[q].save) \subseteq Groups
         /\ Keys(q) \subseteq Groups /\ Keys(q) \cap evicting = {}
         /\ Range(req[q].load) \subseteq Keys(q) /\ Range(req[q].save) \subseteq Keys(q)
         /\ req[q].st = "idle" => Keys(q) = {}
<1>1. req[q] \in ReqState
  BY DEF Inv, BaseInv, TypeOK
<1>2. Range(req[q].load) \subseteq Groups /\ Range(req[q].save) \subseteq Groups
  BY <1>1, RangeInGroups DEF ReqState
<1>3. Leased(q)
  BY DEF Inv, LeaseInv
<1>4. QED
  BY <1>1, <1>2, <1>3 DEF Keys, Leased

\* With no live request the queues of every rank are empty.
LEMMA Quiet ==
  ASSUME Inv, \A q \in Reqs : req[q].st = "idle", NEW r \in Ranks
  PROVE  /\ Len(cmd[r]) = 0 /\ Len(hi[r]) = 0 /\ Len(lo[r]) = 0
         /\ \A g : ~Unsubmitted(r, g)
         /\ \A g, l : ~Queued(r, g, l)
         /\ \A g, l : Due(r, g, l) => l \in mem[r][g]
<1>1. Owned
  BY DEF Inv, DataInv
<1>2. /\ Len(cmd[r]) \in Nat /\ Len(hi[r]) \in Nat /\ Len(lo[r]) \in Nat
      /\ \A i \in 1..Len(cmd[r]) : cmd[r][i].req \in Reqs
      /\ \A i \in 1..Len(hi[r]) : hi[r][i].req \in Reqs
      /\ \A i \in 1..Len(lo[r]) : lo[r][i].req \in Reqs
  BY Entries DEF Inv
<1>3. Len(cmd[r]) = 0
  <2> SUFFICES ASSUME Len(cmd[r]) # 0 PROVE FALSE
    OBVIOUS
  <2>1. 1 \in 1..Len(cmd[r])
    BY <1>2
  <2>2. QED
    BY <1>1, <1>2, <2>1 DEF Owned
<1>4. Len(hi[r]) = 0
  <2> SUFFICES ASSUME Len(hi[r]) # 0 PROVE FALSE
    OBVIOUS
  <2>1. 1 \in 1..Len(hi[r])
    BY <1>2
  <2>2. QED
    BY <1>1, <1>2, <2>1 DEF Owned
<1>5. Len(lo[r]) = 0
  <2> SUFFICES ASSUME Len(lo[r]) # 0 PROVE FALSE
    OBVIOUS
  <2>1. 1 \in 1..Len(lo[r])
    BY <1>2
  <2>2. QED
    BY <1>1, <1>2, <2>1 DEF Owned
<1>6. QED
  BY <1>3, <1>4, <1>5 DEF Unsubmitted, Queued, Due, Ready

\* has() reports leading hits only: every group it reports has a row.
LEMMA MatchedHits ==
  ASSUME NEW p \in Seq(Groups)
  PROVE  Range(SubSeq(p, 1, Matched(p))) \subseteq rows[Rank0]
<1> DEFINE S == {j \in 1..Len(p) : \A k \in 1..j : p[k] \in rows[Rank0]}
           m == Matched(p)
<1>0. Len(p) \in Nat /\ m \in 0..Len(p) /\ m \in Nat
  BY MatchedBounds
<1>1. m = Cardinality(S)
  BY DEF Matched
<1>2. m # 0 => m \in S
  <2> SUFFICES ASSUME m # 0, m \notin S PROVE FALSE
    OBVIOUS
  <2>1. S \subseteq 1..(m - 1)
    <3> SUFFICES ASSUME NEW j \in S, ~(j \in 1..(m - 1)) PROVE FALSE
      OBVIOUS
    <3>1. j \in 1..Len(p) /\ j >= m
      BY <1>0
    <3>2. m \in 1..Len(p) /\ \A k \in 1..m : k \in 1..j
      BY <1>0, <3>1
    <3>3. \A k \in 1..m : p[k] \in rows[Rank0]
      BY <3>2
    <3> HIDE DEF m
    <3>4. m \in S
      BY <3>2, <3>3
    <3> QED
      BY <3>4
  <2>2. IsFiniteSet(1..(m - 1)) /\ Cardinality(1..(m - 1)) = m - 1
    <3> HIDE DEF m
    <3>1. 1 \in Int /\ m \in Int /\ m - 1 \in Int /\ m >= 1
      BY <1>0
    <3>2. /\ IsFiniteSet(1..(m - 1))
          /\ Cardinality(1..(m - 1)) = IF 1 > m - 1 THEN 0 ELSE m - 1 - 1 + 1
      BY <3>1, FS_Interval
    <3> QED
      BY <3>1, <3>2
  <2>3. Cardinality(S) <= m - 1
    <3> HIDE DEF S, m
    <3> QED BY <2>1, <2>2, FS_Subset
  <2> HIDE DEF S, m
  <2> QED
    BY <1>0, <1>1, <2>3
<1>3. \A k \in 1..m : p[k] \in rows[Rank0]
  <2>1. CASE m = 0
    BY <2>1
  <2>2. CASE m # 0
    BY <1>2, <2>2
  <2> QED
    BY <2>1, <2>2
<1>4. QED
  <2> HIDE DEF m
  <2>1. SubSeq(p, 1, m) \in Seq(Groups) /\ Len(SubSeq(p, 1, m)) = m
        /\ \A k \in 1..m : SubSeq(p, 1, m)[k] = p[k]
    BY <1>0
  <2>2. Range(SubSeq(p, 1, m)) \subseteq rows[Rank0]
    BY <1>3, <2>1 DEF Range
  <2> QED
    BY <2>2 DEF m

LEMMA DataInit == Init => DataInv
<1> SUFFICES ASSUME Init PROVE DataInv
  OBVIOUS
<1>1. \A r \in Ranks : Len(cmd[r]) = 0 /\ Len(hi[r]) = 0 /\ Len(lo[r]) = 0
  BY DEF Init
<1>2. Owned /\ Pushed /\ ServedCmd /\ ServedHi /\ ServedLo
  BY <1>1 DEF Owned, Pushed, ServedCmd, ServedHi, ServedLo
<1>3. Rank0 \in Ranks
  BY ConstantsAssumption
<1>4. Persists /\ Unlinked /\ OnDisk /\ Everywhere /\ Whole /\ Held /\ Marks
  BY <1>3 DEF Init, Persists, Unlinked, OnDisk, Everywhere, Whole, Held, Marks
<1>5. \A q \in Reqs : req[q].st = "idle" /\ Range(req[q].load) = {}
  BY DEF Init, Idle, Range
<1>6. Promised /\ Landing
  BY <1>5 DEF Promised, Landing
<1>7. Cut
  <2>1. now * SubTicks > 0
    BY ConstantsAssumption DEF Init
  <2>2. QED
    BY <1>3, <1>5, <2>1 DEF Init, Cut
<1>8. QED
  BY <1>2, <1>4, <1>6, <1>7 DEF DataInv, Init

-----------------------------------------------------------------------------
(* Frames.                                                                 *)

LEMMA SameQueues ==
  ASSUME UNCHANGED <<mem, cmd, lo>>
  PROVE  \A r, g : /\ Unsubmitted(r, g)' <=> Unsubmitted(r, g)
                   /\ \A l : /\ Queued(r, g, l)' <=> Queued(r, g, l)
                             /\ Ready(r, g, l)' <=> Ready(r, g, l)
                             /\ Due(r, g, l)' <=> Due(r, g, l)
  BY DEF Unsubmitted, Queued, Ready, Due

\* The parts of the invariant that read neither requests nor the clock.
Flow == Everywhere /\ Pushed /\ Whole /\ Held /\ Marks /\ ServedCmd /\ ServedHi /\ ServedLo

LEMMA SameFlow ==
  ASSUME Flow, UNCHANGED <<rows, persisted, mem, memPersisted, cmd, hi, lo, evicting, persisting>>
  PROVE  Flow'
<1>1. Everywhere' /\ Pushed' /\ Whole' /\ Held'
  <2>1. Everywhere'
    BY DEF Flow, Everywhere, Unsubmitted
  <2>2. Pushed'
    BY DEF Flow, Pushed, Ready, Queued
  <2>3. Whole'
    BY DEF Flow, Whole, Due, Ready, Queued
  <2>4. Held'
    BY DEF Flow, Held, Due, Ready, Queued, Unsubmitted
  <2>5. QED
    BY <2>1, <2>2, <2>3, <2>4
<1>2. Marks'
  BY DEF Flow, Marks, Queued
<1>3. ServedCmd' /\ ServedHi'
  <2>1. ServedCmd'
    BY DEF Flow, ServedCmd, Ready, Queued
  <2>2. ServedHi'
    BY DEF Flow, ServedHi, Ready, Queued
  <2>3. QED
    BY <2>1, <2>2
<1>4. ServedLo'
  BY DEF Flow, ServedLo
<1>5. QED
  BY <1>1, <1>2, <1>3, <1>4 DEF Flow

-----------------------------------------------------------------------------
(* Scheduler.                                                              *)

LEMMA HasKeepsData ==
  ASSUME Inv, NEW q \in Reqs, NEW p \in Prompts, Has(q, p)
  PROVE  DataInv'
<1>0. /\ UNCHANGED <<now, rows, persisted, mem, memPersisted, disk, cmd, hi, lo, evicting,
                     unlinking, evictedUntil, pause, persisting, aborted>>
      /\ req[q].st # "running"
      /\ req' = [req EXCEPT ![q] = req'[q]]
      /\ req'[q].st = "looked" /\ req'[q].start = now
      /\ req'[q].load = SubSeq(p, 1, Matched(p))
  BY DEF Has, memVars, queueVars, evictVars, operVars, Inv, BaseInv, TypeOK
<1>1. \A k \in Reqs \ {q} : req'[k] = req[k] /\ Keys(k)' = Keys(k)
  BY <1>0 DEF Inv, BaseInv, TypeOK, Keys
<1>2. \A k \in Reqs : req[k].st = "running" => k # q
  BY <1>0
<1>3. Owned'
  <2>1. Owned
    BY DEF Inv, DataInv
  <2>2. ASSUME NEW r \in Ranks
        PROVE  /\ \A i \in 1..Len(cmd[r]) : cmd[r][i].req \in Reqs
               /\ \A i \in 1..Len(hi[r]) : hi[r][i].req \in Reqs
               /\ \A i \in 1..Len(lo[r]) : lo[r][i].req \in Reqs
    BY Entries DEF Inv
  <2>3. UNCHANGED <<cmd, hi, lo>>
    BY <1>0
  <2>4. QED
    BY <1>1, <1>2, <2>1, <2>2, <2>3 DEF Owned
<1>4. Persists'
  <2>1. persisting = {}
    BY DEF Has, Inv, DataInv, Persists
  <2>2. QED
    BY <1>0, <2>1 DEF Persists
<1>5. Unlinked' /\ OnDisk'
  BY <1>0 DEF Inv, DataInv, Unlinked, OnDisk
<1>6. Promised'
  <2>1. p \in Seq(Groups)
    BY ConstantsAssumption
  <2>2. Range(req'[q].load) \subseteq rows[Rank0]
    BY <1>0, <2>1, MatchedHits
  <2>3. QED
    BY <1>0, <1>1, <2>2 DEF Inv, DataInv, Promised
<1>7. Flow'
  BY <1>0, SameFlow DEF Inv, DataInv, Flow
<1>8. Landing'
  BY <1>0, <1>1, SameQueues DEF Inv, DataInv, Landing
<1>9. Cut'
  <2>1. Cut
    BY DEF Inv, DataInv
  <2>2. p \in Seq(Groups) /\ Len(p) <= SubTicks /\ now \in Nat
    BY ConstantsAssumption DEF Inv, BaseInv, TypeOK
  <2>3. ASSUME NEW g \in Groups, la[g] > evictedUntil PROVE la'[g] > evictedUntil
    <3>1. g \in Range(p) => Stamp(p, g) \in Nat /\ Stamp(p, g) >= now * SubTicks
      BY <2>2, StampBound
    <3>2. la'[g] = IF g \in Touched(p) THEN Stamp(p, g) ELSE la[g]
      BY DEF Has
    <3>3. evictedUntil \in Nat /\ now * SubTicks \in Nat /\ evictedUntil < now * SubTicks
      BY <2>1, <2>2, NextTick DEF Cut, Inv, BaseInv, TypeOK
    <3>4. QED
      BY <2>3, <3>1, <3>2, <3>3 DEF Touched
  <2>4. \A k \in Reqs : req'[k].st # "idle" => evictedUntil < req'[k].start * SubTicks
    BY <1>0, <1>1, <2>1 DEF Cut
  <2>5. QED
    BY <1>0, <2>1, <2>3, <2>4, SameQueues DEF Cut
<1>10. QED
  BY <1>0, <1>3, <1>4, <1>5, <1>6, <1>7, <1>8, <1>9 DEF DataInv, Inv, Flow

\* build_connector_meta appends one command to the commands of every rank.
LEMMA DispatchQueues ==
  ASSUME Inv, NEW q \in Reqs, Dispatch(q), NEW r \in Ranks
  PROVE  LET n == Len(cmd[r]) + 1
         IN  /\ n \in Nat /\ Len(cmd'[r]) = n
             /\ cmd'[r][n].req = q /\ cmd'[r][n].load = req[q].load
             /\ cmd'[r][n].save = req[q].save /\ cmd'[r][n].layer = 0
             /\ \A i \in 1..Len(cmd[r]) : cmd'[r][i] = cmd[r][i]
             /\ \A i \in 1..n : i \in 1..Len(cmd[r]) \/ i = n
             /\ \A i \in 1..Len(cmd[r]) : i \in 1..n /\ i < n
<1> DEFINE c == [req |-> q, load |-> req[q].load, save |-> req[q].save, layer |-> 0]
<1>1. cmd[r] \in Seq(Step)
  BY Entries DEF Inv
<1>2. cmd'[r] = Append(cmd[r], c)
  BY DEF Dispatch
<1>3. c.req = q /\ c.load = req[q].load /\ c.save = req[q].save /\ c.layer = 0
  OBVIOUS
<1>4. QED
  <2> HIDE DEF c
  <2>1. Len(cmd'[r]) = Len(cmd[r]) + 1 /\ cmd'[r][Len(cmd[r]) + 1] = c
    BY <1>1, <1>2
  <2>2. \A i \in 1..Len(cmd[r]) : cmd'[r][i] = cmd[r][i]
    BY <1>1, <1>2
  <2>3. Len(cmd[r]) \in Nat
    BY <1>1
  <2>4. QED
    BY <1>3, <2>1, <2>2, <2>3

LEMMA DispatchKeepsData ==
  ASSUME Inv, NEW q \in Reqs, Dispatch(q)
  PROVE  DataInv'
<1>0. /\ UNCHANGED <<now, rows, persisted, la, mem, memPersisted, disk, hi, lo, evicting,
                     unlinking, evictedUntil, pause, persisting, aborted>>
      /\ req[q].st = "looked"
      /\ req' = [req EXCEPT ![q].st = "running"]
  BY DEF Dispatch, dbVars, memVars, evictVars, operVars
<1>1. \A k \in Reqs : /\ req'[k].load = req[k].load /\ req'[k].save = req[k].save
                      /\ req'[k].start = req[k].start /\ Keys(k)' = Keys(k)
                      /\ req'[k].st = IF k = q THEN "running" ELSE req[k].st
  BY <1>0 DEF Inv, BaseInv, TypeOK, ReqState, Keys
<1>2. Owned'
  <2>1. Owned
    BY DEF Inv, DataInv
  <2>2. ASSUME NEW r \in Ranks, NEW i \in 1..Len(cmd'[r])
        PROVE  /\ req'[cmd'[r][i].req].st = "running"
               /\ cmd'[r][i].load = req'[cmd'[r][i].req].load
               /\ cmd'[r][i].save = req'[cmd'[r][i].req].save
    <3>1. CASE i \in 1..Len(cmd[r])
      <4>1. cmd'[r][i] = cmd[r][i] /\ cmd[r][i].req \in Reqs
        BY <3>1, DispatchQueues, Entries DEF Inv
      <4>2. QED
        BY <1>1, <2>1, <3>1, <4>1 DEF Owned
    <3>2. CASE i = Len(cmd[r]) + 1
      BY <1>1, <3>2, DispatchQueues
    <3>3. QED
      BY <2>2, <3>1, <3>2, DispatchQueues
  <2>3. ASSUME NEW r \in Ranks
        PROVE  /\ \A i \in 1..Len(hi[r]) : hi[r][i].req \in Reqs
               /\ \A i \in 1..Len(lo[r]) : lo[r][i].req \in Reqs
    BY Entries DEF Inv
  <2>4. QED
    BY <1>0, <1>1, <2>1, <2>2, <2>3 DEF Owned
<1>3. Persists'
  <2>1. persisting = {}
    BY <1>0 DEF Inv, DataInv, Persists
  <2>2. QED
    BY <1>0, <2>1 DEF Persists
<1>4. Unlinked' /\ OnDisk' /\ Promised'
  BY <1>0, <1>1 DEF Inv, DataInv, Unlinked, OnDisk, Promised
<1>5. ASSUME NEW r \in Ranks, NEW g
      PROVE  /\ Unsubmitted(r, g) => Unsubmitted(r, g)'
             /\ g \in Range(req[q].save) => Unsubmitted(r, g)'
             /\ \A l : Queued(r, g, l)' <=> Queued(r, g, l)
             /\ \A l : Ready(r, g, l)' <=> Ready(r, g, l)
             /\ \A l : Due(r, g, l) => Due(r, g, l)'
             /\ \A l \in Layers : g \in Range(req[q].save) => Due(r, g, l)'
  <2>0. Rank0 \in Ranks
    BY ConstantsAssumption
  <2>1. Unsubmitted(r, g) => Unsubmitted(r, g)'
    BY DispatchQueues DEF Unsubmitted
  <2>2. \A l : (Queued(r, g, l)' <=> Queued(r, g, l)) /\ (Ready(r, g, l)' <=> Ready(r, g, l))
    BY <1>0 DEF Queued, Ready
  <2>3. \A l : Due(r, g, l) => Due(r, g, l)'
    BY <2>2, DispatchQueues DEF Due
  <2>4. Len(cmd[r]) + 1 \in 1..Len(cmd'[r])
    BY DispatchQueues
  <2>5. g \in Range(req[q].save) => Unsubmitted(r, g)' /\ \A l \in Layers : Due(r, g, l)'
    <3>1. /\ cmd'[r][Len(cmd[r]) + 1].save = req[q].save
          /\ cmd'[r][Len(cmd[r]) + 1].layer = 0
      BY DispatchQueues
    <3>2. \A l \in Layers : 0 <= l
      BY ConstantsAssumption DEF Layers
    <3>3. QED
      BY <2>4, <3>1, <3>2 DEF Unsubmitted, Due
  <2>6. QED
    BY <2>1, <2>2, <2>3, <2>5
<1>6. Everywhere' /\ Whole' /\ Held' /\ Marks' /\ ServedHi' /\ ServedLo'
  <2>0. Rank0 \in Ranks
    BY ConstantsAssumption
  <2>1. Everywhere'
    BY <1>0, <1>5, <2>0 DEF Inv, DataInv, Everywhere
  <2>2. Whole' /\ Held'
    BY <1>0, <1>5 DEF Inv, DataInv, Whole, Held
  <2>3. Marks' /\ ServedHi' /\ ServedLo'
    <3>1. Marks'
      BY <1>0 DEF Inv, DataInv, Marks, Queued
    <3>2. ServedHi'
      BY <1>0 DEF Inv, DataInv, ServedHi, Ready, Queued
    <3>3. ServedLo'
      BY <1>0 DEF Inv, DataInv, ServedLo
    <3>4. QED
      BY <3>1, <3>2, <3>3
  <2>4. QED
    BY <2>1, <2>2, <2>3
<1>7. Landing'
  BY <1>0, <1>1, <1>5 DEF Inv, DataInv, Landing
<1>8. Pushed'
  <2> SUFFICES ASSUME NEW r \in Ranks, NEW i \in 1..Len(cmd'[r]),
                      NEW g \in Range(cmd'[r][i].save), NEW l \in Layers, l < cmd'[r][i].layer
               PROVE  Ready(r, g, l)'
    BY DEF Pushed
  <2>1. CASE i \in 1..Len(cmd[r])
    BY <1>5, <2>1, DispatchQueues DEF Inv, DataInv, Pushed
  <2>2. CASE i = Len(cmd[r]) + 1
    BY <2>2, DispatchQueues DEF Layers
  <2>3. QED
    BY <2>1, <2>2, DispatchQueues
<1>9. ServedCmd'
  <2> SUFFICES ASSUME NEW r \in Ranks, NEW i \in 1..Len(cmd'[r]),
                      NEW g \in Range(cmd'[r][i].load), NEW l \in Layers
               PROVE  \/ g \in persisted[r]
                      \/ Ready(r, g, l)'
                      \/ \E j \in 1..Len(cmd'[r]) :
                            j < i /\ g \in Range(cmd'[r][j].save) /\ cmd'[r][j].layer <= l
    BY <1>0 DEF ServedCmd
  <2>1. CASE i \in 1..Len(cmd[r])
    <3>1. g \in Range(cmd[r][i].load)
      BY <2>1, DispatchQueues
    <3>2. \/ g \in persisted[r]
          \/ Ready(r, g, l)
          \/ \E j \in 1..Len(cmd[r]) :
                j < i /\ g \in Range(cmd[r][j].save) /\ cmd[r][j].layer <= l
      BY <2>1, <3>1 DEF Inv, DataInv, ServedCmd
    <3>3. CASE Ready(r, g, l)
      BY <1>5, <3>3
    <3>4. ASSUME NEW j \in 1..Len(cmd[r]), j < i, g \in Range(cmd[r][j].save),
                 cmd[r][j].layer <= l
          PROVE  /\ j \in 1..Len(cmd'[r])
                 /\ g \in Range(cmd'[r][j].save) /\ cmd'[r][j].layer <= l
      BY <3>4, DispatchQueues
    <3>5. QED
      BY <3>2, <3>3, <3>4
  <2>2. CASE i = Len(cmd[r]) + 1
    <3>1. g \in Range(req[q].load)
      BY <2>2, DispatchQueues
    <3>2. g \in rows[Rank0] \ evicting
      BY <3>1, LiveKeys DEF Inv, DataInv, Promised
    <3>3. g \in persisted[r] \/ Due(r, g, l)
      BY <3>2 DEF Inv, DataInv, Whole
    <3>4. ASSUME NEW j \in 1..Len(cmd[r]), g \in Range(cmd[r][j].save), cmd[r][j].layer <= l
          PROVE  j \in 1..Len(cmd'[r]) /\ j < i /\ cmd'[r][j] = cmd[r][j]
      BY <2>2, DispatchQueues
    <3>5. QED
      BY <1>5, <3>3, <3>4 DEF Due
  <2>3. QED
    BY <2>1, <2>2, DispatchQueues
<1>10. Cut'
  <2>0. Rank0 \in Ranks
    BY ConstantsAssumption
  <2>1. Cut
    BY DEF Inv, DataInv
  <2>2. \A k \in Reqs : req'[k].st # "idle" => evictedUntil < req'[k].start * SubTicks
    BY <1>0, <1>1, <2>1 DEF Cut
  <2>3. QED
    BY <1>0, <1>5, <2>0, <2>1, <2>2 DEF Cut
<1>11. QED
  BY <1>0, <1>2, <1>3, <1>4, <1>6, <1>7, <1>8, <1>9, <1>10 DEF DataInv, Inv

LEMMA FinishKeepsData ==
  ASSUME Inv, NEW q \in Reqs, Finish(q)
  PROVE  DataInv'
<1>0. /\ UNCHANGED <<now, rows, persisted, la, mem, memPersisted, disk, cmd, hi, lo, evicting,
                     unlinking, evictedUntil, pause, persisting, aborted>>
      /\ req'[q] = Idle
      /\ \A k \in Reqs \ {q} : req'[k] = req[k] /\ Keys(k)' = Keys(k)
  BY DEF Finish, dbVars, memVars, queueVars, evictVars, operVars, Inv, BaseInv, TypeOK, Keys
<1>1. Idle.st = "idle" /\ Range(Idle.load) = {}
  BY DEF Idle, Range
<1>2. ASSUME NEW r \in Ranks
      PROVE  /\ \A i \in 1..Len(cmd[r]) : cmd[r][i].req \in Reqs \ {q}
             /\ \A i \in 1..Len(hi[r]) : hi[r][i].req \in Reqs \ {q}
             /\ \A i \in 1..Len(lo[r]) : lo[r][i].req \in Reqs \ {q}
  <2>1. /\ \A i \in 1..Len(hi[r]) : hi[r][i] \in Tasks(r)
        /\ \A i \in 1..Len(lo[r]) : lo[r][i] \in Tasks(r)
    BY Entries DEF Inv, Tasks, Range
  <2>2. QED
    BY <2>1, Entries DEF Inv, Finish
<1>3. Owned'
  BY <1>0, <1>2 DEF Inv, DataInv, Owned
<1>4. Persists'
  BY <1>0, <1>1 DEF Inv, DataInv, Persists
<1>5. Promised' /\ Landing'
  BY <1>0, <1>1, SameQueues DEF Inv, DataInv, Promised, Landing
<1>6. Unlinked' /\ OnDisk'
  BY <1>0 DEF Inv, DataInv, Unlinked, OnDisk
<1>7. Flow'
  BY <1>0, SameFlow DEF Inv, DataInv, Flow
<1>8. Cut'
  BY <1>0, <1>1, SameQueues DEF Inv, DataInv, Cut
<1>9. QED
  BY <1>0, <1>3, <1>4, <1>5, <1>6, <1>7, <1>8 DEF DataInv, Inv, Flow

-----------------------------------------------------------------------------
(* The forward pass.                                                       *)

\* The commands of rank r after a step of its forward pass: the first one is
\* gone (off = 1) or has reached layer k (off = 0).
Shifts(r, off, k) ==
  /\ off \in {0, 1}
  /\ Len(cmd'[r]) = Len(cmd[r]) - off
  /\ \A i \in 1..Len(cmd'[r]) :
       /\ i + off \in 1..Len(cmd[r])
       /\ cmd'[r][i].req = cmd[r][i + off].req
       /\ cmd'[r][i].load = cmd[r][i + off].load
       /\ cmd'[r][i].save = cmd[r][i + off].save
       /\ cmd'[r][i].layer = IF i + off = 1 THEN k ELSE cmd[r][i + off].layer

LEMMA ShiftsTail ==
  ASSUME BaseInv, NEW r \in Ranks, cmd[r] # <<>>, cmd'[r] = Tail(cmd[r]), NEW k
  PROVE  Shifts(r, 1, k)
<1>1. cmd[r] \in Seq(Step) /\ Len(cmd[r]) \in Nat \ {0}
  BY DEF BaseInv, TypeOK
<1>2. Len(cmd'[r]) = Len(cmd[r]) - 1
      /\ \A i \in 1..Len(cmd'[r]) : i + 1 \in 1..Len(cmd[r]) /\ cmd'[r][i] = cmd[r][i + 1]
  BY <1>1
<1>3. QED
  BY <1>2 DEF Shifts

LEMMA ShiftsHead ==
  ASSUME BaseInv, NEW r \in Ranks, cmd[r] # <<>>, NEW k \in 0..NumLayers,
         cmd'[r] = <<[Head(cmd[r]) EXCEPT !.layer = k]>> \o Tail(cmd[r])
  PROVE  Shifts(r, 0, k)
<1> DEFINE h == [Head(cmd[r]) EXCEPT !.layer = k]
<1>1. cmd[r] \in Seq(Step) /\ Len(cmd[r]) \in Nat \ {0} /\ Head(cmd[r]) = cmd[r][1]
      /\ Head(cmd[r]) \in Step
  BY DEF BaseInv, TypeOK
<1>2. /\ h.req = cmd[r][1].req /\ h.load = cmd[r][1].load
      /\ h.save = cmd[r][1].save /\ h.layer = k /\ h \in Step
  BY <1>1, StepAtLayer DEF Step
<1>3. /\ Len(cmd'[r]) = Len(cmd[r]) /\ cmd'[r][1] = h
      /\ \A i \in 2..Len(cmd[r]) : cmd'[r][i] = cmd[r][i]
  <2> HIDE DEF h
  <2>1. cmd'[r] = <<h>> \o Tail(cmd[r])
    BY DEF h
  <2> QED BY <1>1, <1>2, <2>1
<1>4. QED
  <2> HIDE DEF h
  <2>1. ASSUME NEW i \in 1..Len(cmd'[r])
        PROVE  /\ i + 0 \in 1..Len(cmd[r])
               /\ cmd'[r][i].req = cmd[r][i + 0].req
               /\ cmd'[r][i].load = cmd[r][i + 0].load
               /\ cmd'[r][i].save = cmd[r][i + 0].save
               /\ cmd'[r][i].layer = IF i + 0 = 1 THEN k ELSE cmd[r][i + 0].layer
    <3>1. i + 0 = i /\ i \in 1..Len(cmd[r])
      BY <1>1, <1>3
    <3>2. CASE i = 1
      BY <1>2, <1>3, <3>1, <3>2
    <3>3. CASE i # 1
      <4>1. i \in 2..Len(cmd[r])
        BY <1>1, <3>1, <3>3
      <4>2. QED
        BY <1>3, <3>1, <3>3, <4>1
    <3>4. QED
      BY <3>2, <3>3
  <2>2. QED
    BY <1>1, <1>3, <2>1 DEF Shifts

\* What both steps of the forward pass do to the data on its way.  When the
\* command goes, the groups it saves have been submitted and are all queued.
Forward(r, off, k) ==
  /\ cmd[r] # <<>> /\ cmd' = [cmd EXCEPT ![r] = cmd'[r]] /\ Shifts(r, off, k)
  /\ UNCHANGED <<now, mem, memPersisted, disk, req, evicting, unlinking, evictedUntil,
                 pause, persisting, aborted>>
  /\ \A s \in Ranks, g \in Groups, l \in Layers : Queued(s, g, l) => Queued(s, g, l)'
  /\ \A g \in Range(cmd[r][1].save), l \in Layers :
       /\ cmd[r][1].layer <= l => Ready(r, g, l)' \/ (off = 0 /\ k <= l)
       /\ off = 0 /\ l < k => Ready(r, g, l)'
       /\ off = 1 => Ready(r, g, l)'
  /\ \A s \in Ranks : persisted'[s] \subseteq persisted[s] /\ rows[s] \subseteq rows'[s]
  /\ \A s \in Ranks, g \in Groups :
       \/ (g \in persisted'[s] <=> g \in persisted[s]) /\ (g \in rows'[s] <=> g \in rows[s])
       \/ s = r /\ off = 1 /\ g \in Range(cmd[r][1].save)
  /\ off = 1 => \A g \in Range(cmd[r][1].save) :
       /\ g \in rows'[r] /\ g \notin persisted'[r]
       /\ \E l \in Layers : Queued(r, g, l)'
       /\ r = Rank0 => la'[g] > evictedUntil
  /\ \A g \in Groups : la'[g] = la[g] \/ la'[g] > evictedUntil

LEMMA ForwardKeepsData ==
  ASSUME Inv, TypeOK', NEW r \in Ranks, NEW off, NEW k \in 0..NumLayers, Forward(r, off, k)
  PROVE  /\ Persists' /\ Unlinked' /\ OnDisk' /\ Everywhere' /\ Promised' /\ Landing'
         /\ Pushed' /\ Whole' /\ Held' /\ Marks' /\ ServedCmd' /\ Cut' /\ aborted' = aborted
         /\ \A s \in Ranks : \A i \in 1..Len(cmd'[s]) :
              /\ req'[cmd'[s][i].req].st = "running"
              /\ cmd'[s][i].load = req'[cmd'[s][i].req].load
              /\ cmd'[s][i].save = req'[cmd'[s][i].req].save
<1> DEFINE S == Range(cmd[r][1].save)
<1>0. /\ cmd[r] \in Seq(Step) /\ Len(cmd[r]) \in Nat \ {0} /\ 1 \in 1..Len(cmd[r])
      /\ off \in {0, 1} /\ Rank0 \in Ranks /\ k \in Nat
      /\ \A l \in Layers : l \in Nat /\ l >= 1
  BY Entries, ConstantsAssumption DEF Inv, Forward, Shifts, Layers
<1>1. \A s \in Ranks \ {r} : cmd'[s] = cmd[s]
  BY DEF Forward, Inv, BaseInv, TypeOK
<1>2. UNCHANGED <<now, mem, memPersisted, disk, req, evicting, unlinking, evictedUntil,
                  pause, persisting, aborted>>
  BY DEF Forward
<1>3. /\ cmd[r][1].req \in Reqs /\ req[cmd[r][1].req].st = "running"
      /\ S = Range(req[cmd[r][1].req].save)
      /\ S \subseteq Groups /\ S \cap evicting = {}
  <2>1. /\ cmd[r][1].req \in Reqs /\ req[cmd[r][1].req].st = "running"
        /\ cmd[r][1].save = req[cmd[r][1].req].save
    BY <1>0, Entries DEF Inv, DataInv, Owned
  <2>2. QED
    BY <2>1, LiveKeys
<1>4. persisting = {} /\ Persists'
  BY <1>2, <1>3 DEF Inv, DataInv, Persists
<1>5. Unlinked' /\ OnDisk' /\ Promised'
  <2>1. Unlinked'
    BY <1>2 DEF Inv, DataInv, Unlinked
  <2>2. OnDisk'
    BY <1>2 DEF Inv, DataInv, OnDisk, Forward
  <2>3. Promised'
    BY <1>0, <1>2 DEF Inv, DataInv, Promised, Forward
  <2>4. QED
    BY <2>1, <2>2, <2>3
<1>6. ASSUME NEW s \in Ranks, NEW g \in Groups, Unsubmitted(s, g)
      PROVE  Unsubmitted(s, g)' \/ (s = r /\ off = 1 /\ g \in S)
  <2>1. CASE s # r
    BY <1>1, <1>6, <2>1 DEF Unsubmitted
  <2>2. CASE s = r
    <3>1. PICK i \in 1..Len(cmd[r]) : g \in Range(cmd[r][i].save)
      BY <1>6, <2>2 DEF Unsubmitted
    <3>2. CASE i = 1 /\ off = 1
      BY <2>2, <3>1, <3>2
    <3>3. CASE ~(i = 1 /\ off = 1)
      <4>1. i - off \in 1..Len(cmd'[r]) /\ (i - off) + off = i
        BY <1>0, <3>3 DEF Forward, Shifts
      <4>2. cmd'[r][i - off].save = cmd[r][i].save
        BY <4>1 DEF Forward, Shifts
      <4>3. QED
        BY <2>2, <3>1, <4>1, <4>2 DEF Unsubmitted
    <3>4. QED
      BY <3>2, <3>3
  <2>3. QED
    BY <2>1, <2>2
<1>7. ASSUME NEW s \in Ranks, NEW g \in Groups, NEW l \in Layers
      PROVE  /\ Ready(s, g, l) => Ready(s, g, l)'
             /\ Due(s, g, l) => Due(s, g, l)'
  <2>1. Ready(s, g, l) => Ready(s, g, l)'
    BY <1>2 DEF Forward, Ready
  <2>2. ASSUME NEW i \in 1..Len(cmd[s]), g \in Range(cmd[s][i].save), cmd[s][i].layer <= l
        PROVE  Due(s, g, l)'
    <3>1. CASE s # r
      BY <1>1, <2>2, <3>1 DEF Due
    <3>2. CASE s = r /\ i = 1
      <4>1. Ready(r, g, l)' \/ (off = 0 /\ k <= l)
        BY <2>2, <3>2 DEF Forward
      <4>2. CASE off = 0 /\ k <= l
        <5>1. 1 \in 1..Len(cmd'[r]) /\ 1 + off = 1
          BY <1>0, <4>2 DEF Forward, Shifts
        <5>2. cmd'[r][1].save = cmd[r][1].save /\ cmd'[r][1].layer = k
          BY <5>1 DEF Forward, Shifts
        <5>3. QED
          BY <2>2, <3>2, <4>2, <5>1, <5>2 DEF Due
      <4>3. QED
        BY <3>2, <4>1, <4>2 DEF Due
    <3>3. CASE s = r /\ i # 1
      <4>1. i - off \in 1..Len(cmd'[r]) /\ (i - off) + off = i
        BY <1>0, <3>3 DEF Forward, Shifts
      <4>2. cmd'[r][i - off].save = cmd[r][i].save /\ cmd'[r][i - off].layer = cmd[r][i].layer
        BY <3>3, <4>1 DEF Forward, Shifts
      <4>3. QED
        BY <2>2, <3>3, <4>1, <4>2 DEF Due
    <3>4. QED
      BY <3>1, <3>2, <3>3
  <2>3. QED
    BY <2>1, <2>2 DEF Due
<1>8. ASSUME NEW s \in Ranks, NEW g \in Groups
      PROVE  \/ (g \in persisted'[s] <=> g \in persisted[s]) /\ (g \in rows'[s] <=> g \in rows[s])
             \/ /\ s = r /\ off = 1 /\ g \in S
                /\ g \in rows'[s] /\ g \notin persisted'[s]
                /\ \A l \in Layers : Ready(s, g, l)' /\ Due(s, g, l)'
                /\ \E l \in Layers : Queued(s, g, l)'
                /\ s = Rank0 => la'[g] > evictedUntil
  BY DEF Forward, Due
<1>9. Everywhere'
  <2>1. Everywhere /\ Landing
    BY DEF Inv, DataInv
  <2>2. persisted[Rank0] \subseteq Groups
    BY <1>0 DEF Inv, BaseInv, TypeOK
  <2>3. ASSUME NEW g \in persisted'[Rank0], NEW s \in Ranks
        PROVE  g \in persisted'[s] \/ Unsubmitted(Rank0, g)'
    <3>1. g \in persisted[Rank0] /\ g \in Groups
      BY <1>0, <2>2 DEF Forward
    <3>2. ~(Rank0 = r /\ off = 1 /\ g \in S)
      BY <1>0, <1>8, <3>1 DEF Forward
    <3>3. CASE Unsubmitted(Rank0, g)
      BY <1>0, <1>6, <3>1, <3>2, <3>3
    <3>4. CASE ~Unsubmitted(Rank0, g)
      <4>1. g \in persisted[s]
        BY <1>4, <2>1, <3>1, <3>4 DEF Everywhere
      <4>2. g \notin S
        BY <1>0, <1>3, <2>1, <3>1, <3>4 DEF Landing
      <4>3. QED
        BY <1>8, <3>1, <4>1, <4>2
    <3>5. QED
      BY <3>3, <3>4
  <2>4. ASSUME NEW g \in rows'[Rank0] \cap evicting, NEW s \in Ranks
        PROVE  g \in persisted'[s]
    <3>1. g \in Groups /\ g \notin S
      BY <1>3 DEF Inv, BaseInv, TypeOK
    <3>2. g \in rows[Rank0]
      BY <1>0, <1>8, <2>4, <3>1
    <3>3. QED
      BY <1>8, <2>1, <2>4, <3>1, <3>2 DEF Everywhere
  <2>5. QED
    BY <1>2, <2>3, <2>4 DEF Everywhere
<1>10. Landing'
  <2> SUFFICES ASSUME NEW q \in Reqs, req[q].st = "running", NEW g \in Range(req[q].save),
                      NEW s \in Ranks
               PROVE  /\ \A l \in Layers : Due(s, g, l)'
                      /\ Unsubmitted(s, g)' \/ (g \in rows'[s] /\ g \notin persisted'[s])
    BY <1>2 DEF Landing
  <2>1. g \in Groups
    BY LiveKeys
  <2>2. /\ \A l \in Layers : Due(s, g, l)
        /\ Unsubmitted(s, g) \/ (g \in rows[s] /\ g \notin persisted[s])
    BY DEF Inv, DataInv, Landing
  <2>3. \A l \in Layers : Due(s, g, l)'
    BY <1>7, <2>1, <2>2
  <2>4. CASE Unsubmitted(s, g)
    BY <1>6, <2>1, <2>3, <2>4 DEF Forward
  <2>5. CASE g \in rows[s] /\ g \notin persisted[s]
    BY <1>8, <2>1, <2>3, <2>5
  <2>6. QED
    BY <2>2, <2>3, <2>4, <2>5
<1>11. Pushed'
  <2> SUFFICES ASSUME NEW s \in Ranks, NEW i \in 1..Len(cmd'[s]),
                      NEW g \in Range(cmd'[s][i].save), NEW l \in Layers, l < cmd'[s][i].layer
               PROVE  Ready(s, g, l)'
    BY DEF Pushed
  <2>0. Pushed
    BY DEF Inv, DataInv
  <2>1. CASE s # r
    <3>1. i \in 1..Len(cmd[s]) /\ cmd'[s][i] = cmd[s][i] /\ g \in Groups
      BY <1>1, <2>1, Entries DEF Inv
    <3>2. QED
      BY <1>7, <2>0, <3>1 DEF Pushed
  <2>2. CASE s = r
    <3>1. /\ i + off \in 1..Len(cmd[r]) /\ cmd'[r][i].save = cmd[r][i + off].save
          /\ cmd'[r][i].layer = IF i + off = 1 THEN k ELSE cmd[r][i + off].layer
      BY <2>2 DEF Forward, Shifts
    <3>2. CASE i + off = 1
      <4>1. off = 0 /\ g \in Range(cmd[r][1].save) /\ l < k
        BY <1>0, <2>2, <3>1, <3>2
      <4>2. QED
        BY <2>2, <4>1 DEF Forward
    <3>3. CASE i + off # 1
      <4>1. g \in Range(cmd[r][i + off].save) /\ l < cmd[r][i + off].layer /\ g \in Groups
        BY <2>2, <3>1, <3>3, Entries DEF Inv
      <4>2. Ready(r, g, l)
        BY <2>0, <3>1, <4>1 DEF Pushed
      <4>3. QED
        BY <1>7, <2>2, <4>1, <4>2
    <3>4. QED
      BY <3>2, <3>3
  <2>3. QED
    BY <2>1, <2>2
<1>12. Whole'
  <2> SUFFICES ASSUME NEW g \in rows'[Rank0] \ evicting, NEW s \in Ranks, NEW l \in Layers
               PROVE  g \in persisted'[s] \/ Due(s, g, l)'
    BY <1>2 DEF Whole
  <2>1. g \in Groups
    BY <1>0 DEF TypeOK
  <2>2. CASE g \in rows[Rank0]
    <3>1. g \in persisted[s] \/ Due(s, g, l)
      BY <2>2 DEF Inv, DataInv, Whole
    <3>2. QED
      BY <1>7, <1>8, <2>1, <3>1
  <2>3. CASE g \notin rows[Rank0]
    <3>1. g \in S
      BY <1>0, <1>8, <2>1, <2>3
    <3>2. Due(s, g, l)
      BY <1>3, <3>1 DEF Inv, DataInv, Landing
    <3>3. QED
      BY <1>7, <2>1, <3>2
  <2>4. QED
    BY <2>2, <2>3
<1>13. Held'
  <2> SUFFICES ASSUME NEW s \in Ranks, NEW g \in Groups, mem[s][g] # {}
               PROVE  /\ \A l \in Layers : g \in persisted'[s] \/ Due(s, g, l)'
                      /\ g \notin evicting => g \in rows'[s] \/ Unsubmitted(s, g)'
    BY <1>2 DEF Held
  <2>1. /\ \A l \in Layers : g \in persisted[s] \/ Due(s, g, l)
        /\ g \notin evicting => g \in rows[s] \/ Unsubmitted(s, g)
    BY DEF Inv, DataInv, Held
  <2>2. ASSUME NEW l \in Layers PROVE g \in persisted'[s] \/ Due(s, g, l)'
    <3>1. Due(s, g, l) => Due(s, g, l)'
      BY <1>7
    <3>2. QED
      BY <1>8, <2>1, <3>1
  <2>3. ASSUME g \notin evicting PROVE g \in rows'[s] \/ Unsubmitted(s, g)'
    <3>1. CASE g \in rows[s]
      BY <3>1 DEF Forward
    <3>2. CASE Unsubmitted(s, g)
      BY <1>6, <3>2 DEF Forward
    <3>3. QED
      BY <2>1, <2>3, <3>1, <3>2
  <2>4. QED
    BY <2>2, <2>3
<1>14. Marks'
  <2> SUFFICES ASSUME NEW s \in Ranks, NEW g \in memPersisted[s]
               PROVE  g \in persisted'[s] \/ \E l \in Layers : Queued(s, g, l)'
    BY <1>2 DEF Marks
  <2>1. g \in Groups
    BY DEF Inv, BaseInv, TypeOK
  <2>2. g \in persisted[s] \/ \E l \in Layers : Queued(s, g, l)
    BY DEF Inv, DataInv, Marks
  <2>3. \A l \in Layers : Queued(s, g, l) => Queued(s, g, l)'
    BY <2>1 DEF Forward
  <2>4. QED
    BY <1>8, <2>1, <2>2, <2>3
<1>15. ServedCmd'
  <2> SUFFICES ASSUME NEW s \in Ranks, NEW i \in 1..Len(cmd'[s]),
                      NEW g \in Range(cmd'[s][i].load), NEW l \in Layers
               PROVE  \/ g \in persisted'[s]
                      \/ Ready(s, g, l)'
                      \/ \E j \in 1..Len(cmd'[s]) :
                            j < i /\ g \in Range(cmd'[s][j].save) /\ cmd'[s][j].layer <= l
    BY DEF ServedCmd
  <2>0. ServedCmd
    BY DEF Inv, DataInv
  <2>1. CASE s # r
    <3>1. cmd'[s] = cmd[s] /\ i \in 1..Len(cmd[s]) /\ g \in Range(cmd[s][i].load) /\ g \in Groups
      BY <1>1, <2>1, Entries DEF Inv
    <3>2. \/ g \in persisted[s]
          \/ Ready(s, g, l)
          \/ \E j \in 1..Len(cmd[s]) :
                j < i /\ g \in Range(cmd[s][j].save) /\ cmd[s][j].layer <= l
      BY <2>0, <3>1 DEF ServedCmd
    <3>3. g \in persisted[s] => g \in persisted'[s]
      BY <1>8, <2>1, <3>1
    <3>4. QED
      BY <1>7, <3>1, <3>2, <3>3
  <2>2. CASE s = r
    <3>1. i + off \in 1..Len(cmd[r]) /\ cmd'[r][i].load = cmd[r][i + off].load /\ i \in Nat
      BY <2>2 DEF Forward, Shifts
    <3>2. g \in Range(cmd[r][i + off].load) /\ g \in Groups
      BY <2>2, <3>1, Entries DEF Inv
    <3>3. \/ g \in persisted[r]
          \/ Ready(r, g, l)
          \/ \E j \in 1..Len(cmd[r]) :
                j < i + off /\ g \in Range(cmd[r][j].save) /\ cmd[r][j].layer <= l
      BY <2>0, <3>1, <3>2 DEF ServedCmd
    <3>4. CASE g \in persisted[r] \/ Ready(r, g, l)
      BY <1>7, <1>8, <2>2, <3>2, <3>4
    <3>5. ASSUME NEW j \in 1..Len(cmd[r]), j < i + off, g \in Range(cmd[r][j].save),
                 cmd[r][j].layer <= l
          PROVE  \/ Ready(r, g, l)'
                 \/ \E m \in 1..Len(cmd'[r]) :
                      m < i /\ g \in Range(cmd'[r][m].save) /\ cmd'[r][m].layer <= l
      <4>1. CASE j = 1
        <5>1. Ready(r, g, l)' \/ (off = 0 /\ k <= l)
          BY <3>5, <4>1 DEF Forward
        <5>2. CASE off = 0 /\ k <= l
          <6>1. 1 \in 1..Len(cmd'[r]) /\ 1 + off = 1 /\ 1 < i
            BY <1>0, <3>1, <3>5, <4>1, <5>2 DEF Forward, Shifts
          <6>2. cmd'[r][1].save = cmd[r][1].save /\ cmd'[r][1].layer = k
            BY <6>1 DEF Forward, Shifts
          <6>3. QED
            BY <3>5, <4>1, <5>2, <6>1, <6>2
        <5>3. QED
          BY <5>1, <5>2
      <4>2. CASE j # 1
        <5>1. j - off \in 1..Len(cmd'[r]) /\ (j - off) + off = j /\ j - off < i
          BY <1>0, <3>1, <3>5, <4>2 DEF Forward, Shifts
        <5>2. cmd'[r][j - off].save = cmd[r][j].save /\ cmd'[r][j - off].layer = cmd[r][j].layer
          BY <4>2, <5>1 DEF Forward, Shifts
        <5>3. QED
          BY <3>5, <5>1, <5>2
      <4>3. QED
        BY <4>1, <4>2
    <3>6. QED
      BY <2>2, <3>3, <3>4, <3>5
  <2>3. QED
    BY <2>1, <2>2
<1>16. Cut'
  <2>1. Cut
    BY DEF Inv, DataInv
  <2>2. ASSUME NEW g \in Groups \ evicting, mem[Rank0][g] # {}
        PROVE  (g \in rows'[Rank0] /\ la'[g] > evictedUntil) \/ Unsubmitted(Rank0, g)'
    <3>1. (g \in rows[Rank0] /\ la[g] > evictedUntil) \/ Unsubmitted(Rank0, g)
      BY <2>1, <2>2 DEF Cut
    <3>2. CASE g \in rows[Rank0] /\ la[g] > evictedUntil
      BY <1>0, <3>2 DEF Forward
    <3>3. CASE Unsubmitted(Rank0, g)
      BY <1>0, <1>6, <1>8, <3>3 DEF Forward
    <3>4. QED
      BY <3>1, <3>2, <3>3
  <2>3. QED
    BY <1>2, <2>1, <2>2 DEF Cut
<1>17. \A s \in Ranks : \A i \in 1..Len(cmd'[s]) :
         /\ req'[cmd'[s][i].req].st = "running"
         /\ cmd'[s][i].load = req'[cmd'[s][i].req].load
         /\ cmd'[s][i].save = req'[cmd'[s][i].req].save
  <2> SUFFICES ASSUME NEW s \in Ranks, NEW i \in 1..Len(cmd'[s])
               PROVE  /\ req[cmd'[s][i].req].st = "running"
                      /\ cmd'[s][i].load = req[cmd'[s][i].req].load
                      /\ cmd'[s][i].save = req[cmd'[s][i].req].save
    BY <1>2
  <2>0. Owned
    BY DEF Inv, DataInv
  <2>1. CASE s # r
    BY <1>1, <2>0, <2>1 DEF Owned
  <2>2. CASE s = r
    <3>1. /\ i + off \in 1..Len(cmd[r]) /\ cmd'[r][i].req = cmd[r][i + off].req
          /\ cmd'[r][i].load = cmd[r][i + off].load /\ cmd'[r][i].save = cmd[r][i + off].save
      BY <2>2 DEF Forward, Shifts
    <3>2. QED
      BY <2>0, <2>2, <3>1 DEF Owned
  <2>3. QED
    BY <2>1, <2>2
<1>18. QED
  BY <1>2, <1>4, <1>5, <1>9, <1>10, <1>11, <1>12, <1>13, <1>14, <1>15, <1>16, <1>17

\* The load levels after start_load_kv: one load per layer of what the command
\* lists is new.
LEMMA StartLoadHi ==
  ASSUME Inv, NEW r \in Ranks, StartLoad(r), NEW s \in Ranks, NEW i \in 1..Len(hi'[s])
  PROVE  \/ i \in 1..Len(hi[s]) /\ hi'[s][i] = hi[s][i]
         \/ /\ s = r
            /\ hi'[s][i].op = "get" /\ hi'[s][i].req = cmd[r][1].req
            /\ hi'[s][i].gs = Range(cmd[r][1].load)
<1> DEFINE c == Head(cmd[r])
           ls == [l \in Layers |-> [op |-> "get", req |-> c.req,
                                    gs |-> Range(c.load), layer |-> l]]
<1>0. cmd[r] \in Seq(Step) /\ cmd[r] # <<>> /\ hi[r] \in Seq(Task) /\ c = cmd[r][1] /\ c \in Step
  BY Entries DEF StartLoad, Inv
<1>1. hi' = [hi EXCEPT ![r] = IF c.load = <<>> THEN hi[r] ELSE hi[r] \o ls]
  BY DEF StartLoad
<1>2. ls \in Seq(Task) /\ Len(ls) = NumLayers /\ DOMAIN ls = Layers
  BY <1>0, LoadsOfStep
<1>3. \A l \in Layers : /\ ls[l].op = "get" /\ ls[l].req = cmd[r][1].req
                        /\ ls[l].gs = Range(cmd[r][1].load)
  BY <1>0
<1>4. hi \in [Ranks -> Seq(Task)]
  BY DEF Inv, BaseInv, TypeOK
<1>5. CASE s # r \/ c.load = <<>>
  <2> HIDE DEF c, ls
  <2> QED BY <1>1, <1>4, <1>5
<1>6. CASE s = r /\ c.load # <<>>
  <2> HIDE DEF c, ls
  <2>1. hi'[r] = hi[r] \o ls
    BY <1>1, <1>4, <1>6
  <2>2. CASE i <= Len(hi[r])
    BY <1>0, <1>2, <1>6, <2>1, <2>2
  <2>3. CASE i > Len(hi[r])
    <3>1. i - Len(hi[r]) \in 1..NumLayers /\ hi'[r][i] = ls[i - Len(hi[r])]
      BY <1>0, <1>2, <1>6, <2>1, <2>3
    <3>2. i - Len(hi[r]) \in Layers
      BY <3>1 DEF Layers
    <3>3. QED
      BY <1>3, <1>6, <3>1, <3>2
  <2>4. i \in Nat /\ Len(hi[r]) \in Nat
    BY <1>0
  <2>5. QED
    BY <2>2, <2>3, <2>4
<1>7. QED
  BY <1>5, <1>6

LEMMA StartLoadKeepsData ==
  ASSUME Inv, TypeOK', NEW r \in Ranks, StartLoad(r)
  PROVE  DataInv'
<1> DEFINE c == Head(cmd[r])
           off == IF c.save = <<>> THEN 1 ELSE 0
<1>0. cmd[r] \in Seq(Step) /\ cmd[r] # <<>> /\ c = cmd[r][1] /\ c \in Step /\ 1 \in 0..NumLayers
      /\ 1 \in 1..Len(cmd[r])
  BY Entries, ConstantsAssumption DEF StartLoad, Inv
<1>1. UNCHANGED <<now, rows, persisted, la, mem, memPersisted, disk, lo, req, evicting, unlinking,
                  evictedUntil, pause, persisting, aborted>>
  BY DEF StartLoad, dbVars, memVars, evictVars, operVars
<1>2. cmd' = [cmd EXCEPT ![r] = cmd'[r]] /\ Shifts(r, off, 1)
  <2>1. cmd' = [cmd EXCEPT ![r] = IF c.save = <<>> THEN Tail(cmd[r])
                                  ELSE <<[c EXCEPT !.layer = 1]>> \o Tail(cmd[r])]
    BY DEF StartLoad
  <2>2. /\ cmd' = [cmd EXCEPT ![r] = cmd'[r]]
        /\ cmd'[r] = IF c.save = <<>> THEN Tail(cmd[r])
                     ELSE <<[c EXCEPT !.layer = 1]>> \o Tail(cmd[r])
    BY <2>1 DEF Inv, BaseInv, TypeOK
  <2>3. QED
    BY <1>0, <2>2, ShiftsTail, ShiftsHead DEF Inv
<1>3. Forward(r, off, 1)
  <2>1. off = 1 => Range(cmd[r][1].save) = {}
    BY <1>0 DEF Range
  <2>2. \A l \in Layers : 1 <= l /\ ~(l < 1)
    BY DEF Layers
  <2>3. \A s \in Ranks, g \in Groups, l \in Layers : Queued(s, g, l) => Queued(s, g, l)'
    BY <1>1 DEF Queued
  <2>4. off = 1 \/ off = 0
    OBVIOUS
  <2> HIDE DEF off
  <2>5. QED
    BY <1>0, <1>1, <1>2, <2>1, <2>2, <2>3, <2>4 DEF Forward
<1>4. /\ Persists' /\ Unlinked' /\ OnDisk' /\ Everywhere' /\ Promised' /\ Landing'
      /\ Pushed' /\ Whole' /\ Held' /\ Marks' /\ ServedCmd' /\ Cut' /\ aborted' = aborted
      /\ \A s \in Ranks : \A i \in 1..Len(cmd'[s]) :
           /\ req'[cmd'[s][i].req].st = "running"
           /\ cmd'[s][i].load = req'[cmd'[s][i].req].load
           /\ cmd'[s][i].save = req'[cmd'[s][i].req].save
  <2> HIDE DEF off
  <2> QED BY <1>0, <1>3, ForwardKeepsData
<1>5. /\ cmd[r][1].req \in Reqs /\ req[cmd[r][1].req].st = "running"
      /\ Range(cmd[r][1].load) \subseteq Keys(cmd[r][1].req)
  BY <1>0, Entries, LiveKeys DEF Inv, DataInv, Owned
<1>6. Owned'
  <2>1. Owned
    BY DEF Inv, DataInv
  <2>2. \A q : Keys(q)' = Keys(q)
    BY <1>1 DEF Keys
  <2>3. ASSUME NEW s \in Ranks, NEW i \in 1..Len(hi'[s])
        PROVE  /\ req[hi'[s][i].req].st = "running"
               /\ hi'[s][i].op = "get"
               /\ hi'[s][i].gs \subseteq Keys(hi'[s][i].req)
    BY <1>5, <2>1, StartLoadHi DEF Owned
  <2>4. ASSUME NEW s \in Ranks, NEW i \in 1..Len(lo[s])
        PROVE  /\ req[lo[s][i].req].st = "running"
               /\ lo[s][i].gs \subseteq Keys(lo[s][i].req)
               /\ lo[s][i].op = "put" => lo[s][i].gs \subseteq Range(req[lo[s][i].req].save)
    BY <2>1 DEF Owned
  <2>5. QED
    BY <1>1, <1>4, <2>3, <2>4 DEF Owned, Keys
<1>7. ServedHi'
  <2> SUFFICES ASSUME NEW s \in Ranks, NEW i \in 1..Len(hi'[s]), NEW g \in hi'[s][i].gs,
                      NEW l \in Layers, hi'[s][i].layer = l
               PROVE  g \in persisted[s] \/ Ready(s, g, l)
    BY <1>1 DEF ServedHi, Ready, Queued
  <2>1. CASE i \in 1..Len(hi[s]) /\ hi'[s][i] = hi[s][i]
    BY <2>1 DEF Inv, DataInv, ServedHi
  <2>2. CASE s = r /\ hi'[s][i].gs = Range(cmd[r][1].load)
    <3>1. ~\E j \in 1..Len(cmd[r]) : j < 1
      OBVIOUS
    <3>2. QED
      BY <1>0, <2>2, <3>1 DEF Inv, DataInv, ServedCmd
  <2>3. QED
    BY <2>1, <2>2, StartLoadHi
<1>8. ServedLo'
  BY <1>1 DEF Inv, DataInv, ServedLo
<1>9. QED
  BY <1>4, <1>6, <1>7, <1>8 DEF Inv, DataInv

\* The saves of one layer are queued behind what is queued.
LEMMA SaveLayerLo ==
  ASSUME Inv, NEW r \in Ranks, SaveLayer(r), NEW s \in Ranks
  PROVE  /\ \A i \in 1..Len(lo[s]) : i \in 1..Len(lo'[s]) /\ lo'[s][i] = lo[s][i]
         /\ s # r => lo'[s] = lo[s]
         /\ LET n == Len(lo[r]) + 1
            IN  s = r => /\ n \in Nat /\ n \in 1..Len(lo'[r])
                         /\ \A i \in 1..Len(lo'[r]) : i \in 1..Len(lo[r]) \/ i = n
                         /\ lo'[r][n].op = "put" /\ lo'[r][n].req = cmd[r][1].req
                         /\ lo'[r][n].gs = Range(cmd[r][1].save)
                         /\ lo'[r][n].layer = cmd[r][1].layer
<1> DEFINE c == Head(cmd[r])
           t == [op |-> "put", req |-> c.req, gs |-> Range(c.save), layer |-> c.layer]
<1>1. c = cmd[r][1] /\ t \in Task /\ lo' = [lo EXCEPT ![r] = Append(lo[r], t)]
  BY SaveLayerEffect DEF Inv
<1>2. /\ t.op = "put" /\ t.req = cmd[r][1].req /\ t.gs = Range(cmd[r][1].save)
      /\ t.layer = cmd[r][1].layer
  BY <1>1
<1>3. lo \in [Ranks -> Seq(Task)]
  BY DEF Inv, BaseInv, TypeOK
<1> HIDE DEF t
<1>4. CASE s # r
  BY <1>1, <1>3, <1>4
<1>5. CASE s = r
  <2>1. lo'[r] = Append(lo[r], t) /\ lo[r] \in Seq(Task)
    BY <1>1, <1>3
  <2>2. /\ Len(lo[r]) \in Nat /\ Len(lo'[r]) = Len(lo[r]) + 1 /\ lo'[r][Len(lo[r]) + 1] = t
        /\ \A i \in 1..Len(lo[r]) : lo'[r][i] = lo[r][i]
    BY <2>1
  <2>3. QED
    BY <1>2, <1>5, <2>2
<1>6. QED
  BY <1>4, <1>5

LEMMA SaveLayerKeepsData ==
  ASSUME Inv, TypeOK', NEW r \in Ranks, SaveLayer(r)
  PROVE  DataInv'
<1> DEFINE c == cmd[r][1]
           off == IF c.layer < NumLayers THEN 0 ELSE 1
           k == IF c.layer < NumLayers THEN c.layer + 1 ELSE 0
<1>0. /\ cmd[r] \in Seq(Step) /\ cmd[r] # <<>> /\ c = Head(cmd[r]) /\ c \in Step
      /\ c.save \in Seq(Groups) /\ Range(c.save) \subseteq Groups
      /\ Len(c.save) <= SubTicks /\ c.layer \in Layers
      /\ 1 \in 1..Len(cmd[r]) /\ Rank0 \in Ranks
      /\ \/ /\ c.layer < NumLayers
            /\ cmd' = [cmd EXCEPT ![r] = <<[Head(cmd[r]) EXCEPT !.layer = c.layer + 1]>>
                                           \o Tail(cmd[r])]
            /\ UNCHANGED <<rows, persisted, la>>
         \/ /\ c.layer = NumLayers
            /\ cmd' = [cmd EXCEPT ![r] = Tail(cmd[r])]
            /\ Submit(r, c.save)
  <2> DEFINE h == Head(cmd[r])
  <2>1. /\ cmd[r] \in Seq(Step) /\ cmd[r] # <<>> /\ h = cmd[r][1] /\ h \in Step
        /\ h.save \in Seq(Groups) /\ Range(h.save) \subseteq Groups
        /\ Len(h.save) <= SubTicks /\ h.layer \in Layers
    BY SaveLayerEffect DEF Inv
  <2>2. \/ /\ h.layer < NumLayers
           /\ cmd' = [cmd EXCEPT ![r] = <<[h EXCEPT !.layer = h.layer + 1]>> \o Tail(cmd[r])]
           /\ UNCHANGED <<rows, persisted, la>>
        \/ /\ h.layer = NumLayers
           /\ cmd' = [cmd EXCEPT ![r] = Tail(cmd[r])]
           /\ Submit(r, h.save)
    BY SaveLayerEffect DEF Inv
  <2>3. 1 \in 1..Len(cmd[r]) /\ Rank0 \in Ranks
    BY <2>1, ConstantsAssumption
  <2>4. QED
    BY <2>1, <2>2, <2>3
<1>1. /\ k \in 0..NumLayers /\ c.layer \in Nat /\ NumLayers \in Nat \ {0} /\ NumLayers \in Layers
      /\ \A l \in Layers : l \in Nat /\ l >= 1 /\ l <= NumLayers
      /\ (off = 0 /\ k = c.layer + 1 /\ c.layer < NumLayers) \/ (off = 1 /\ c.layer = NumLayers)
  BY <1>0, ConstantsAssumption DEF Layers
<1>2. UNCHANGED <<now, mem, memPersisted, disk, hi, req, evicting, unlinking, evictedUntil,
                  pause, persisting, aborted>>
  BY DEF SaveLayer, memVars, evictVars, operVars
<1>3. cmd' = [cmd EXCEPT ![r] = cmd'[r]] /\ Shifts(r, off, k)
  <2>1. CASE off = 0
    <3>1. cmd' = [cmd EXCEPT ![r] = <<[Head(cmd[r]) EXCEPT !.layer = c.layer + 1]>> \o Tail(cmd[r])]
      <4>1. c.layer # NumLayers
        BY <1>1, <2>1
      <4> HIDE DEF c, off, k
      <4>2. QED
        BY <1>0, <4>1, Zenon
    <3>2. /\ cmd' = [cmd EXCEPT ![r] = cmd'[r]]
          /\ cmd'[r] = <<[Head(cmd[r]) EXCEPT !.layer = k]>> \o Tail(cmd[r])
      <4>1. k = c.layer + 1
        BY <1>1, <2>1
      <4> HIDE DEF k, off
      <4>2. cmd' = [cmd EXCEPT ![r] = <<[Head(cmd[r]) EXCEPT !.layer = k]>> \o Tail(cmd[r])]
        BY <3>1, <4>1
      <4>3. cmd \in [Ranks -> Seq(Step)]
        BY DEF Inv, BaseInv, TypeOK
      <4>4. QED
        BY <4>2, <4>3
    <3>3. QED
      <4> HIDE DEF off, k
      <4> QED BY <1>0, <1>1, <2>1, <3>2, ShiftsHead DEF Inv
  <2>2. CASE off = 1
    <3>1. cmd' = [cmd EXCEPT ![r] = Tail(cmd[r])]
      BY <1>0, <1>1, <2>2
    <3>2. cmd' = [cmd EXCEPT ![r] = cmd'[r]] /\ cmd'[r] = Tail(cmd[r])
      BY <3>1 DEF Inv, BaseInv, TypeOK
    <3>3. QED
      <4> HIDE DEF off, k
      <4> QED BY <1>0, <2>2, <3>2, ShiftsTail DEF Inv
  <2>3. QED
    BY <1>1, <2>1, <2>2
<1>4. /\ off = 0 => UNCHANGED <<rows, persisted, la>>
      /\ off = 1 => Submit(r, c.save)
  BY <1>0, <1>1
<1>5. ASSUME NEW s \in Ranks, NEW g, NEW l
      PROVE  /\ Queued(s, g, l) => Queued(s, g, l)'
             /\ Ready(s, g, l) => Ready(s, g, l)'
             /\ s = r /\ g \in Range(c.save) /\ l = c.layer => Queued(s, g, l)'
  <2>1. Queued(s, g, l) => Queued(s, g, l)'
    BY SaveLayerLo DEF Queued
  <2>2. s = r /\ g \in Range(c.save) /\ l = c.layer => Queued(s, g, l)'
    BY SaveLayerLo DEF Queued
  <2>3. QED
    BY <1>2, <2>1, <2>2 DEF Ready
<1>6. ASSUME NEW g \in Range(c.save), NEW l \in Layers, l <= c.layer
      PROVE  Ready(r, g, l)'
  <2>1. CASE l = c.layer
    BY <1>5, <2>1 DEF Ready
  <2>2. CASE l < c.layer
    <3>1. Ready(r, g, l)
      BY <1>0, <2>2 DEF Inv, DataInv, Pushed
    <3>2. QED
      BY <1>5, <3>1
  <2>3. QED
    BY <1>1, <1>6, <2>1, <2>2
<1>7. Forward(r, off, k)
  <2>1. \A s \in Ranks, g \in Groups, l \in Layers : Queued(s, g, l) => Queued(s, g, l)'
    BY <1>5
  <2>2. ASSUME NEW g \in Range(c.save), NEW l \in Layers
        PROVE  /\ c.layer <= l => Ready(r, g, l)' \/ (off = 0 /\ k <= l)
               /\ off = 0 /\ l < k => Ready(r, g, l)'
               /\ off = 1 => Ready(r, g, l)'
    <3>1. l <= c.layer => Ready(r, g, l)'
      BY <1>6
    <3>2. /\ l \in Nat /\ c.layer \in Nat /\ l <= NumLayers /\ NumLayers \in Nat
          /\ (off = 0 /\ k = c.layer + 1) \/ (off = 1 /\ c.layer = NumLayers)
      <4> HIDE DEF off, k
      <4> QED BY <1>1
    <3> HIDE DEF off, k, c
    <3>3. c.layer <= l => Ready(r, g, l)' \/ (off = 0 /\ k <= l)
      BY <3>1, <3>2
    <3>4. off = 0 /\ l < k => Ready(r, g, l)'
      BY <3>1, <3>2
    <3>5. off = 1 => Ready(r, g, l)'
      BY <3>1, <3>2
    <3>6. QED
      BY <3>3, <3>4, <3>5
  <2>3. /\ \A s \in Ranks : persisted'[s] \subseteq persisted[s] /\ rows[s] \subseteq rows'[s]
        /\ \A s \in Ranks, g \in Groups :
             \/ (g \in persisted'[s] <=> g \in persisted[s]) /\ (g \in rows'[s] <=> g \in rows[s])
             \/ s = r /\ off = 1 /\ g \in Range(c.save)
    <3>1. CASE off = 0
      BY <1>4, <3>1
    <3>2. CASE off = 1
      <4> HIDE DEF c, off, k
      <4>1. /\ rows' = [rows EXCEPT ![r] = @ \cup Range(c.save)]
            /\ persisted' = [persisted EXCEPT ![r] = @ \ Range(c.save)]
        BY <1>4, <3>2 DEF Submit
      <4>2. QED
        BY <3>2, <4>1 DEF Inv, BaseInv, TypeOK
    <3>3. QED
      BY <1>1, <3>1, <3>2
  <2>4. ASSUME NEW g \in Groups
        PROVE  /\ la'[g] = la[g] \/ la'[g] > evictedUntil
               /\ off = 1 /\ r = Rank0 /\ g \in Range(c.save) => la'[g] > evictedUntil
    <3>1. now \in Nat /\ now * SubTicks \in Nat /\ evictedUntil \in Nat
          /\ evictedUntil < now * SubTicks
      BY NextTick DEF Inv, BaseInv, TypeOK, DataInv, Cut
    <3>2. g \in Range(c.save) => Stamp(c.save, g) \in Nat /\ Stamp(c.save, g) >= now * SubTicks
      BY <1>0, <3>1, StampBound
    <3>3. off = 1 => la'[g] = IF r = Rank0 /\ g \in Range(c.save) THEN Stamp(c.save, g) ELSE la[g]
      BY <1>4 DEF Submit
    <3>4. off = 0 => la'[g] = la[g]
      BY <1>4
    <3>5. QED
      <4> HIDE DEF off, k, c
      <4> QED BY <1>1, <3>1, <3>2, <3>3, <3>4
  <2>5. ASSUME off = 1, NEW g \in Range(c.save)
        PROVE  g \in rows'[r] /\ g \notin persisted'[r] /\ \E l \in Layers : Queued(r, g, l)'
    <3>1. g \in rows'[r] /\ g \notin persisted'[r]
      BY <1>4, <2>5 DEF Submit, Inv, BaseInv, TypeOK
    <3>2. QED
      BY <1>0, <1>5, <3>1
  <2>6. QED
    <3> HIDE DEF off, k
    <3> QED BY <1>0, <1>2, <1>3, <2>1, <2>2, <2>3, <2>4, <2>5 DEF Forward
<1>8. /\ Persists' /\ Unlinked' /\ OnDisk' /\ Everywhere' /\ Promised' /\ Landing'
      /\ Pushed' /\ Whole' /\ Held' /\ Marks' /\ ServedCmd' /\ Cut' /\ aborted' = aborted
      /\ \A s \in Ranks : \A i \in 1..Len(cmd'[s]) :
           /\ req'[cmd'[s][i].req].st = "running"
           /\ cmd'[s][i].load = req'[cmd'[s][i].req].load
           /\ cmd'[s][i].save = req'[cmd'[s][i].req].save
  <2> HIDE DEF off, k
  <2> QED BY <1>1, <1>7, ForwardKeepsData
<1>9. /\ c.req \in Reqs /\ req[c.req].st = "running"
      /\ c.save = req[c.req].save
      /\ Range(c.save) \subseteq Keys(c.req)
  <2>1. 1 \in 1..Len(cmd[r])
    BY <1>0
  <2>2. c.req \in Reqs
    BY <2>1, Entries DEF Inv
  <2>3. req[c.req].st = "running" /\ c.save = req[c.req].save
    BY <2>1 DEF Inv, DataInv, Owned
  <2>4. QED
    BY <2>2, <2>3, LiveKeys
<1>10. Owned'
  <2>1. Owned
    BY DEF Inv, DataInv
  <2>2. ASSUME NEW s \in Ranks, NEW i \in 1..Len(lo'[s])
        PROVE  /\ req[lo'[s][i].req].st = "running"
               /\ lo'[s][i].gs \subseteq Keys(lo'[s][i].req)
               /\ lo'[s][i].op = "put" => lo'[s][i].gs \subseteq Range(req[lo'[s][i].req].save)
    <3>1. CASE i \in 1..Len(lo[s])
      BY <2>1, <3>1, SaveLayerLo DEF Owned
    <3>2. CASE s = r /\ i = Len(lo[r]) + 1
      BY <1>9, <3>2, SaveLayerLo
    <3>3. QED
      BY <3>1, <3>2, SaveLayerLo
  <2>3. ASSUME NEW s \in Ranks, NEW i \in 1..Len(hi[s])
        PROVE  /\ req[hi[s][i].req].st = "running"
               /\ hi[s][i].op = "get"
               /\ hi[s][i].gs \subseteq Keys(hi[s][i].req)
    BY <2>1 DEF Owned
  <2>4. QED
    BY <1>2, <1>8, <2>2, <2>3 DEF Owned, Keys
<1>11. ServedHi'
  <2> SUFFICES ASSUME NEW s \in Ranks, NEW i \in 1..Len(hi[s]), NEW g \in hi[s][i].gs,
                      NEW l \in Layers, hi[s][i].layer = l
               PROVE  g \in persisted'[s] \/ Ready(s, g, l)'
    BY <1>2 DEF ServedHi
  <2>1. g \in persisted[s] \/ Ready(s, g, l)
    BY DEF Inv, DataInv, ServedHi
  <2>2. g \in Groups
    BY Entries DEF Inv
  <2>3. g \in persisted[s] => g \in persisted'[s] \/ Ready(s, g, l)'
    <3> HIDE DEF off, k
    <3> QED BY <1>7, <2>2 DEF Forward
  <2>4. QED
    BY <1>5, <2>1, <2>3
<1>12. ServedLo'
  <2> SUFFICES ASSUME NEW s \in Ranks, NEW i \in 1..Len(lo'[s]), lo'[s][i].op = "get",
                      NEW g \in lo'[s][i].gs
               PROVE  \/ lo'[s][i].layer \in mem[s][g]
                      \/ \E j \in 1..Len(lo'[s]) :
                           /\ j < i /\ lo'[s][j].op = "put"
                           /\ g \in lo'[s][j].gs /\ lo'[s][j].layer = lo'[s][i].layer
    BY <1>2 DEF ServedLo
  <2>1. i \in 1..Len(lo[s])
    BY SaveLayerLo
  <2>2. lo'[s][i] = lo[s][i]
    BY <2>1, SaveLayerLo
  <2>3. \/ lo[s][i].layer \in mem[s][g]
        \/ \E j \in 1..Len(lo[s]) : /\ j < i /\ lo[s][j].op = "put"
                                    /\ g \in lo[s][j].gs /\ lo[s][j].layer = lo[s][i].layer
    BY <2>1, <2>2 DEF Inv, DataInv, ServedLo
  <2>4. QED
    BY <2>2, <2>3, SaveLayerLo
<1>13. QED
  BY <1>8, <1>10, <1>11, <1>12 DEF Inv, DataInv

-----------------------------------------------------------------------------
(* OMP-Main.                                                               *)

\* What the three kinds of task have in common: layers of groups that a
\* running request loads from disk or saves come into the Mem of rank r, and
\* nothing that was ready is lost.
Lands(r, q) ==
  /\ UNCHANGED <<now, rows, persisted, la, disk, cmd, req, evicting, unlinking, evictedUntil,
                 pause, persisting>>
  /\ req[q].st = "running"
  /\ \A s \in Ranks, g \in Groups :
       /\ mem[s][g] \subseteq mem'[s][g]
       /\ \/ mem'[s][g] = mem[s][g]
          \/ /\ s = r /\ g \in Keys(q)
             /\ g \in persisted[r] \/ g \in Range(req[q].save)
       /\ \A l \in Layers : Queued(s, g, l) => Ready(s, g, l)'

LEMMA LandsKeepsData ==
  ASSUME Inv, NEW r \in Ranks, NEW q \in Reqs, Lands(r, q)
  PROVE  /\ Persists' /\ Unlinked' /\ OnDisk' /\ Everywhere' /\ Promised' /\ Landing'
         /\ Pushed' /\ Whole' /\ Held' /\ ServedCmd' /\ Cut'
<1>0. /\ UNCHANGED <<now, rows, persisted, la, disk, cmd, req, evicting, unlinking, evictedUntil,
                     pause, persisting>>
      /\ Rank0 \in Ranks
  BY ConstantsAssumption DEF Lands
<1>1. Persists' /\ OnDisk' /\ Promised'
  BY <1>0 DEF Inv, DataInv, Persists, OnDisk, Promised
<1>2. Everywhere'
  BY <1>0 DEF Inv, DataInv, Everywhere, Unsubmitted
<1>3. Unlinked'
  <2> SUFFICES ASSUME NEW s \in Ranks \ unlinking, NEW g \in evicting PROVE mem'[s][g] = {}
    BY <1>0 DEF Unlinked
  <2>1. g \in Groups /\ g \notin Keys(q)
    BY LiveKeys DEF Inv, BaseInv, TypeOK
  <2>2. mem'[s][g] = mem[s][g]
    BY <2>1 DEF Lands
  <2>3. QED
    BY <2>2 DEF Inv, DataInv, Unlinked
<1>4. ASSUME NEW s \in Ranks, NEW g \in Groups, NEW l \in Layers
      PROVE  /\ Ready(s, g, l) => Ready(s, g, l)'
             /\ Due(s, g, l) => Due(s, g, l)'
  <2>1. Ready(s, g, l) => Ready(s, g, l)'
    BY DEF Lands, Ready
  <2>2. QED
    BY <1>0, <2>1 DEF Due
<1>5. \A s, g : Unsubmitted(s, g)' <=> Unsubmitted(s, g)
  BY <1>0 DEF Unsubmitted
<1>6. Landing'
  <2> SUFFICES ASSUME NEW k \in Reqs, req[k].st = "running", NEW g \in Range(req[k].save),
                      NEW s \in Ranks
               PROVE  /\ \A l \in Layers : Due(s, g, l)'
                      /\ Unsubmitted(s, g) \/ (g \in rows[s] /\ g \notin persisted[s])
    BY <1>0, <1>5 DEF Landing
  <2>1. g \in Groups
    BY LiveKeys
  <2>2. /\ \A l \in Layers : Due(s, g, l)
        /\ Unsubmitted(s, g) \/ (g \in rows[s] /\ g \notin persisted[s])
    BY DEF Inv, DataInv, Landing
  <2>3. QED
    BY <1>4, <2>1, <2>2
<1>7. Pushed'
  <2> SUFFICES ASSUME NEW s \in Ranks, NEW i \in 1..Len(cmd[s]),
                      NEW g \in Range(cmd[s][i].save), NEW l \in Layers, l < cmd[s][i].layer
               PROVE  Ready(s, g, l)'
    BY <1>0 DEF Pushed
  <2>1. Ready(s, g, l) /\ g \in Groups
    BY Entries DEF Inv, DataInv, Pushed
  <2>2. QED
    BY <1>4, <2>1
<1>8. Whole'
  <2> SUFFICES ASSUME NEW g \in rows[Rank0] \ evicting, NEW s \in Ranks, NEW l \in Layers
               PROVE  g \in persisted[s] \/ Due(s, g, l)'
    BY <1>0 DEF Whole
  <2>1. g \in Groups /\ (g \in persisted[s] \/ Due(s, g, l))
    BY <1>0 DEF Inv, DataInv, Whole, BaseInv, TypeOK
  <2>2. QED
    BY <1>4, <2>1
<1>9. ServedCmd'
  <2> SUFFICES ASSUME NEW s \in Ranks, NEW i \in 1..Len(cmd[s]),
                      NEW g \in Range(cmd[s][i].load), NEW l \in Layers
               PROVE  \/ g \in persisted[s]
                      \/ Ready(s, g, l)'
                      \/ \E j \in 1..Len(cmd[s]) :
                            j < i /\ g \in Range(cmd[s][j].save) /\ cmd[s][j].layer <= l
    BY <1>0 DEF ServedCmd
  <2>1. \/ g \in persisted[s]
        \/ Ready(s, g, l)
        \/ \E j \in 1..Len(cmd[s]) :
              j < i /\ g \in Range(cmd[s][j].save) /\ cmd[s][j].layer <= l
    BY DEF Inv, DataInv, ServedCmd
  <2>2. g \in Groups
    BY Entries DEF Inv
  <2>3. QED
    BY <1>4, <2>1, <2>2
<1>10. Held'
  <2> SUFFICES ASSUME NEW s \in Ranks, NEW g \in Groups, mem'[s][g] # {}
               PROVE  /\ \A l \in Layers : g \in persisted[s] \/ Due(s, g, l)'
                      /\ g \notin evicting => g \in rows[s] \/ Unsubmitted(s, g)
    BY <1>0, <1>5 DEF Held
  <2>1. CASE mem[s][g] # {}
    <3>1. /\ \A l \in Layers : g \in persisted[s] \/ Due(s, g, l)
          /\ g \notin evicting => g \in rows[s] \/ Unsubmitted(s, g)
      BY <2>1 DEF Inv, DataInv, Held
    <3>2. QED
      BY <1>4, <3>1
  <2>2. CASE mem[s][g] = {}
    <3>1. s = r /\ (g \in persisted[r] \/ g \in Range(req[q].save)) /\ req[q].st = "running"
      BY <2>2 DEF Lands
    <3>2. CASE g \in persisted[r]
      BY <3>1, <3>2 DEF Inv, DataInv, OnDisk
    <3>3. CASE g \in Range(req[q].save)
      <4>1. /\ \A l \in Layers : Due(r, g, l)
            /\ Unsubmitted(r, g) \/ (g \in rows[r] /\ g \notin persisted[r])
        BY <3>1, <3>3 DEF Inv, DataInv, Landing
      <4>2. QED
        BY <1>4, <3>1, <4>1
    <3>4. QED
      BY <3>1, <3>2, <3>3
  <2>3. QED
    BY <2>1, <2>2
<1>11. Cut'
  <2>1. Cut
    BY DEF Inv, DataInv
  <2>2. ASSUME NEW g \in Groups \ evicting, mem'[Rank0][g] # {}
        PROVE  (g \in rows[Rank0] /\ la[g] > evictedUntil) \/ Unsubmitted(Rank0, g)
    <3>1. CASE mem[Rank0][g] # {}
      BY <2>1, <3>1 DEF Cut
    <3>2. CASE mem[Rank0][g] = {}
      <4>1. Rank0 = r /\ g \in Keys(q) /\ req[q].st = "running"
            /\ (g \in persisted[r] \/ g \in Range(req[q].save))
        BY <1>0, <2>2, <3>2 DEF Lands
      <4>2. g \in rows[Rank0] \/ Unsubmitted(Rank0, g)
        BY <4>1 DEF Inv, DataInv, OnDisk, Landing
      <4>3. ASSUME g \in rows[Rank0] PROVE la[g] > evictedUntil
        <5>1. la[g] >= req[q].start * SubTicks
          BY <4>1, <4>3 DEF Inv, LeaseInv, Leased
        <5>2. evictedUntil < req[q].start * SubTicks
          BY <2>1, <4>1 DEF Cut
        <5>3. la[g] \in Nat /\ evictedUntil \in Nat /\ req[q].start \in Nat
          BY LiveKeys DEF ReqState, Inv, BaseInv, TypeOK
        <5>4. req[q].start * SubTicks \in Nat
          BY <5>3, NextTick
        <5>5. QED
          BY <5>1, <5>2, <5>3, <5>4
      <4>4. QED
        BY <4>2, <4>3
    <3>3. QED
      BY <3>1, <3>2
  <2>3. QED
    BY <1>0, <1>5, <2>1, <2>2 DEF Cut
<1>12. QED
  BY <1>1, <1>2, <1>3, <1>6, <1>7, <1>8, <1>9, <1>10, <1>11

\* A get delivers what is there and what the database calls persisted.
LEMMA GetFinds ==
  ASSUME Inv, NEW r \in Ranks, NEW t \in Task, GetStep(r, t)
  PROVE  /\ ~FileMissing(r, t)
         /\ \A g \in t.gs : g \in persisted[r] => t.layer \in mem'[r][g]
         /\ \A s \in Ranks, g \in Groups :
              /\ mem[s][g] \subseteq mem'[s][g]
              /\ mem'[s][g] = mem[s][g] \/ (s = r /\ g \in t.gs /\ g \in persisted[r])
         /\ \A s \in Ranks : \A g \in memPersisted'[s] : g \in memPersisted[s] \/ g \in persisted[s]
<1>0. TypeOK /\ t.layer \in Layers /\ t.gs \subseteq Groups
  BY DEF Inv, BaseInv, Task
<1>1. /\ \A s \in Ranks \ {r} : mem'[s] = mem[s] /\ memPersisted'[s] = memPersisted[s]
      /\ \A g \in Groups : mem'[r][g] =
           IF g \in FromDisk(r, t) THEN mem[r][g] \cup {t.layer} ELSE mem[r][g]
      /\ memPersisted'[r] = memPersisted[r] \cup FromDisk(r, t)
  BY <1>0, GetStepEffect
<1>2. ~FileMissing(r, t)
  BY <1>0 DEF FileMissing, FromDisk, Inv, DataInv, OnDisk
<1>3. FromDisk(r, t) = {g \in t.gs : t.layer \notin mem[r][g] /\ g \in persisted[r]}
  BY DEF FromDisk, Missing
<1>4. ASSUME NEW g \in t.gs, g \in persisted[r] PROVE t.layer \in mem'[r][g]
  BY <1>0, <1>1, <1>3, <1>4
<1>5. ASSUME NEW s \in Ranks, NEW g \in Groups
      PROVE  /\ mem[s][g] \subseteq mem'[s][g]
             /\ mem'[s][g] = mem[s][g] \/ (s = r /\ g \in t.gs /\ g \in persisted[r])
  <2>1. CASE s # r
    BY <1>1, <2>1
  <2>2. CASE s = r
    BY <1>1, <1>3, <2>2
  <2>3. QED
    BY <2>1, <2>2
<1>6. \A s \in Ranks : \A g \in memPersisted'[s] : g \in memPersisted[s] \/ g \in persisted[s]
  BY <1>1, <1>3
<1>7. QED
  BY <1>2, <1>4, <1>5, <1>6

\* A task leaves the queue it was at the head of.
LEMMA TailIndex ==
  ASSUME NEW s \in Seq(Task), s # <<>>
  PROVE  /\ Len(s) \in Nat \ {0} /\ 1 \in 1..Len(s) /\ Head(s) = s[1]
         /\ Len(Tail(s)) = Len(s) - 1
         /\ \A i \in 1..Len(Tail(s)) : i + 1 \in 1..Len(s) /\ Tail(s)[i] = s[i + 1]
         /\ \A i \in 1..Len(s) : i # 1 => i - 1 \in 1..Len(Tail(s)) /\ Tail(s)[i - 1] = s[i]
<1>1. Len(s) \in Nat \ {0} /\ Head(s) = s[1] /\ Len(Tail(s)) = Len(s) - 1
  OBVIOUS
<1>2. \A i \in 1..Len(Tail(s)) : i + 1 \in 1..Len(s) /\ Tail(s)[i] = s[i + 1]
  BY <1>1
<1>3. ASSUME NEW i \in 1..Len(s), i # 1
      PROVE  i - 1 \in 1..Len(Tail(s)) /\ Tail(s)[i - 1] = s[i]
  <2>1. i - 1 \in 1..Len(Tail(s)) /\ (i - 1) + 1 = i
    BY <1>1, <1>3
  <2>2. QED
    BY <1>2, <2>1
<1>4. QED
  BY <1>1, <1>2, <1>3

LEMMA RunLoadKeepsData ==
  ASSUME Inv, NEW r \in Ranks, RunLoad(r)
  PROVE  DataInv'
<1> DEFINE t == hi[r][1]
           q == t.req
           n == Len(lo[r]) + 1
<1>0. /\ hi[r] \in Seq(Task) /\ lo[r] \in Seq(Task) /\ hi[r] # <<>>
      /\ t = Head(hi[r]) /\ 1 \in 1..Len(hi[r]) /\ t \in Task
      /\ q \in Reqs /\ req[q].st = "running" /\ t.op = "get" /\ t.gs \subseteq Keys(q)
      /\ t.gs \subseteq Groups /\ t.layer \in Layers
  <2>1. hi[r] \in Seq(Task) /\ lo[r] \in Seq(Task) /\ hi[r] # <<>>
    BY Entries DEF Inv, RunLoad
  <2>2. t = Head(hi[r]) /\ 1 \in 1..Len(hi[r])
    BY <2>1, TailIndex
  <2>3. QED
    BY <2>1, <2>2, Entries DEF Inv, DataInv, Owned
<1>1. /\ GetStep(r, t) /\ aborted' = (aborted \/ FileMissing(r, t))
      /\ UNCHANGED <<now, rows, persisted, la, disk, cmd, req, evicting, unlinking, evictedUntil,
                     pause, persisting>>
      /\ hi' = [hi EXCEPT ![r] = Tail(hi[r])]
      /\ \/ lo' = lo /\ Missing(r, t) = FromDisk(r, t)
         \/ lo' = [lo EXCEPT ![r] = Append(lo[r], t)]
  <2> DEFINE h == Head(hi[r])
  <2>1. /\ GetStep(r, h) /\ aborted' = (aborted \/ FileMissing(r, h))
        /\ UNCHANGED <<now, rows, persisted, la, disk, cmd, req, evicting, unlinking, evictedUntil,
                       pause, persisting>>
        /\ hi' = [hi EXCEPT ![r] = Tail(hi[r])]
        /\ \/ lo' = lo /\ Missing(r, h) = FromDisk(r, h)
           \/ lo' = [lo EXCEPT ![r] = Append(lo[r], h)]
    BY DEF RunLoad, Retry, dbVars, evictVars, operVars
  <2>2. QED
    BY <1>0, <2>1
<1>2. /\ ~FileMissing(r, t)
      /\ \A g \in t.gs : g \in persisted[r] => t.layer \in mem'[r][g]
      /\ \A s \in Ranks, g \in Groups :
           /\ mem[s][g] \subseteq mem'[s][g]
           /\ mem'[s][g] = mem[s][g] \/ (s = r /\ g \in t.gs /\ g \in persisted[r])
      /\ \A s \in Ranks : \A g \in memPersisted'[s] : g \in memPersisted[s] \/ g \in persisted[s]
  <2> HIDE DEF t
  <2> QED BY <1>0, <1>1, GetFinds
<1>3. ~aborted'
  BY <1>1, <1>2 DEF Inv, DataInv
<1>4. ASSUME NEW s \in Ranks
      PROVE  /\ \A i \in 1..Len(lo[s]) : i \in 1..Len(lo'[s]) /\ lo'[s][i] = lo[s][i]
             /\ \A i \in 1..Len(lo'[s]) :
                  \/ i \in 1..Len(lo[s])
                  \/ s = r /\ i = n /\ lo'[s][i] = t
  <2> HIDE DEF t
  <2>1. lo \in [Ranks -> Seq(Task)]
    BY DEF Inv, BaseInv, TypeOK
  <2>2. CASE lo' = lo
    BY <2>2
  <2>3. CASE lo' = [lo EXCEPT ![r] = Append(lo[r], t)]
    <3>1. CASE s # r
      BY <2>1, <2>3, <3>1
    <3>2. CASE s = r
      <4>1. lo'[r] = Append(lo[r], t)
        BY <2>1, <2>3
      <4>2. /\ Len(lo[r]) \in Nat /\ Len(lo'[r]) = Len(lo[r]) + 1 /\ lo'[r][Len(lo[r]) + 1] = t
            /\ \A i \in 1..Len(lo[r]) : lo'[r][i] = lo[r][i]
        BY <1>0, <4>1
      <4>3. QED
        BY <3>2, <4>2
    <3>3. QED
      BY <3>1, <3>2
  <2>4. QED
    BY <1>1, <2>2, <2>3
<1>5. ASSUME NEW s \in Ranks
      PROVE  \A i \in 1..Len(hi'[s]) : \E j \in 1..Len(hi[s]) : hi'[s][i] = hi[s][j]
  <2>1. hi \in [Ranks -> Seq(Task)]
    BY DEF Inv, BaseInv, TypeOK
  <2>2. CASE s # r
    BY <1>1, <2>1, <2>2
  <2>3. CASE s = r
    <3>1. hi'[r] = Tail(hi[r])
      BY <1>1, <2>1
    <3>2. QED
      BY <1>0, <2>3, <3>1, TailIndex
  <2>4. QED
    BY <2>2, <2>3
<1>6. ASSUME NEW s \in Ranks, NEW g, NEW l PROVE Queued(s, g, l) => Queued(s, g, l)'
  BY <1>4 DEF Queued
<1>7. Lands(r, q)
  <2> HIDE DEF t
  <2> QED BY <1>0, <1>1, <1>2, <1>6 DEF Lands, Ready
<1>8. /\ Persists' /\ Unlinked' /\ OnDisk' /\ Everywhere' /\ Promised' /\ Landing'
      /\ Pushed' /\ Whole' /\ Held' /\ ServedCmd' /\ Cut'
  BY <1>0, <1>7, LandsKeepsData
<1>9. Owned'
  <2>1. Owned
    BY DEF Inv, DataInv
  <2>2. ASSUME NEW s \in Ranks, NEW i \in 1..Len(hi'[s])
        PROVE  /\ req[hi'[s][i].req].st = "running"
               /\ hi'[s][i].op = "get"
               /\ hi'[s][i].gs \subseteq Keys(hi'[s][i].req)
    BY <1>5, <2>1 DEF Owned
  <2>3. ASSUME NEW s \in Ranks, NEW i \in 1..Len(lo'[s])
        PROVE  /\ req[lo'[s][i].req].st = "running"
               /\ lo'[s][i].gs \subseteq Keys(lo'[s][i].req)
               /\ lo'[s][i].op = "put" => lo'[s][i].gs \subseteq Range(req[lo'[s][i].req].save)
    <3>1. CASE i \in 1..Len(lo[s])
      BY <1>4, <2>1, <3>1 DEF Owned
    <3>2. CASE lo'[s][i] = t
      BY <1>0, <3>2
    <3>3. QED
      BY <1>4, <3>1, <3>2
  <2>4. ASSUME NEW s \in Ranks, NEW i \in 1..Len(cmd[s])
        PROVE  /\ req[cmd[s][i].req].st = "running"
               /\ cmd[s][i].load = req[cmd[s][i].req].load
               /\ cmd[s][i].save = req[cmd[s][i].req].save
    BY <2>1 DEF Owned
  <2>5. UNCHANGED <<cmd, req>>
    BY <1>1
  <2> HIDE DEF t, q, n
  <2>6. QED
    BY <2>2, <2>3, <2>4, <2>5 DEF Owned, Keys
<1>10. Marks'
  <2> SUFFICES ASSUME NEW s \in Ranks, NEW g \in memPersisted'[s]
               PROVE  g \in persisted[s] \/ \E l \in Layers : Queued(s, g, l)'
    BY <1>1 DEF Marks
  <2>1. g \in persisted[s] \/ \E l \in Layers : Queued(s, g, l)
    BY <1>2 DEF Inv, DataInv, Marks
  <2>2. QED
    BY <1>6, <2>1
<1>11. ServedHi'
  <2> SUFFICES ASSUME NEW s \in Ranks, NEW i \in 1..Len(hi'[s]), NEW g \in hi'[s][i].gs,
                      NEW l \in Layers, hi'[s][i].layer = l
               PROVE  g \in persisted[s] \/ Ready(s, g, l)'
    BY <1>1 DEF ServedHi
  <2>1. PICK j \in 1..Len(hi[s]) : hi'[s][i] = hi[s][j]
    BY <1>5
  <2>2. g \in Groups /\ (g \in persisted[s] \/ Ready(s, g, l))
    BY <2>1, Entries DEF Inv, DataInv, ServedHi
  <2>3. QED
    BY <1>2, <1>6, <2>2 DEF Ready
<1>12. ServedLo'
  <2> SUFFICES ASSUME NEW s \in Ranks, NEW i \in 1..Len(lo'[s]), lo'[s][i].op = "get",
                      NEW g \in lo'[s][i].gs
               PROVE  \/ lo'[s][i].layer \in mem'[s][g]
                      \/ \E j \in 1..Len(lo'[s]) :
                           /\ j < i /\ lo'[s][j].op = "put"
                           /\ g \in lo'[s][j].gs /\ lo'[s][j].layer = lo'[s][i].layer
    BY DEF ServedLo
  <2>1. CASE i \in 1..Len(lo[s])
    <3>1. lo'[s][i] = lo[s][i] /\ g \in Groups
      BY <1>4, <2>1, Entries DEF Inv
    <3>2. \/ lo[s][i].layer \in mem[s][g]
          \/ \E j \in 1..Len(lo[s]) : /\ j < i /\ lo[s][j].op = "put"
                                      /\ g \in lo[s][j].gs /\ lo[s][j].layer = lo[s][i].layer
      BY <2>1, <3>1 DEF Inv, DataInv, ServedLo
    <3>3. QED
      BY <1>2, <1>4, <3>1, <3>2
  <2>2. CASE s = r /\ i = n /\ lo'[s][i] = t
    <3>1. g \in t.gs /\ g \in Groups
      BY <1>0, <2>2
    <3>2. g \in persisted[r] \/ Ready(r, g, t.layer)
      BY <1>0, <3>1 DEF Inv, DataInv, ServedHi
    <3>3. CASE t.layer \in mem'[r][g]
      BY <2>2, <3>3
    <3>4. CASE Queued(r, g, t.layer)
      <4>1. PICK j \in 1..Len(lo[r]) : /\ lo[r][j].op = "put" /\ g \in lo[r][j].gs
                                       /\ lo[r][j].layer = t.layer
        BY <3>4 DEF Queued
      <4>2. j \in 1..Len(lo'[r]) /\ lo'[r][j] = lo[r][j] /\ j < n
        BY <1>0, <1>4, <4>1
      <4>3. QED
        BY <2>2, <4>1, <4>2
    <3>5. QED
      BY <1>2, <3>1, <3>2, <3>3, <3>4 DEF Ready
  <2>3. QED
    BY <1>4, <2>1, <2>2
<1>13. QED
  BY <1>3, <1>8, <1>9, <1>10, <1>11, <1>12 DEF DataInv

\* A task at the head of the saves' level leaves it.
LEMMA LoTail ==
  ASSUME Inv, NEW r \in Ranks, lo[r] # <<>>, lo' = [lo EXCEPT ![r] = Tail(lo[r])]
  PROVE  /\ lo[r] \in Seq(Task) /\ 1 \in 1..Len(lo[r]) /\ Head(lo[r]) = lo[r][1]
         /\ \A s \in Ranks \ {r} : lo'[s] = lo[s]
         /\ \A i \in 1..Len(lo'[r]) : i \in Nat /\ i + 1 \in 1..Len(lo[r]) /\ lo'[r][i] = lo[r][i + 1]
         /\ \A i \in 1..Len(lo[r]) :
              i \in Nat /\ (i # 1 => i - 1 \in 1..Len(lo'[r]) /\ lo'[r][i - 1] = lo[r][i])
<1>1. lo \in [Ranks -> Seq(Task)]
  BY DEF Inv, BaseInv, TypeOK
<1>2. lo[r] \in Seq(Task) /\ lo'[r] = Tail(lo[r]) /\ \A s \in Ranks \ {r} : lo'[s] = lo[s]
  BY <1>1
<1>3. /\ Len(lo[r]) \in Nat \ {0} /\ 1 \in 1..Len(lo[r]) /\ Head(lo[r]) = lo[r][1]
      /\ \A i \in 1..Len(Tail(lo[r])) : i + 1 \in 1..Len(lo[r]) /\ Tail(lo[r])[i] = lo[r][i + 1]
      /\ \A i \in 1..Len(lo[r]) :
           i # 1 => i - 1 \in 1..Len(Tail(lo[r])) /\ Tail(lo[r])[i - 1] = lo[r][i]
  BY <1>2, TailIndex
<1>4. \A m : \A i \in 1..m : i \in Nat
  OBVIOUS
<1>5. QED
  BY <1>2, <1>3, <1>4

LEMMA RunRetryKeepsData ==
  ASSUME Inv, NEW r \in Ranks, RunRetry(r)
  PROVE  DataInv'
<1> DEFINE t == lo[r][1]
           q == t.req
<1>0. /\ lo[r] # <<>> /\ lo' = [lo EXCEPT ![r] = Tail(lo[r])]
      /\ UNCHANGED <<now, rows, persisted, la, disk, cmd, hi, req, evicting, unlinking,
                     evictedUntil, pause, persisting>>
  BY DEF RunRetry, dbVars, evictVars, operVars
<1>1. /\ lo[r] \in Seq(Task) /\ t = Head(lo[r]) /\ 1 \in 1..Len(lo[r]) /\ t \in Task
      /\ q \in Reqs /\ req[q].st = "running" /\ t.op = "get" /\ t.gs \subseteq Keys(q)
      /\ t.gs \subseteq Groups /\ t.layer \in Layers
  <2>1. lo[r] \in Seq(Task) /\ t = Head(lo[r]) /\ 1 \in 1..Len(lo[r])
    BY <1>0, LoTail
  <2>2. t.op = "get"
    BY <2>1 DEF RunRetry
  <2>3. QED
    BY <2>1, <2>2, Entries DEF Inv, DataInv, Owned
<1>2. /\ GetStep(r, t)
      /\ aborted' = (aborted \/ FileMissing(r, t) \/ Missing(r, t) # FromDisk(r, t))
  BY <1>1 DEF RunRetry
<1>3. /\ ~FileMissing(r, t)
      /\ \A g \in t.gs : g \in persisted[r] => t.layer \in mem'[r][g]
      /\ \A s \in Ranks, g \in Groups :
           /\ mem[s][g] \subseteq mem'[s][g]
           /\ mem'[s][g] = mem[s][g] \/ (s = r /\ g \in t.gs /\ g \in persisted[r])
      /\ \A s \in Ranks : \A g \in memPersisted'[s] : g \in memPersisted[s] \/ g \in persisted[s]
  <2> HIDE DEF t
  <2> QED BY <1>1, <1>2, GetFinds
<1>4. ~aborted'
  <2>1. Missing(r, t) = {}
    <3> SUFFICES ASSUME NEW g \in t.gs PROVE t.layer \in mem[r][g]
      BY DEF Missing
    <3>1. ~\E j \in 1..Len(lo[r]) : j < 1
      BY <1>1
    <3>2. QED
      BY <1>1, <3>1 DEF Inv, DataInv, ServedLo
  <2>2. FromDisk(r, t) = {}
    BY <2>1 DEF FromDisk
  <2>3. QED
    BY <1>2, <1>3, <2>1, <2>2 DEF Inv, DataInv
<1>5. ASSUME NEW s \in Ranks, NEW g, NEW l, Queued(s, g, l) PROVE Queued(s, g, l)'
  <2>1. CASE s # r
    BY <1>0, <1>5, <2>1, LoTail DEF Queued
  <2>2. CASE s = r
    <3>1. PICK j \in 1..Len(lo[r]) : /\ lo[r][j].op = "put" /\ g \in lo[r][j].gs
                                     /\ lo[r][j].layer = l
      BY <1>5, <2>2 DEF Queued
    <3>2. j # 1
      BY <1>1, <3>1
    <3>3. j - 1 \in 1..Len(lo'[r]) /\ lo'[r][j - 1] = lo[r][j]
      BY <1>0, <3>2, LoTail
    <3>4. QED
      BY <2>2, <3>1, <3>3 DEF Queued
  <2>3. QED
    BY <2>1, <2>2
<1>6. Lands(r, q)
  <2> HIDE DEF t
  <2> QED BY <1>0, <1>1, <1>3, <1>5 DEF Lands, Ready
<1>7. /\ Persists' /\ Unlinked' /\ OnDisk' /\ Everywhere' /\ Promised' /\ Landing'
      /\ Pushed' /\ Whole' /\ Held' /\ ServedCmd' /\ Cut'
  BY <1>1, <1>6, LandsKeepsData
<1>8. Owned'
  <2>1. Owned
    BY DEF Inv, DataInv
  <2>2. ASSUME NEW s \in Ranks, NEW i \in 1..Len(lo'[s])
        PROVE  /\ req[lo'[s][i].req].st = "running"
               /\ lo'[s][i].gs \subseteq Keys(lo'[s][i].req)
               /\ lo'[s][i].op = "put" => lo'[s][i].gs \subseteq Range(req[lo'[s][i].req].save)
    <3>1. \E j \in 1..Len(lo[s]) : lo'[s][i] = lo[s][j]
      BY <1>0, LoTail
    <3>2. QED
      BY <2>1, <3>1 DEF Owned
  <2>3. UNCHANGED <<cmd, hi, req>>
    BY <1>0
  <2> HIDE DEF t, q
  <2>4. QED
    BY <2>1, <2>2, <2>3 DEF Owned, Keys
<1>9. Marks'
  <2> SUFFICES ASSUME NEW s \in Ranks, NEW g \in memPersisted'[s]
               PROVE  g \in persisted[s] \/ \E l \in Layers : Queued(s, g, l)'
    BY <1>0 DEF Marks
  <2>1. g \in persisted[s] \/ \E l \in Layers : Queued(s, g, l)
    BY <1>3 DEF Inv, DataInv, Marks
  <2>2. QED
    BY <1>5, <2>1
<1>10. ServedHi'
  <2> SUFFICES ASSUME NEW s \in Ranks, NEW i \in 1..Len(hi[s]), NEW g \in hi[s][i].gs,
                      NEW l \in Layers, hi[s][i].layer = l
               PROVE  g \in persisted[s] \/ Ready(s, g, l)'
    BY <1>0 DEF ServedHi
  <2>1. g \in Groups /\ (g \in persisted[s] \/ Ready(s, g, l))
    BY Entries DEF Inv, DataInv, ServedHi
  <2>2. QED
    BY <1>3, <1>5, <2>1 DEF Ready
<1>11. ServedLo'
  <2> SUFFICES ASSUME NEW s \in Ranks, NEW i \in 1..Len(lo'[s]), lo'[s][i].op = "get",
                      NEW g \in lo'[s][i].gs
               PROVE  \/ lo'[s][i].layer \in mem'[s][g]
                      \/ \E j \in 1..Len(lo'[s]) :
                           /\ j < i /\ lo'[s][j].op = "put"
                           /\ g \in lo'[s][j].gs /\ lo'[s][j].layer = lo'[s][i].layer
    BY DEF ServedLo
  <2>0. ServedLo
    BY DEF Inv, DataInv
  <2>1. CASE s # r
    <3>1. lo'[s] = lo[s] /\ i \in 1..Len(lo[s]) /\ g \in Groups
      BY <1>0, <2>1, LoTail, Entries DEF Inv
    <3>2. QED
      BY <1>3, <2>0, <3>1 DEF ServedLo
  <2>2. CASE s = r
    <3>1. i \in Nat /\ i + 1 \in 1..Len(lo[r]) /\ lo'[r][i] = lo[r][i + 1]
      BY <1>0, <2>2, LoTail
    <3>2. g \in lo[r][i + 1].gs /\ lo[r][i + 1].op = "get" /\ g \in Groups
      BY <2>2, <3>1, Entries DEF Inv
    <3>3. \/ lo[r][i + 1].layer \in mem[r][g]
          \/ \E j \in 1..Len(lo[r]) :
               /\ j < i + 1 /\ lo[r][j].op = "put"
               /\ g \in lo[r][j].gs /\ lo[r][j].layer = lo[r][i + 1].layer
      BY <2>0, <3>1, <3>2 DEF ServedLo
    <3>4. ASSUME NEW j \in 1..Len(lo[r]), j < i + 1, lo[r][j].op = "put",
                 g \in lo[r][j].gs, lo[r][j].layer = lo[r][i + 1].layer
          PROVE  \E m \in 1..Len(lo'[r]) :
                   /\ m < i /\ lo'[r][m].op = "put"
                   /\ g \in lo'[r][m].gs /\ lo'[r][m].layer = lo'[r][i].layer
      <4>1. j # 1
        BY <1>1, <3>4
      <4>2. j \in Nat /\ j - 1 \in 1..Len(lo'[r]) /\ lo'[r][j - 1] = lo[r][j]
        BY <1>0, <4>1, LoTail
      <4>3. j - 1 < i
        BY <3>1, <3>4, <4>2
      <4>4. QED
        BY <3>1, <3>4, <4>2, <4>3
    <3>5. QED
      BY <1>3, <2>2, <3>1, <3>2, <3>3, <3>4
  <2>3. QED
    BY <2>1, <2>2
<1>12. QED
  BY <1>4, <1>7, <1>8, <1>9, <1>10, <1>11 DEF DataInv

LEMMA RunPutKeepsData ==
  ASSUME Inv, NEW r \in Ranks, RunPut(r)
  PROVE  DataInv'
<1> DEFINE t == lo[r][1]
           q == t.req
<1>0. /\ lo[r] # <<>> /\ lo' = [lo EXCEPT ![r] = Tail(lo[r])]
      /\ UNCHANGED <<now, rows, persisted, la, disk, cmd, hi, req, evicting, unlinking,
                     evictedUntil, pause, persisting, aborted>>
  BY DEF RunPut, dbVars, evictVars, operVars
<1>1. /\ lo[r] \in Seq(Task) /\ t = Head(lo[r]) /\ 1 \in 1..Len(lo[r])
      /\ q \in Reqs /\ req[q].st = "running" /\ t.op = "put"
      /\ t.gs \subseteq Range(req[q].save)
      /\ t.gs \subseteq Groups /\ t.layer \in Layers
  <2>1. lo[r] \in Seq(Task) /\ t = Head(lo[r]) /\ 1 \in 1..Len(lo[r])
    BY <1>0, LoTail
  <2>2. t.op = "put"
    BY <2>1 DEF RunPut
  <2>3. QED
    BY <2>1, <2>2, Entries DEF Inv, DataInv, Owned
<1>2. /\ \A s \in Ranks \ {r} : mem'[s] = mem[s] /\ memPersisted'[s] = memPersisted[s]
      /\ \A g \in Groups : mem'[r][g] =
           IF g \in t.gs THEN mem[r][g] \cup {t.layer} ELSE mem[r][g]
      /\ memPersisted'[r] = memPersisted[r] \ t.gs
  <2>1. TypeOK
    BY DEF Inv, BaseInv
  <2>2. QED
    BY <1>1, <2>1, RunPutEffect
<1>3. ASSUME NEW s \in Ranks, NEW g \in Groups
      PROVE  /\ mem[s][g] \subseteq mem'[s][g]
             /\ mem'[s][g] = mem[s][g] \/ (s = r /\ g \in t.gs)
  <2>1. CASE s # r
    BY <1>2, <2>1
  <2>2. CASE s = r
    BY <1>2, <2>2
  <2>3. QED
    BY <2>1, <2>2
<1>4. ASSUME NEW s \in Ranks, NEW g, NEW l, Queued(s, g, l)
      PROVE  Queued(s, g, l)' \/ (s = r /\ g \in t.gs /\ l = t.layer)
  <2>1. CASE s # r
    BY <1>0, <1>4, <2>1, LoTail DEF Queued
  <2>2. CASE s = r
    <3>1. PICK j \in 1..Len(lo[r]) : /\ lo[r][j].op = "put" /\ g \in lo[r][j].gs
                                     /\ lo[r][j].layer = l
      BY <1>4, <2>2 DEF Queued
    <3>2. CASE j = 1
      BY <2>2, <3>1, <3>2
    <3>3. CASE j # 1
      <4>1. j - 1 \in 1..Len(lo'[r]) /\ lo'[r][j - 1] = lo[r][j]
        BY <1>0, <3>3, LoTail
      <4>2. QED
        BY <2>2, <3>1, <4>1 DEF Queued
    <3>4. QED
      BY <3>2, <3>3
  <2>3. QED
    BY <2>1, <2>2
<1>5. ASSUME NEW s \in Ranks, NEW g \in Groups, NEW l
      PROVE  Ready(s, g, l) => Ready(s, g, l)'
  <2>1. CASE l \in mem[s][g]
    BY <1>3, <2>1 DEF Ready
  <2>2. CASE Queued(s, g, l)
    <3>1. CASE Queued(s, g, l)'
      BY <3>1 DEF Ready
    <3>2. CASE s = r /\ g \in t.gs /\ l = t.layer
      BY <1>2, <3>2 DEF Ready
    <3>3. QED
      BY <1>4, <2>2, <3>1, <3>2
  <2>3. QED
    BY <2>1, <2>2 DEF Ready
<1>6. Lands(r, q)
  <2>1. \A s \in Ranks, g \in Groups : \A l \in Layers : Queued(s, g, l) => Ready(s, g, l)'
    BY <1>5 DEF Ready
  <2> HIDE DEF t, q
  <2>2. \A g \in t.gs : g \in Keys(q) /\ g \in Range(req[q].save)
    BY <1>1 DEF Keys
  <2>3. QED
    BY <1>0, <1>1, <1>3, <2>1, <2>2 DEF Lands
<1>7. /\ Persists' /\ Unlinked' /\ OnDisk' /\ Everywhere' /\ Promised' /\ Landing'
      /\ Pushed' /\ Whole' /\ Held' /\ ServedCmd' /\ Cut'
  BY <1>1, <1>6, LandsKeepsData
<1>8. Owned'
  <2>1. Owned
    BY DEF Inv, DataInv
  <2>2. ASSUME NEW s \in Ranks, NEW i \in 1..Len(lo'[s])
        PROVE  /\ req[lo'[s][i].req].st = "running"
               /\ lo'[s][i].gs \subseteq Keys(lo'[s][i].req)
               /\ lo'[s][i].op = "put" => lo'[s][i].gs \subseteq Range(req[lo'[s][i].req].save)
    <3>1. \E j \in 1..Len(lo[s]) : lo'[s][i] = lo[s][j]
      BY <1>0, LoTail
    <3>2. QED
      BY <2>1, <3>1 DEF Owned
  <2>3. UNCHANGED <<cmd, hi, req>>
    BY <1>0
  <2> HIDE DEF t, q
  <2>4. QED
    BY <2>1, <2>2, <2>3 DEF Owned, Keys
<1>9. Marks'
  <2> SUFFICES ASSUME NEW s \in Ranks, NEW g \in memPersisted'[s]
               PROVE  g \in persisted[s] \/ \E l \in Layers : Queued(s, g, l)'
    BY <1>0 DEF Marks
  <2>1. g \in memPersisted[s] /\ ~(s = r /\ g \in t.gs)
    BY <1>2
  <2>2. g \in persisted[s] \/ \E l \in Layers : Queued(s, g, l)
    BY <2>1 DEF Inv, DataInv, Marks
  <2>3. QED
    BY <1>4, <2>1, <2>2
<1>10. ServedHi'
  <2> SUFFICES ASSUME NEW s \in Ranks, NEW i \in 1..Len(hi[s]), NEW g \in hi[s][i].gs,
                      NEW l \in Layers, hi[s][i].layer = l
               PROVE  g \in persisted[s] \/ Ready(s, g, l)'
    BY <1>0 DEF ServedHi
  <2>1. g \in Groups /\ (g \in persisted[s] \/ Ready(s, g, l))
    BY Entries DEF Inv, DataInv, ServedHi
  <2>2. QED
    BY <1>5, <2>1
<1>11. ServedLo'
  <2> SUFFICES ASSUME NEW s \in Ranks, NEW i \in 1..Len(lo'[s]), lo'[s][i].op = "get",
                      NEW g \in lo'[s][i].gs
               PROVE  \/ lo'[s][i].layer \in mem'[s][g]
                      \/ \E j \in 1..Len(lo'[s]) :
                           /\ j < i /\ lo'[s][j].op = "put"
                           /\ g \in lo'[s][j].gs /\ lo'[s][j].layer = lo'[s][i].layer
    BY DEF ServedLo
  <2>0. ServedLo
    BY DEF Inv, DataInv
  <2>1. CASE s # r
    <3>1. lo'[s] = lo[s] /\ i \in 1..Len(lo[s]) /\ g \in Groups
      BY <1>0, <2>1, LoTail, Entries DEF Inv
    <3>2. QED
      BY <1>3, <2>0, <3>1 DEF ServedLo
  <2>2. CASE s = r
    <3>1. i \in Nat /\ i + 1 \in 1..Len(lo[r]) /\ lo'[r][i] = lo[r][i + 1]
      BY <1>0, <2>2, LoTail
    <3>2. g \in lo[r][i + 1].gs /\ lo[r][i + 1].op = "get" /\ g \in Groups
      BY <2>2, <3>1, Entries DEF Inv
    <3>3. \/ lo[r][i + 1].layer \in mem[r][g]
          \/ \E j \in 1..Len(lo[r]) :
               /\ j < i + 1 /\ lo[r][j].op = "put"
               /\ g \in lo[r][j].gs /\ lo[r][j].layer = lo[r][i + 1].layer
      BY <2>0, <3>1, <3>2 DEF ServedLo
    <3>4. ASSUME NEW j \in 1..Len(lo[r]), j < i + 1, lo[r][j].op = "put",
                 g \in lo[r][j].gs, lo[r][j].layer = lo[r][i + 1].layer
          PROVE  \/ lo'[r][i].layer \in mem'[r][g]
                 \/ \E m \in 1..Len(lo'[r]) :
                      /\ m < i /\ lo'[r][m].op = "put"
                      /\ g \in lo'[r][m].gs /\ lo'[r][m].layer = lo'[r][i].layer
      <4>1. CASE j = 1
        <5>1. g \in t.gs /\ t.layer = lo[r][i + 1].layer
          BY <3>4, <4>1
        <5> HIDE DEF t
        <5>2. t.layer \in mem'[r][g]
          BY <1>2, <3>2, <5>1
        <5>3. QED
          BY <3>1, <5>1, <5>2
      <4>2. CASE j # 1
        <5>1. j \in Nat /\ j - 1 \in 1..Len(lo'[r]) /\ lo'[r][j - 1] = lo[r][j]
          BY <1>0, <4>2, LoTail
        <5>2. j - 1 < i
          BY <3>1, <3>4, <5>1
        <5>3. QED
          BY <3>1, <3>4, <5>1, <5>2
      <4>3. QED
        BY <4>1, <4>2
    <3>5. QED
      BY <1>3, <2>2, <3>1, <3>2, <3>3, <3>4
  <2>3. QED
    BY <2>1, <2>2
<1>12. QED
  BY <1>0, <1>7, <1>8, <1>9, <1>10, <1>11 DEF Inv, DataInv

-----------------------------------------------------------------------------
(* The monitor thread.                                                     *)

\* Steps that change none of the state the invariant reads, except that the
\* operator's pause may change while no rank persists.
LEMMA SameData ==
  ASSUME Inv, persisting # {} => pause' = pause,
         UNCHANGED <<now, rows, persisted, la, mem, memPersisted, disk, cmd, hi, lo, req,
                     evicting, unlinking, evictedUntil, persisting, aborted>>
  PROVE  DataInv'
<1>1. Flow'
  BY SameFlow DEF Flow, Inv, DataInv
<1>2. Owned'
  BY DEF Inv, DataInv, Owned, Keys
<1>3. Persists' /\ Unlinked' /\ OnDisk' /\ Promised' /\ ~aborted'
  BY DEF Inv, DataInv, Persists, Unlinked, OnDisk, Promised
<1>4. Landing'
  BY DEF Inv, DataInv, Landing, Unsubmitted, Due, Ready, Queued
<1>5. Cut'
  BY DEF Inv, DataInv, Cut, Unsubmitted
<1>6. QED
  BY <1>1, <1>2, <1>3, <1>4, <1>5 DEF Flow, DataInv

LEMMA EvictBeginKeepsData ==
  ASSUME Inv, NEW max, NEW min, EvictBegin(max, min)
  PROVE  DataInv'
  BY SameData DEF EvictBegin, dbVars, memVars, queueVars, operVars

\* A save that has not been submitted belongs to a live request.
LEMMA UnsubmittedOwner ==
  ASSUME Inv, NEW r \in Ranks, NEW i \in 1..Len(cmd[r])
  PROVE  \E q \in Reqs : /\ req[q].st = "running"
                         /\ Range(cmd[r][i].save) \subseteq Keys(q)
                         /\ Range(cmd[r][i].load) \subseteq Keys(q)
<1>1. cmd[r][i].req \in Reqs
  BY Entries DEF Inv
<1>2. /\ req[cmd[r][i].req].st = "running"
      /\ cmd[r][i].load = req[cmd[r][i].req].load
      /\ cmd[r][i].save = req[cmd[r][i].req].save
  BY DEF Inv, DataInv, Owned
<1>3. QED
  BY <1>1, <1>2 DEF Keys

\* Selecting a batch takes nothing from a live request, and every resident
\* group it leaves lies above the new cut.
LEMMA SelectedCut ==
  ASSUME Inv, Selected # {}
  PROVE  LET cut == Max({la[g] : g \in Selected})
         IN  /\ cut \in Nat /\ cut < now * SubTicks
             /\ \A q \in Reqs : req[q].st # "idle" => cut < req[q].start * SubTicks
             /\ \A g \in Resident \ Selected : la[g] > cut
<1> DEFINE cut == Max({la[g] : g \in Selected})
<1>1. /\ Selected \subseteq Groups /\ cut \in Nat
      /\ \E g \in Selected : la[g] = cut
  BY CutOfSelected DEF Inv
<1> HIDE DEF cut
<1>2. PICK h \in Selected : la[h] = cut
  BY <1>1
<1>3. cut < Before
  BY <1>2, SelectedBelowLease DEF Inv, LeaseInv
<1>4. /\ now \in Nat /\ Lease \in Nat /\ SubTicks \in Nat /\ now - Lease \in Int
      /\ Before \in Int /\ now * SubTicks \in Int
  <2>1. now \in Nat /\ Lease \in Nat /\ SubTicks \in Nat
    BY ConstantsAssumption DEF Inv, BaseInv, TypeOK
  <2>2. QED
    BY <2>1, TimesInt DEF Before
<1>5. Before <= now * SubTicks
  BY <1>4, TimesMonotone DEF Before
<1>6. ASSUME NEW q \in Reqs, req[q].st # "idle" PROVE cut < req[q].start * SubTicks
  <2>1. req[q].start \in Nat /\ now - Lease <= req[q].start
    <3>1. req[q].start \in Nat
      BY LiveKeys DEF ReqState
    <3>2. now - req[q].start <= Lease
      BY <1>6 DEF Inv, LeaseInv, Leased
    <3>3. QED
      BY <1>4, <3>1, <3>2
  <2>2. Before <= req[q].start * SubTicks /\ req[q].start * SubTicks \in Int
    BY <1>4, <2>1, TimesMonotone, TimesInt DEF Before
  <2>3. QED
    BY <1>1, <1>3, <1>4, <2>2
<1>7. ASSUME NEW g \in Resident, g \notin Selected PROVE la[g] > cut
  <2>1. PICK C : Selected = {x \in Resident : \E c \in C : la[x] <= la[c]} /\ C \subseteq Resident
    BY DEF Selected, Oldest
  <2>2. PICK c \in C : la[h] <= la[c]
    BY <1>2, <2>1
  <2>3. ~(la[g] <= la[c])
    BY <1>7, <2>1
  <2>4. la[g] \in Nat /\ la[c] \in Nat
    <3>1. Resident \subseteq Groups
      BY ConstantsAssumption DEF Resident, Inv, BaseInv, TypeOK
    <3>2. QED
      BY <2>1, <3>1 DEF Inv, BaseInv, TypeOK
  <2>5. QED
    BY <1>1, <1>2, <2>2, <2>3, <2>4
<1>8. QED
  BY <1>1, <1>3, <1>4, <1>5, <1>6, <1>7 DEF cut

LEMMA EvictSelectKeepsData ==
  ASSUME Inv, EvictSelect
  PROVE  DataInv'
<1>1. CASE ~Permitted \/ Selected = {}
  BY <1>1, SameData DEF EvictSelect, dbVars, memVars, queueVars, operVars
<1>2. CASE Permitted /\ Selected # {}
  <2>1. /\ UNCHANGED <<now, persisted, mem, memPersisted, disk, cmd, hi, lo, req, pause,
                       persisting, aborted>>
        /\ evicting = {} /\ evicting' = Selected /\ unlinking' = Ranks
        /\ evictedUntil' = Max({la[g] : g \in Selected})
        /\ rows' = [rows EXCEPT ![Rank0] = @ \ Deleted]
        /\ la' = [g \in Groups |-> IF g \in Deleted THEN 0 ELSE la[g]]
    BY <1>2 DEF EvictSelect, memVars, queueVars, operVars
  <2>2. /\ Rank0 \in Ranks /\ rows \in [Ranks -> SUBSET Groups] /\ la \in [Groups -> Nat]
        /\ Selected \subseteq rows[Rank0] /\ Deleted = Selected \ persisted[Rank0]
    BY ConstantsAssumption, SelectedBelowLease DEF Inv, BaseInv, TypeOK, LeaseInv, Deleted
  <2>3. /\ rows'[Rank0] = rows[Rank0] \ Deleted
        /\ \A s \in Ranks : s # Rank0 => rows'[s] = rows[s]
        /\ \A s \in Ranks : \A g \in rows[s] : g \notin Deleted => g \in rows'[s]
        /\ \A s \in Ranks : rows'[s] \subseteq rows[s]
    BY <2>1, <2>2
  <2>4. ASSUME NEW q \in Reqs PROVE Keys(q) \cap Selected = {}
    <3>1. LeaseInv'
      BY EvictSelectKeepsLease DEF Inv
    <3>2. Leased(q)'
      BY <3>1 DEF LeaseInv
    <3>3. Keys(q)' = Keys(q)
      BY <2>1 DEF Keys
    <3>4. QED
      BY <2>1, <3>2, <3>3 DEF Leased
  <2>5. persisting = {}
    BY <1>2 DEF Permitted, Inv, BaseInv, PauseInv, DataInv, Persists
  <2>6. \A s, g : /\ Unsubmitted(s, g)' <=> Unsubmitted(s, g)
                  /\ \A l : Due(s, g, l)' <=> Due(s, g, l)
    BY <2>1, SameQueues
  <2>7. Owned'
    BY <2>1 DEF Inv, DataInv, Owned, Keys
  <2>8. Pushed' /\ Marks' /\ ServedCmd' /\ ServedHi' /\ ServedLo'
    <3>1. Pushed' /\ Marks'
      BY <2>1 DEF Inv, DataInv, Pushed, Marks, Ready, Queued
    <3>2. ServedCmd'
      BY <2>1 DEF Inv, DataInv, ServedCmd, Ready, Queued
    <3>3. ServedHi' /\ ServedLo'
      BY <2>1 DEF Inv, DataInv, ServedHi, ServedLo, Ready, Queued
    <3>4. QED
      BY <3>1, <3>2, <3>3
  <2>9. Persists' /\ Unlinked'
    BY <2>1, <2>5 DEF Persists, Unlinked
  <2>10. OnDisk'
    <3> SUFFICES ASSUME NEW s \in Ranks, NEW g \in persisted[s]
                 PROVE  g \in rows'[s] /\ disk[s][g] = Layers
      BY <2>1 DEF OnDisk
    <3>1. g \in rows[s] /\ disk[s][g] = Layers
      BY DEF Inv, DataInv, OnDisk
    <3>2. CASE s = Rank0
      BY <2>2, <2>3, <3>1, <3>2
    <3>3. CASE s # Rank0
      BY <2>3, <3>1, <3>3
    <3>4. QED
      BY <3>2, <3>3
  <2>11. Everywhere'
    <3>1. ASSUME NEW g \in persisted[Rank0], NEW s \in Ranks
          PROVE  g \in persisted[s] \/ Unsubmitted(Rank0, g)
      BY <2>5 DEF Inv, DataInv, Everywhere
    <3>2. ASSUME NEW g \in rows'[Rank0], g \in Selected, NEW s \in Ranks PROVE g \in persisted[s]
      <4>1. g \in persisted[Rank0]
        BY <2>2, <2>3, <3>2
      <4>2. ASSUME Unsubmitted(Rank0, g) PROVE FALSE
        <5>1. PICK i \in 1..Len(cmd[Rank0]) : g \in Range(cmd[Rank0][i].save)
          BY <4>2 DEF Unsubmitted
        <5>2. QED
          BY <2>2, <2>4, <3>2, <5>1, UnsubmittedOwner
      <4>3. QED
        BY <3>1, <4>1, <4>2
    <3>3. QED
      BY <2>1, <2>6, <3>1, <3>2 DEF Everywhere
  <2>12. Promised'
    <3> SUFFICES ASSUME NEW q \in Reqs, NEW g \in Range(req[q].load) PROVE g \in rows'[Rank0]
      BY <2>1 DEF Promised
    <3>1. g \in rows[Rank0] /\ g \notin Selected
      BY <2>4, LiveKeys DEF Inv, DataInv, Promised
    <3>2. QED
      BY <2>2, <2>3, <3>1
  <2>13. Landing'
    <3> SUFFICES ASSUME NEW q \in Reqs, req[q].st = "running", NEW g \in Range(req[q].save),
                        NEW s \in Ranks
                 PROVE  /\ \A l \in Layers : Due(s, g, l)
                        /\ Unsubmitted(s, g) \/ (g \in rows'[s] /\ g \notin persisted[s])
      BY <2>1, <2>6 DEF Landing
    <3>1. /\ \A l \in Layers : Due(s, g, l)
          /\ Unsubmitted(s, g) \/ (g \in rows[s] /\ g \notin persisted[s])
      BY DEF Inv, DataInv, Landing
    <3>2. g \notin Selected
      BY <2>4, LiveKeys
    <3>3. QED
      BY <2>2, <2>3, <3>1, <3>2
  <2>14. Whole'
    <3> SUFFICES ASSUME NEW g \in rows'[Rank0], NEW s \in Ranks, NEW l \in Layers
                 PROVE  g \in persisted[s] \/ Due(s, g, l)
      BY <2>1, <2>6 DEF Whole
    <3>1. QED
      BY <2>1, <2>3 DEF Inv, DataInv, Whole
  <2>15. Held'
    <3> SUFFICES ASSUME NEW s \in Ranks, NEW g \in Groups, mem[s][g] # {}
                 PROVE  /\ \A l \in Layers : g \in persisted[s] \/ Due(s, g, l)
                        /\ g \notin Selected => g \in rows'[s] \/ Unsubmitted(s, g)
      BY <2>1, <2>6 DEF Held
    <3>1. /\ \A l \in Layers : g \in persisted[s] \/ Due(s, g, l)
          /\ g \in rows[s] \/ Unsubmitted(s, g)
      BY <2>1 DEF Inv, DataInv, Held
    <3>2. QED
      BY <2>2, <2>3, <3>1
  <2>16. Cut'
    <3>1. /\ evictedUntil' < now * SubTicks
          /\ \A q \in Reqs : req[q].st # "idle" => evictedUntil' < req[q].start * SubTicks
          /\ \A g \in Resident \ Selected : la[g] > evictedUntil'
      BY <1>2, <2>1, SelectedCut
    <3>2. ASSUME NEW g \in Groups, g \notin Selected, mem[Rank0][g] # {}
          PROVE  (g \in rows'[Rank0] /\ la'[g] > evictedUntil') \/ Unsubmitted(Rank0, g)
      <4>1. (g \in rows[Rank0] /\ la[g] > evictedUntil) \/ Unsubmitted(Rank0, g)
        BY <2>1, <3>2 DEF Inv, DataInv, Cut
      <4>2. la'[g] = la[g] /\ g \notin Deleted
        BY <2>1, <2>2, <3>2
      <4>3. ASSUME g \in rows[Rank0], la[g] > evictedUntil PROVE la[g] > evictedUntil'
        BY <3>1, <3>2, <4>3 DEF Resident
      <4>4. QED
        BY <2>3, <4>1, <4>2, <4>3
    <3>3. QED
      BY <2>1, <2>6, <3>1, <3>2 DEF Cut
  <2>17. QED
    BY <2>1, <2>7, <2>8, <2>9, <2>10, <2>11, <2>12, <2>13, <2>14, <2>15, <2>16
       DEF Inv, DataInv
<1>3. QED
  BY <1>1, <1>2

LEMMA EvictLabelsKeepsData ==
  ASSUME Inv, NEW r \in Ranks, EvictLabels(r)
  PROVE  DataInv'
<1>1. /\ UNCHANGED <<now, rows, persisted, la, disk, cmd, hi, lo, req, evicting, evictedUntil,
                     pause, persisting, aborted>>
      /\ unlinking' = unlinking \ {r}
  BY DEF EvictLabels, dbVars, queueVars, operVars
<1>2. /\ \A s \in Ranks \ {r} : mem'[s] = mem[s] /\ memPersisted'[s] = memPersisted[s]
      /\ \A g \in Groups : mem'[r][g] = IF g \in evicting THEN {} ELSE mem[r][g]
      /\ memPersisted'[r] = memPersisted[r] \ evicting
  BY EvictLabelsEffect DEF Inv, BaseInv
<1>3. Rank0 \in Ranks /\ evicting \subseteq Groups
  BY ConstantsAssumption DEF Inv, BaseInv, TypeOK
<1>4. ASSUME NEW s \in Ranks, NEW g \in Groups, g \notin evicting \/ mem'[s][g] # {}
      PROVE  mem'[s][g] = mem[s][g]
  <2>1. CASE s # r
    BY <1>2, <2>1
  <2>2. CASE s = r
    BY <1>2, <1>4, <2>2
  <2>3. QED
    BY <2>1, <2>2
<1>5. \A s, g : /\ Unsubmitted(s, g)' <=> Unsubmitted(s, g)
                /\ \A l : Queued(s, g, l)' <=> Queued(s, g, l)
  BY <1>1 DEF Unsubmitted, Queued
<1>6. ASSUME NEW s \in Ranks, NEW g \in Groups, g \notin evicting \/ mem'[s][g] # {}, NEW l
      PROVE  /\ Ready(s, g, l)' <=> Ready(s, g, l)
             /\ Due(s, g, l)' <=> Due(s, g, l)
  <2>1. Ready(s, g, l)' <=> Ready(s, g, l)
    BY <1>4, <1>5, <1>6 DEF Ready
  <2>2. QED
    BY <1>1, <2>1 DEF Due
<1>7. Owned'
  BY <1>1 DEF Inv, DataInv, Owned, Keys
<1>8. Persists' /\ OnDisk' /\ Promised' /\ ~aborted'
  BY <1>1 DEF Inv, DataInv, Persists, OnDisk, Promised
<1>9. Everywhere'
  BY <1>1 DEF Inv, DataInv, Everywhere, Unsubmitted
<1>10. Unlinked'
  <2> SUFFICES ASSUME NEW s \in Ranks, s \notin unlinking \ {r}, NEW g \in evicting
               PROVE  mem'[s][g] = {}
    BY <1>1 DEF Unlinked
  <2>1. CASE s = r
    BY <1>2, <1>3, <2>1
  <2>2. CASE s # r
    BY <1>2, <2>2 DEF Inv, DataInv, Unlinked
  <2>3. QED
    BY <2>1, <2>2
<1>11. Landing'
  <2> SUFFICES ASSUME NEW q \in Reqs, req[q].st = "running", NEW g \in Range(req[q].save),
                      NEW s \in Ranks
               PROVE  /\ \A l \in Layers : Due(s, g, l)'
                      /\ Unsubmitted(s, g) \/ (g \in rows[s] /\ g \notin persisted[s])
    BY <1>1, <1>5 DEF Landing
  <2>1. g \in Groups /\ g \notin evicting
    BY LiveKeys
  <2>2. /\ \A l \in Layers : Due(s, g, l)
        /\ Unsubmitted(s, g) \/ (g \in rows[s] /\ g \notin persisted[s])
    BY DEF Inv, DataInv, Landing
  <2>3. QED
    BY <1>6, <2>1, <2>2
<1>12. Pushed'
  <2> SUFFICES ASSUME NEW s \in Ranks, NEW i \in 1..Len(cmd[s]),
                      NEW g \in Range(cmd[s][i].save), NEW l \in Layers, l < cmd[s][i].layer
               PROVE  Ready(s, g, l)'
    BY <1>1 DEF Pushed
  <2>1. Ready(s, g, l) /\ g \in Groups
    BY Entries DEF Inv, DataInv, Pushed
  <2>2. g \notin evicting
    BY UnsubmittedOwner, LiveKeys
  <2>3. QED
    BY <1>6, <2>1, <2>2
<1>13. Whole'
  <2> SUFFICES ASSUME NEW g \in rows[Rank0] \ evicting, NEW s \in Ranks, NEW l \in Layers
               PROVE  g \in persisted[s] \/ Due(s, g, l)'
    BY <1>1 DEF Whole
  <2>1. g \in Groups /\ (g \in persisted[s] \/ Due(s, g, l))
    BY <1>3 DEF Inv, DataInv, Whole, BaseInv, TypeOK
  <2>2. QED
    BY <1>6, <2>1
<1>14. Held'
  <2> SUFFICES ASSUME NEW s \in Ranks, NEW g \in Groups, mem'[s][g] # {}
               PROVE  /\ \A l \in Layers : g \in persisted[s] \/ Due(s, g, l)'
                      /\ g \notin evicting => g \in rows[s] \/ Unsubmitted(s, g)
    BY <1>1, <1>5 DEF Held
  <2>1. mem[s][g] # {}
    BY <1>4
  <2>2. /\ \A l \in Layers : g \in persisted[s] \/ Due(s, g, l)
        /\ g \notin evicting => g \in rows[s] \/ Unsubmitted(s, g)
    BY <2>1 DEF Inv, DataInv, Held
  <2>3. QED
    BY <1>6, <2>2
<1>15. Marks'
  <2> SUFFICES ASSUME NEW s \in Ranks, NEW g \in memPersisted'[s]
               PROVE  g \in persisted[s] \/ \E l \in Layers : Queued(s, g, l)
    BY <1>1, <1>5 DEF Marks
  <2>1. g \in memPersisted[s]
    BY <1>2
  <2>2. QED
    BY <2>1 DEF Inv, DataInv, Marks
<1>16. ServedCmd'
  <2> SUFFICES ASSUME NEW s \in Ranks, NEW i \in 1..Len(cmd[s]),
                      NEW g \in Range(cmd[s][i].load), NEW l \in Layers
               PROVE  \/ g \in persisted[s]
                      \/ Ready(s, g, l)'
                      \/ \E j \in 1..Len(cmd[s]) :
                            j < i /\ g \in Range(cmd[s][j].save) /\ cmd[s][j].layer <= l
    BY <1>1 DEF ServedCmd
  <2>1. \/ g \in persisted[s]
        \/ Ready(s, g, l)
        \/ \E j \in 1..Len(cmd[s]) :
              j < i /\ g \in Range(cmd[s][j].save) /\ cmd[s][j].layer <= l
    BY DEF Inv, DataInv, ServedCmd
  <2>2. g \in Groups /\ g \notin evicting
    BY UnsubmittedOwner, LiveKeys
  <2>3. QED
    BY <1>6, <2>1, <2>2
<1>17. ServedHi'
  <2> SUFFICES ASSUME NEW s \in Ranks, NEW i \in 1..Len(hi[s]), NEW g \in hi[s][i].gs,
                      NEW l \in Layers, hi[s][i].layer = l
               PROVE  g \in persisted[s] \/ Ready(s, g, l)'
    BY <1>1 DEF ServedHi
  <2>1. g \in persisted[s] \/ Ready(s, g, l)
    BY DEF Inv, DataInv, ServedHi
  <2>2. hi[s][i].req \in Reqs /\ g \in Keys(hi[s][i].req)
    BY Entries DEF Inv, DataInv, Owned
  <2>3. g \in Groups /\ g \notin evicting
    BY <2>2, LiveKeys
  <2>4. QED
    BY <1>6, <2>1, <2>3
<1>18. ServedLo'
  <2> SUFFICES ASSUME NEW s \in Ranks, NEW i \in 1..Len(lo[s]), lo[s][i].op = "get",
                      NEW g \in lo[s][i].gs
               PROVE  \/ lo[s][i].layer \in mem'[s][g]
                      \/ \E j \in 1..Len(lo[s]) :
                           /\ j < i /\ lo[s][j].op = "put"
                           /\ g \in lo[s][j].gs /\ lo[s][j].layer = lo[s][i].layer
    BY <1>1 DEF ServedLo
  <2>1. \/ lo[s][i].layer \in mem[s][g]
        \/ \E j \in 1..Len(lo[s]) : /\ j < i /\ lo[s][j].op = "put"
                                    /\ g \in lo[s][j].gs /\ lo[s][j].layer = lo[s][i].layer
    BY DEF Inv, DataInv, ServedLo
  <2>2. lo[s][i].req \in Reqs /\ g \in Keys(lo[s][i].req)
    BY Entries DEF Inv, DataInv, Owned
  <2>3. mem'[s][g] = mem[s][g]
    BY <1>4, <2>2, LiveKeys
  <2>4. QED
    BY <2>1, <2>3
<1>19. Cut'
  <2>1. ASSUME NEW g \in Groups \ evicting, mem'[Rank0][g] # {}
        PROVE  (g \in rows[Rank0] /\ la[g] > evictedUntil) \/ Unsubmitted(Rank0, g)
    <3>1. mem[Rank0][g] # {}
      BY <1>3, <1>4, <2>1
    <3>2. QED
      BY <3>1 DEF Inv, DataInv, Cut
  <2>2. QED
    BY <1>1, <1>5, <2>1 DEF Inv, DataInv, Cut
<1>20. QED
  BY <1>7, <1>8, <1>9, <1>10, <1>11, <1>12, <1>13, <1>14, <1>15, <1>16, <1>17, <1>18, <1>19
     DEF DataInv

LEMMA EvictDoneKeepsData ==
  ASSUME Inv, EvictDone
  PROVE  DataInv'
<1>1. /\ UNCHANGED <<now, rows, persisted, la, mem, memPersisted, disk, cmd, hi, lo, req,
                     unlinking, evictedUntil, pause, persisting, aborted>>
      /\ evicting' = {} /\ unlinking = {}
  BY DEF EvictDone, dbVars, memVars, queueVars, operVars
<1>2. \A s, g : /\ Unsubmitted(s, g)' <=> Unsubmitted(s, g)
                /\ \A l : Due(s, g, l)' <=> Due(s, g, l)
  BY <1>1, SameQueues
<1>3. \A s \in Ranks : \A g \in evicting : mem[s][g] = {}
  BY <1>1 DEF Inv, DataInv, Unlinked
<1>4. Owned'
  BY <1>1 DEF Inv, DataInv, Owned, Keys
<1>5. Persists' /\ Unlinked' /\ OnDisk' /\ Promised' /\ ~aborted'
  BY <1>1 DEF Inv, DataInv, Persists, Unlinked, OnDisk, Promised
<1>6. Everywhere'
  BY <1>1 DEF Inv, DataInv, Everywhere, Unsubmitted
<1>7. Landing'
  BY <1>1, <1>2 DEF Inv, DataInv, Landing
<1>8. Pushed' /\ Marks'
  BY <1>1 DEF Inv, DataInv, Pushed, Marks, Ready, Queued
<1>9. ServedCmd' /\ ServedHi' /\ ServedLo'
  <2>1. ServedCmd'
    BY <1>1 DEF Inv, DataInv, ServedCmd, Ready, Queued
  <2>2. ServedHi' /\ ServedLo'
    BY <1>1 DEF Inv, DataInv, ServedHi, ServedLo, Ready, Queued
  <2>3. QED
    BY <2>1, <2>2
<1>10. Whole'
  <2> SUFFICES ASSUME NEW g \in rows[Rank0], NEW s \in Ranks, NEW l \in Layers
               PROVE  g \in persisted[s] \/ Due(s, g, l)
    BY <1>1, <1>2 DEF Whole
  <2>1. CASE g \in evicting
    BY <2>1 DEF Inv, DataInv, Everywhere
  <2>2. CASE g \notin evicting
    BY <2>2 DEF Inv, DataInv, Whole
  <2>3. QED
    BY <2>1, <2>2
<1>11. Held'
  <2> SUFFICES ASSUME NEW s \in Ranks, NEW g \in Groups, mem[s][g] # {}
               PROVE  /\ \A l \in Layers : g \in persisted[s] \/ Due(s, g, l)
                      /\ g \in rows[s] \/ Unsubmitted(s, g)
    BY <1>1, <1>2 DEF Held
  <2>1. g \notin evicting
    BY <1>3
  <2>2. QED
    BY <2>1 DEF Inv, DataInv, Held
<1>12. Cut'
  <2>1. \A g \in evicting : mem[Rank0][g] = {}
    BY <1>3, ConstantsAssumption
  <2>2. QED
    BY <1>1, <1>2, <2>1 DEF Inv, DataInv, Cut
<1>13. QED
  BY <1>4, <1>5, <1>6, <1>7, <1>8, <1>9, <1>10, <1>11, <1>12 DEF DataInv

-----------------------------------------------------------------------------
(* The operator and the environment.                                       *)

LEMMA PersistBeginKeepsData ==
  ASSUME Inv, PersistMode # "paused", PersistBegin
  PROVE  DataInv'
<1>1. /\ UNCHANGED <<now, rows, persisted, la, mem, memPersisted, disk, cmd, hi, lo, req,
                     evicting, unlinking, evictedUntil, pause, aborted>>
      /\ persisting' = Ranks /\ persisting' # {} /\ pause = "held"
      /\ PersistMode = "quiescent" /\ \A q \in Reqs : req[q] = Idle
  BY ConstantsAssumption
     DEF PersistBegin, dbVars, memVars, queueVars, evictVars
<1>2. Persists'
  BY <1>1 DEF Persists, Idle
<1>3. Everywhere'
  BY <1>1 DEF Inv, DataInv, Everywhere
<1>4. Owned'
  BY <1>1 DEF Inv, DataInv, Owned, Keys
<1>5. Unlinked' /\ OnDisk' /\ Promised' /\ ~aborted'
  BY <1>1 DEF Inv, DataInv, Unlinked, OnDisk, Promised
<1>6. Landing' /\ Pushed'
  <2>1. Landing'
    BY <1>1 DEF Landing, Idle
  <2>2. Pushed'
    BY <1>1 DEF Inv, DataInv, Pushed, Ready, Queued
  <2>3. QED
    BY <2>1, <2>2
<1>7. Whole' /\ Held'
  <2>1. Whole'
    BY <1>1 DEF Inv, DataInv, Whole, Due, Ready, Queued
  <2>2. Held'
    BY <1>1 DEF Inv, DataInv, Held, Due, Ready, Queued, Unsubmitted
  <2>3. QED
    BY <2>1, <2>2
<1>8. Marks' /\ ServedHi' /\ ServedLo'
  BY <1>1 DEF Inv, DataInv, Marks, ServedHi, ServedLo, Ready, Queued
<1>9. ServedCmd'
  BY <1>1 DEF Inv, DataInv, ServedCmd, Ready, Queued
<1>10. Cut'
  BY <1>1 DEF Inv, DataInv, Cut, Unsubmitted
<1>11. QED
  BY <1>2, <1>3, <1>4, <1>5, <1>6, <1>7, <1>8, <1>9, <1>10 DEF DataInv

LEMMA OperatorKeepsData ==
  ASSUME Inv, PersistMode # "paused", Operator
  PROVE  DataInv'
<1>1. persisting # {} => pause = "held"
  BY DEF Inv, DataInv, Persists
<1>2. CASE PauseEvict
  BY <1>1, <1>2, SameData DEF PauseEvict, dbVars, memVars, queueVars, evictVars
<1>3. CASE PauseReturns
  BY <1>1, <1>3, SameData DEF PauseReturns, dbVars, memVars, queueVars, evictVars
<1>4. CASE ResumeEvict
  BY <1>4, SameData DEF ResumeEvict, dbVars, memVars, queueVars, evictVars
<1>5. QED
  BY <1>2, <1>3, <1>4, PersistBeginKeepsData DEF Operator

LEMMA PersistRankKeepsData ==
  ASSUME Inv, NEW r \in Ranks, PersistRank(r)
  PROVE  DataInv'
<1>1. /\ UNCHANGED <<now, rows, la, mem, cmd, hi, lo, req, evicting, unlinking, evictedUntil,
                     pause, aborted>>
      /\ persisting # {} /\ persisting' = persisting \ {r}
  BY DEF PersistRank, queueVars, evictVars
<1>2. /\ \A s \in Ranks \ {r} : /\ disk'[s] = disk[s]
                                /\ memPersisted'[s] = memPersisted[s]
                                /\ persisted'[s] = persisted[s]
      /\ \A g \in Groups : disk'[r][g] =
           IF g \in Unsaved(r) THEN disk[r][g] \cup mem[r][g] ELSE disk[r][g]
      /\ memPersisted'[r] = memPersisted[r] \cup Unsaved(r)
      /\ persisted'[r] = persisted[r] \cup (Unsaved(r) \cap rows[r])
  BY PersistRankEffect DEF Inv, BaseInv
<1>3. /\ PersistMode = "quiescent" /\ pause = "held"
      /\ \A q \in Reqs : req[q].st = "idle"
      /\ \A s \in Ranks \ persisting : rows[Rank0] \subseteq persisted[s]
  BY <1>1 DEF Inv, DataInv, Persists
<1>4. evicting = {}
  BY <1>3 DEF Inv, BaseInv, PauseInv
<1>5. /\ Rank0 \in Ranks /\ rows \in [Ranks -> SUBSET Groups]
      /\ persisted \in [Ranks -> SUBSET Groups]
      /\ mem \in [Ranks -> [Groups -> SUBSET Layers]]
      /\ disk \in [Ranks -> [Groups -> SUBSET Layers]] /\ Layers # {}
  <2>1. 1 \in Layers
    BY ConstantsAssumption DEF Layers
  <2>2. QED
    BY <2>1, ConstantsAssumption DEF Inv, BaseInv, TypeOK
<1>6. ASSUME NEW s \in Ranks
      PROVE  /\ Len(cmd[s]) = 0 /\ Len(hi[s]) = 0 /\ Len(lo[s]) = 0
             /\ \A g : ~Unsubmitted(s, g)
             /\ \A g, l : ~Queued(s, g, l)
             /\ \A g, l : Due(s, g, l) => l \in mem[s][g]
  BY <1>3, Quiet
<1>7. \A s \in Ranks : persisted[s] \subseteq persisted'[s]
  BY <1>2
<1>8. ASSUME NEW g \in Groups, mem[r][g] # {}
      PROVE  /\ g \in rows[r]
             /\ g \in persisted[r] \/ mem[r][g] = Layers
  <2>1. /\ \A l \in Layers : g \in persisted[r] \/ Due(r, g, l)
        /\ g \in rows[r] \/ Unsubmitted(r, g)
    BY <1>4, <1>8 DEF Inv, DataInv, Held
  <2>2. mem[r][g] \subseteq Layers
    BY <1>5
  <2>3. QED
    BY <1>6, <2>1, <2>2
<1>9. Unsaved(r) \subseteq rows[r] /\ persisted'[r] = persisted[r] \cup Unsaved(r)
  <2>1. Unsaved(r) \subseteq rows[r]
    BY <1>8 DEF Unsaved
  <2>2. QED
    BY <1>2, <2>1
<1>10. \A s \in Ranks \ persisting' : rows[Rank0] \subseteq persisted'[s]
  <2> SUFFICES ASSUME NEW s \in Ranks \ persisting', NEW g \in rows[Rank0]
               PROVE  g \in persisted'[s]
    OBVIOUS
  <2>1. CASE s # r
    BY <1>1, <1>2, <1>3, <2>1
  <2>2. CASE s = r
    <3> SUFFICES ASSUME g \notin persisted[r] PROVE g \in Unsaved(r)
      BY <1>9, <2>2
    <3>1. g \in Groups
      BY <1>5
    <3>2. \A l \in Layers : l \in mem[r][g]
      <4>1. \A l \in Layers : g \in persisted[r] \/ Due(r, g, l)
        BY <1>4 DEF Inv, DataInv, Whole
      <4>2. QED
        BY <1>6, <4>1
    <3>3. g \notin memPersisted[r]
      BY <1>6 DEF Inv, DataInv, Marks
    <3>4. QED
      BY <1>5, <3>1, <3>2, <3>3 DEF Unsaved
  <2>3. QED
    BY <2>1, <2>2
<1>11. Persists'
  BY <1>1, <1>3, <1>10 DEF Persists
<1>12. OnDisk'
  <2> SUFFICES ASSUME NEW s \in Ranks, NEW g \in persisted'[s]
               PROVE  g \in rows[s] /\ disk'[s][g] = Layers
    BY <1>1 DEF OnDisk
  <2>0. OnDisk
    BY DEF Inv, DataInv
  <2>1. CASE s # r
    BY <1>2, <2>0, <2>1 DEF OnDisk
  <2>2. CASE s = r
    <3>1. g \in Groups /\ disk[r][g] \subseteq Layers /\ mem[r][g] \subseteq Layers
      BY <1>5, <1>9, <2>2
    <3>2. CASE g \in persisted[r]
      <4>1. g \in rows[r] /\ disk[r][g] = Layers
        BY <2>0, <3>2 DEF OnDisk
      <4>2. QED
        BY <1>2, <2>2, <3>1, <4>1
    <3>3. CASE g \notin persisted[r]
      <4>1. g \in Unsaved(r) /\ mem[r][g] # {}
        BY <1>9, <2>2, <3>3 DEF Unsaved
      <4>2. mem[r][g] = Layers /\ g \in rows[r]
        BY <1>8, <3>1, <3>3, <4>1
      <4>3. QED
        BY <1>2, <2>2, <3>1, <4>1, <4>2
    <3>4. QED
      BY <3>2, <3>3
  <2>3. QED
    BY <2>1, <2>2
<1>13. Everywhere'
  <2>1. ASSUME persisting' = {}, NEW g \in persisted'[Rank0], NEW s \in Ranks
        PROVE  g \in persisted'[s]
    <3>1. g \in rows[Rank0]
      BY <1>1, <1>5, <1>12, <2>1 DEF OnDisk
    <3>2. QED
      BY <1>10, <2>1, <3>1
  <2>2. QED
    BY <1>1, <1>4, <2>1 DEF Everywhere
<1>14. Owned' /\ Pushed' /\ ServedCmd' /\ ServedHi' /\ ServedLo'
  <2>1. \A s \in Ranks : Len(cmd'[s]) = 0 /\ Len(hi'[s]) = 0 /\ Len(lo'[s]) = 0
    BY <1>1, <1>6
  <2>2. QED
    BY <2>1 DEF Owned, Pushed, ServedCmd, ServedHi, ServedLo
<1>15. Landing' /\ Promised' /\ Unlinked' /\ ~aborted'
  <2>1. Landing'
    BY <1>1, <1>3 DEF Landing
  <2>2. QED
    BY <1>1, <2>1 DEF Inv, DataInv, Promised, Unlinked
<1>16. \A s, g : /\ Unsubmitted(s, g)' <=> Unsubmitted(s, g)
                 /\ \A l : Due(s, g, l)' <=> Due(s, g, l)
  BY <1>1, SameQueues
<1>17. Whole' /\ Held'
  <2>1. ASSUME NEW g \in rows[Rank0] \ evicting, NEW s \in Ranks, NEW l \in Layers
        PROVE  g \in persisted'[s] \/ Due(s, g, l)
    BY <1>7 DEF Inv, DataInv, Whole
  <2>2. ASSUME NEW s \in Ranks, NEW g \in Groups, mem[s][g] # {}
        PROVE  /\ \A l \in Layers : g \in persisted'[s] \/ Due(s, g, l)
               /\ g \notin evicting => g \in rows[s] \/ Unsubmitted(s, g)
    BY <1>7, <2>2 DEF Inv, DataInv, Held
  <2>3. Whole'
    BY <1>1, <1>16, <2>1 DEF Whole
  <2>4. Held'
    BY <1>1, <1>16, <2>2 DEF Held
  <2>5. QED
    BY <2>3, <2>4
<1>18. Marks'
  <2> SUFFICES ASSUME NEW s \in Ranks, NEW g \in memPersisted'[s] PROVE g \in persisted'[s]
    BY DEF Marks
  <2>1. \A x \in memPersisted[s] : x \in persisted[s]
    BY <1>6 DEF Inv, DataInv, Marks
  <2>2. QED
    BY <1>2, <1>9, <2>1
<1>19. Cut'
  BY <1>1, <1>16 DEF Inv, DataInv, Cut
<1>20. QED
  BY <1>11, <1>12, <1>13, <1>14, <1>15, <1>17, <1>18, <1>19 DEF DataInv

LEMMA TickKeepsData ==
  ASSUME Inv, Tick
  PROVE  DataInv'
<1>1. /\ UNCHANGED <<rows, persisted, la, mem, memPersisted, disk, cmd, hi, lo, req, evicting,
                     unlinking, evictedUntil, pause, persisting, aborted>>
      /\ now' = now + 1
  BY DEF Tick, dbVars, memVars, queueVars, evictVars, operVars
<1>2. Flow'
  BY <1>1, SameFlow DEF Flow, Inv, DataInv
<1>3. Owned'
  BY <1>1 DEF Inv, DataInv, Owned, Keys
<1>4. Persists' /\ Unlinked' /\ OnDisk' /\ Promised' /\ ~aborted'
  BY <1>1 DEF Inv, DataInv, Persists, Unlinked, OnDisk, Promised
<1>5. Landing'
  BY <1>1 DEF Inv, DataInv, Landing, Unsubmitted, Due, Ready, Queued
<1>6. Cut'
  <2>1. now \in Nat /\ evictedUntil \in Nat /\ SubTicks \in Nat /\ evictedUntil < now * SubTicks
    BY ConstantsAssumption DEF Inv, BaseInv, TypeOK, DataInv, Cut
  <2>2. evictedUntil < (now + 1) * SubTicks
    BY <2>1, NextTick
  <2>3. QED
    BY <1>1, <2>2 DEF Inv, DataInv, Cut, Unsubmitted
<1>7. QED
  BY <1>2, <1>3, <1>4, <1>5, <1>6 DEF Flow, DataInv

LEMMA RestartKeepsData ==
  ASSUME Inv, MaxCrashes = 0 \/ Ranks = {Rank0}, Restart
  PROVE  DataInv'
<1>1. Ranks = {Rank0}
  BY ConstantsAssumption DEF Inv, BaseInv, TypeOK, Restart
<1>2. /\ rows' = persisted /\ UNCHANGED <<persisted, disk, aborted>>
      /\ evicting' = {} /\ persisting' = {}
      /\ \A q \in Reqs : req'[q].st = "idle" /\ Range(req'[q].load) = {}
      /\ \A s \in Ranks : /\ Len(cmd'[s]) = 0 /\ Len(hi'[s]) = 0 /\ Len(lo'[s]) = 0
                          /\ memPersisted'[s] = {}
                          /\ \A g \in Groups : mem'[s][g] = {}
  BY DEF Restart, Idle, Range
<1>3. Owned' /\ Pushed' /\ ServedCmd' /\ ServedHi' /\ ServedLo'
  BY <1>2 DEF Owned, Pushed, ServedCmd, ServedHi, ServedLo
<1>4. Persists' /\ Unlinked' /\ Promised' /\ Landing' /\ Held' /\ Marks'
  BY <1>2 DEF Persists, Unlinked, Promised, Landing, Held, Marks
<1>5. OnDisk' /\ Everywhere' /\ Whole'
  BY <1>1, <1>2 DEF Inv, DataInv, OnDisk, Everywhere, Whole
<1>6. Cut'
  <2>1. now \in Nat /\ SubTicks \in Nat
    BY ConstantsAssumption DEF Inv, BaseInv, TypeOK
  <2>2. now' = now + 1 /\ evictedUntil' = now * SubTicks + SubTicks - 1
    BY DEF Restart
  <2>3. evictedUntil' < now' * SubTicks
    BY <2>1, <2>2, NextTick
  <2>4. QED
    BY <1>1, <1>2, <2>3 DEF Cut
<1>7. QED
  BY <1>2, <1>3, <1>4, <1>5, <1>6 DEF Inv, DataInv

-----------------------------------------------------------------------------
(* The invariant and the theorems.                                         *)

LEMMA DataStep ==
  ASSUME Sound, Inv, BaseInv', [Next]_vars
  PROVE  DataInv'
<1>0. TypeOK' /\ PersistMode # "paused" /\ (MaxCrashes = 0 \/ Ranks = {Rank0})
  BY DEF BaseInv, Sound
<1>1. ASSUME NEW q \in Reqs, (\E p \in Prompts : Has(q, p)) \/ Dispatch(q) \/ Finish(q)
      PROVE  DataInv'
  BY <1>1, HasKeepsData, DispatchKeepsData, FinishKeepsData
<1>2. ASSUME NEW r \in Ranks, Worker(r) \/ EvictLabels(r) \/ PersistRank(r)
      PROVE  DataInv'
  BY <1>0, <1>2, StartLoadKeepsData, SaveLayerKeepsData, RunLoadKeepsData,
     RunRetryKeepsData, RunPutKeepsData, EvictLabelsKeepsData, PersistRankKeepsData DEF Worker
<1>3. CASE Monitor
  BY <1>3, EvictBeginKeepsData, EvictSelectKeepsData, EvictDoneKeepsData DEF Monitor
<1>4. CASE UNCHANGED vars
  BY <1>4, SameData DEF vars, dbVars, memVars, queueVars, evictVars, operVars
<1>5. QED
  BY <1>0, <1>1, <1>2, <1>3, <1>4, OperatorKeepsData, TickKeepsData, RestartKeepsData
     DEF Next, Scheduler

\* In a sound deployment the invariant holds throughout.
LEMMA DataSafety ==
  ASSUME Sound
  PROVE  Spec => []Inv
<1>1. Init => Inv
  BY BaseInit, LeaseInit, DataInit DEF Inv
<1>2. Inv /\ [Next]_vars => Inv'
  BY BaseStep, LeaseStep, DataStep DEF Sound, Inv
<1>3. QED
  BY <1>1, <1>2, PTL DEF Spec

\* A save that is queued, or not yet submitted, is in flight.
LEMMA SavesFly ==
  ASSUME Inv, NEW r \in Ranks, NEW g
  PROVE  /\ Unsubmitted(r, g) => SaveInFlight(r, g)
         /\ \A l : Queued(r, g, l) => SaveInFlight(r, g)
<1>1. Unsubmitted(r, g) => SaveInFlight(r, g)
  BY DEF Unsubmitted, SaveInFlight
<1>2. ASSUME NEW l, Queued(r, g, l) PROVE SaveInFlight(r, g)
  <2>1. PICK j \in 1..Len(lo[r]) : lo[r][j].op = "put" /\ g \in lo[r][j].gs
    BY <1>2 DEF Queued
  <2>2. lo[r] \in Seq(Task)
    BY Entries DEF Inv
  <2>3. lo[r][j] \in Tasks(r)
    BY <2>1, <2>2 DEF Tasks, Range
  <2>4. QED
    BY <2>1, <2>3 DEF SaveInFlight
<1>3. QED
  BY <1>1, <1>2

\* What is due, with no save in flight, is there.
LEMMA AllThere ==
  ASSUME Inv, NEW r \in Ranks, NEW g \in Groups, ~SaveInFlight(r, g),
         \A l \in Layers : g \in persisted[r] \/ Due(r, g, l)
  PROVE  Avail(r, g) = Layers
<1>1. mem[r][g] \subseteq Layers
  BY DEF Inv, BaseInv, TypeOK
<1>2. CASE g \in persisted[r]
  <2>1. disk[r][g] = Layers
    BY <1>2 DEF Inv, DataInv, OnDisk
  <2>2. QED
    BY <1>1, <1>2, <2>1 DEF Avail
<1>3. CASE g \notin persisted[r]
  <2>1. \A l \in Layers : l \in mem[r][g]
    BY <1>3, SavesFly DEF Due, Ready, Unsubmitted
  <2>2. QED
    BY <1>1, <1>3, <2>1 DEF Avail
<1>4. QED
  BY <1>2, <1>3

\* unzip_from_mem: what has() promised is found on every rank, at the latest by
\* the retry behind the saves; no load aborts a worker.
THEOREM LoadsNeverAbort ==
  ASSUME Sound
  PROVE  Spec => []NoAbort
<1>1. Inv => NoAbort
  BY DEF Inv, DataInv, NoAbort
<1>2. QED
  BY <1>1, DataSafety, PTL

\* The index is consistent: a group that has a row in the rank 0 database, and
\* is not being evicted, is complete on every rank or its save is on its way.
THEOREM IndexIsConsistent ==
  ASSUME Sound
  PROVE  Spec => []Consistency
<1>1. Inv => Consistency
  <2> SUFFICES ASSUME Inv, NEW g \in rows[Rank0] \ evicting, NEW r \in Ranks,
                      ~SaveInFlight(r, g)
               PROVE  Avail(r, g) = Layers
    BY DEF Consistency
  <2>1. g \in Groups
    BY ConstantsAssumption DEF Inv, BaseInv, TypeOK
  <2>2. \A l \in Layers : g \in persisted[r] \/ Due(r, g, l)
    BY DEF Inv, DataInv, Whole
  <2>3. QED
    BY <2>1, <2>2, AllThere
<1>2. QED
  BY <1>1, DataSafety, PTL

\* A rank's Mem never keeps half a group once the saves of it have landed.
THEOREM GroupsAreComplete ==
  ASSUME Sound
  PROVE  Spec => []Completeness
<1>1. Inv => Completeness
  <2> SUFFICES ASSUME Inv, NEW r \in Ranks, NEW g \in Groups, mem[r][g] # {},
                      ~SaveInFlight(r, g)
               PROVE  Avail(r, g) = Layers
    BY DEF Completeness
  <2>1. \A l \in Layers : g \in persisted[r] \/ Due(r, g, l)
    BY DEF Inv, DataInv, Held
  <2>2. QED
    BY <2>1, AllThere
<1>2. QED
  BY <1>1, DataSafety, PTL

\* zip_to_mem and evict_labels never meet on a group: no save of a label that
\* is being evicted is queued or on its way to a rank.
THEOREM PutsMissEviction ==
  ASSUME Sound
  PROVE  Spec => []NoPutToEvicting
<1>1. Inv => NoPutToEvicting
  <2> SUFFICES ASSUME Inv, NEW r \in Ranks, NEW g \in evicting, SaveInFlight(r, g)
               PROVE  FALSE
    BY DEF NoPutToEvicting
  <2>1. ASSUME NEW i \in 1..Len(cmd[r]), g \in Range(cmd[r][i].save) PROVE FALSE
    BY <2>1, UnsubmittedOwner, LiveKeys
  <2>2. ASSUME NEW t \in Tasks(r), t.op = "put", g \in t.gs PROVE FALSE
    <3>1. t.req \in Reqs /\ t.gs \subseteq Keys(t.req)
      <4>1. \/ \E i \in 1..Len(hi[r]) : t = hi[r][i]
            \/ \E i \in 1..Len(lo[r]) : t = lo[r][i]
        <5>1. hi[r] \in Seq(Task) /\ lo[r] \in Seq(Task)
          BY Entries DEF Inv
        <5>2. QED
          BY <2>2, <5>1 DEF Tasks, Range
      <4>2. QED
        BY <4>1, Entries DEF Inv, DataInv, Owned
    <3>2. QED
      BY <2>2, <3>1, LiveKeys
  <2>3. QED
    BY <2>1, <2>2 DEF SaveInFlight
<1>2. QED
  BY <1>1, DataSafety, PTL

\* Record::evict can reach everything: what rank 0 holds in DDR has a row above
\* _evicted_until, so a later pass can select it and the pool can shrink.
THEOREM ResidentsCanBeEvicted ==
  ASSUME Sound
  PROVE  Spec => []ResidentAboveCut
<1>1. Inv => ResidentAboveCut
  BY SavesFly, ConstantsAssumption DEF Inv, DataInv, Cut, ResidentAboveCut
<1>2. QED
  BY <1>1, DataSafety, PTL

=============================================================================
