----------------------------- MODULE MemProofs -----------------------------
(***************************************************************************)
(* Ownership of the pool's buffers, proved for any number of groups,       *)
(* tensors, buffers and batches: with evict_labels as the only evicting    *)
(* call, every live buffer has one owner and no load reads a freed one.    *)
(***************************************************************************)
EXTENDS Mem, TLAPS

HeapType ==
  /\ buf \in [Groups -> [Tensors -> Buffers \cup {Nil}]]
  /\ live \subseteq used /\ used \subseteq Buffers
  /\ freeQueue \in Seq(SUBSET Buffers)
  /\ omp \in {Idle} \cup {Busy(st, p, t) : st \in {"guarded", "using"}, p \in Batches, t \in Tensors}

\* Pointers are held under the guard only, and the batch that is about to be
\* freed was detached before any of them was looked up.
Reading ==
  /\ guard = IF omp = Idle THEN 0 ELSE 1
  /\ omp.st # "using" => held = {}
  /\ held \subseteq live
  /\ freeing => freeQueue # <<>> /\ held \cap Head(freeQueue) = {}

HeapInv == HeapType /\ HeapExact /\ Reading

-----------------------------------------------------------------------------
(* Buffers of the index and of the free queue.                             *)

LEMMA BufsOfMember ==
  ASSUME NEW gs, NEW b
  PROVE  b \in BufsOf(gs) <=> b # Nil /\ \E g \in gs, t \in Tensors : b = buf[g][t]
  BY DEF BufsOf

LEMMA BufsOfMemberNext ==
  ASSUME NEW gs, NEW b
  PROVE  b \in (BufsOf(gs))' <=> b # Nil /\ \E g \in gs', t \in Tensors : b = buf'[g][t]
  BY DEF BufsOf

\* The buffers detached by an appended batch.
LEMMA AppendUnion ==
  ASSUME NEW S, NEW q \in Seq(S), NEW e \in S
  PROVE  UNION Range(Append(q, e)) = (UNION Range(q)) \cup e
<1>1. Range(Append(q, e)) = Range(q) \cup {e}
  <2>1. /\ Len(Append(q, e)) = Len(q) + 1 /\ Len(q) \in Nat
        /\ \A i \in 1..Len(q) : Append(q, e)[i] = q[i]
        /\ Append(q, e)[Len(q) + 1] = e
        /\ DOMAIN Append(q, e) = 1..(Len(q) + 1) /\ DOMAIN q = 1..Len(q)
    OBVIOUS
  <2>2. QED
    BY <2>1 DEF Range
<1>2. ASSUME NEW x
      PROVE  x \in UNION (Range(q) \cup {e}) <=> x \in (UNION Range(q)) \cup e
  BY Zenon
<1>3. UNION (Range(q) \cup {e}) = (UNION Range(q)) \cup e
  BY <1>2, Zenon
<1>4. QED
  BY <1>1, <1>3, Zenon

\* The buffers left when the front batch is popped.
LEMMA TailUnion ==
  ASSUME NEW S, NEW q \in Seq(S), q # <<>>,
         \A i, j \in 1..Len(q) : i # j => q[i] \cap q[j] = {}
  PROVE  /\ UNION Range(Tail(q)) = (UNION Range(q)) \ Head(q)
         /\ \A i, j \in 1..Len(Tail(q)) : i # j => Tail(q)[i] \cap Tail(q)[j] = {}
         /\ Head(q) \subseteq UNION Range(q)
         /\ Tail(q) \in Seq(S)
<1>1. /\ Len(q) \in Nat \ {0} /\ Len(Tail(q)) = Len(q) - 1
      /\ \A i \in 1..Len(Tail(q)) : Tail(q)[i] = q[i + 1]
      /\ DOMAIN Tail(q) = 1..Len(Tail(q)) /\ DOMAIN q = 1..Len(q)
      /\ Head(q) = q[1]
      /\ Tail(q) \in Seq(S)
  OBVIOUS
<1>2. \A x : x \in UNION Range(q) <=> \E i \in 1..Len(q) : x \in q[i]
  BY <1>1 DEF Range
<1>3. \A x : x \in UNION Range(Tail(q)) <=> \E i \in 1..Len(Tail(q)) : x \in q[i + 1]
  BY <1>1 DEF Range
<1>4. ASSUME NEW x
      PROVE  x \in UNION Range(Tail(q)) <=> x \in (UNION Range(q)) \ Head(q)
  <2>1. ASSUME NEW i \in 1..Len(Tail(q)), x \in q[i + 1]
        PROVE  x \in (UNION Range(q)) \ Head(q)
    <3>1. i + 1 \in 1..Len(q) /\ 1 \in 1..Len(q) /\ i + 1 # 1
      BY <1>1
    <3>2. QED
      BY <2>1, <3>1, <1>1, <1>2
  <2>2. ASSUME NEW i \in 1..Len(q), x \in q[i], x \notin Head(q)
        PROVE  x \in UNION Range(Tail(q))
    <3>1. i # 1
      BY <2>2, <1>1
    <3>2. i - 1 \in 1..Len(Tail(q)) /\ (i - 1) + 1 = i
      BY <3>1, <1>1
    <3>3. QED
      BY <3>2, <2>2, <1>3
  <2>3. QED
    BY <2>1, <2>2, <1>2, <1>3
<1>5. \A i, j \in 1..Len(Tail(q)) : i # j => Tail(q)[i] \cap Tail(q)[j] = {}
  <2>1. ASSUME NEW i \in 1..Len(Tail(q)), NEW j \in 1..Len(Tail(q)), i # j
        PROVE  q[i + 1] \cap q[j + 1] = {}
    <3>1. i + 1 \in 1..Len(q) /\ j + 1 \in 1..Len(q) /\ i + 1 # j + 1
      BY <1>1, <2>1
    <3>2. QED
      BY <3>1
  <2>2. QED
    BY <2>1, <1>1
<1>6. Head(q) \subseteq UNION Range(q)
  <2>1. 1 \in 1..Len(q)
    BY <1>1
  <2>2. \A x \in q[1] : x \in UNION Range(q)
    BY <2>1, <1>2
  <2>3. QED
    BY <2>2, <1>1
<1>7. UNION Range(Tail(q)) = (UNION Range(q)) \ Head(q)
  BY <1>4, Zenon
<1>8. QED
  BY <1>1, <1>5, <1>6, <1>7

-----------------------------------------------------------------------------
(* New buffers are installed: a put, or a get that reads from disk.         *)

Installs(S, t, new) ==
  /\ buf' = [g \in Groups |-> IF g \in S THEN [buf[g] EXCEPT ![t] = new[g]] ELSE buf[g]]
  /\ live' = (live \ ({buf[g][t] : g \in S} \ {Nil})) \cup {new[g] : g \in S}
  /\ used' = used \cup {new[g] : g \in S}

LEMMA InstallKeepsHeap ==
  ASSUME HeapType, HeapExact, NEW S \in SUBSET Groups, NEW t \in Tensors,
         NEW new \in Fresh(S), Installs(S, t, new), UNCHANGED freeQueue
  PROVE  /\ buf' \in [Groups -> [Tensors -> Buffers \cup {Nil}]]
         /\ live' \subseteq used' /\ used' \subseteq Buffers
         /\ HeapExact'
<1> DEFINE old == {buf[g][t] : g \in S} \ {Nil}
           fresh == {new[g] : g \in S}
<1>0. \A g, h \in Groups : \A x, y \in Tensors :
        buf[g][x] = buf[h][y] /\ buf[g][x] # Nil => g = h /\ x = y
  BY DEF HeapExact
<1>1. /\ new \in [S -> Buffers \ used]
      /\ \A g, h \in S : new[g] = new[h] => g = h
  BY DEF Fresh, IsInjective
<1>2. fresh \subseteq Buffers /\ fresh \cap used = {} /\ Nil \notin fresh
  BY <1>1, MemAssumption
<1>3. /\ buf' \in [Groups -> [Tensors -> Buffers \cup {Nil}]]
      /\ \A g \in Groups, u \in Tensors :
           buf'[g][u] = IF g \in S /\ u = t THEN new[g] ELSE buf[g][u]
  BY <1>1 DEF Installs, HeapType
<1>4. /\ \A b \in BufsOf(Groups) : b \in live
      /\ \A b \in Detached : b \in live
      /\ live \subseteq used
  BY DEF HeapExact, HeapType
<1>5. (BufsOf(Groups))' = (BufsOf(Groups) \ old) \cup fresh
  <2>1. ASSUME NEW b \in (BufsOf(Groups))'
        PROVE  b \in (BufsOf(Groups) \ old) \cup fresh
    <3>1. PICK g \in Groups, u \in Tensors : b = buf'[g][u] /\ b # Nil
      BY <2>1, BufsOfMemberNext
    <3>2. CASE g \in S /\ u = t
      BY <3>1, <3>2, <1>3
    <3>3. CASE ~(g \in S /\ u = t)
      <4>1. b = buf[g][u]
        BY <3>1, <3>3, <1>3
      <4>2. b \in BufsOf(Groups)
        BY <4>1, <3>1, BufsOfMember
      <4>3. b \notin old
        <5>1. ASSUME NEW h \in S, buf[h][t] = b
              PROVE  FALSE
          <6>1. h \in Groups
            OBVIOUS
          <6>2. buf[g][u] = buf[h][t] /\ buf[g][u] # Nil
            BY <5>1, <4>1, <3>1
          <6>3. g = h /\ u = t
            BY <6>1, <6>2, <1>0
          <6>4. QED
            BY <6>3, <3>3
        <5>2. QED
          BY <5>1
      <4>4. QED
        BY <4>2, <4>3
    <3>4. QED
      BY <3>2, <3>3
  <2>2. ASSUME NEW b \in BufsOf(Groups) \ old
        PROVE  b \in (BufsOf(Groups))'
    <3>1. PICK g \in Groups, u \in Tensors : b = buf[g][u] /\ b # Nil
      BY <2>2, BufsOfMember
    <3>2. ~(g \in S /\ u = t)
      BY <3>1, <2>2
    <3>3. b = buf'[g][u]
      BY <3>1, <3>2, <1>3
    <3>4. QED
      BY <3>1, <3>3, BufsOfMemberNext
  <2>3. ASSUME NEW g \in S
        PROVE  new[g] \in (BufsOf(Groups))'
    <3>1. new[g] = buf'[g][t] /\ new[g] # Nil /\ g \in Groups
      BY <1>2, <1>3
    <3>2. QED
      BY <3>1, BufsOfMemberNext
  <2>4. QED
    BY <2>1, <2>2, <2>3
<1>6. Detached' = Detached
  BY DEF Detached
<1>7. /\ live = BufsOf(Groups) \cup Detached
      /\ BufsOf(Groups) \cap Detached = {}
  BY DEF HeapExact
<1>8. old \subseteq BufsOf(Groups)
  BY BufsOfMember
<1>9. live' = (live \ old) \cup fresh
  BY DEF Installs
<1>10. live' = (BufsOf(Groups))' \cup Detached'
  BY <1>5, <1>6, <1>7, <1>8, <1>9
<1>11. (BufsOf(Groups))' \cap Detached' = {}
  BY <1>2, <1>4, <1>5, <1>6, <1>7
<1>12. ASSUME NEW g \in Groups, NEW h \in Groups, NEW x \in Tensors, NEW y \in Tensors,
              buf'[g][x] = buf'[h][y], buf'[g][x] # Nil
       PROVE  g = h /\ x = y
  <2>1. CASE g \in S /\ x = t /\ h \in S /\ y = t
    BY <2>1, <1>1, <1>3, <1>12
  <2>2. CASE g \in S /\ x = t /\ ~(h \in S /\ y = t)
    <3>1. buf[h][y] = new[g] /\ buf[h][y] # Nil
      BY <2>2, <1>3, <1>12
    <3>2. buf[h][y] \in BufsOf(Groups)
      BY <3>1, BufsOfMember
    <3>3. QED
      BY <3>1, <3>2, <2>2, <1>2, <1>4
  <2>3. CASE ~(g \in S /\ x = t) /\ h \in S /\ y = t
    <3>1. buf[g][x] = new[h] /\ buf[g][x] # Nil
      BY <2>3, <1>3, <1>12
    <3>2. buf[g][x] \in BufsOf(Groups)
      BY <3>1, BufsOfMember
    <3>3. QED
      BY <3>1, <3>2, <2>3, <1>2, <1>4
  <2>4. CASE ~(g \in S /\ x = t) /\ ~(h \in S /\ y = t)
    BY <2>4, <1>0, <1>3, <1>12
  <2>5. QED
    BY <2>1, <2>2, <2>3, <2>4
<1>13. HeapExact'
  BY <1>10, <1>11, <1>12 DEF HeapExact
<1>14. live' \subseteq used' /\ used' \subseteq Buffers
  BY <1>2 DEF Installs, HeapType
<1>15. QED
  BY <1>3, <1>13, <1>14

-----------------------------------------------------------------------------
(* One lemma per action.                                                   *)

LEMMA BatchFacts ==
  ASSUME NEW p \in Batches
  PROVE  Range(p) \subseteq Groups
  BY MemAssumption DEF Range

LEMMA IdleFacts == Idle.st = "idle"
  BY DEF Idle

LEMMA HeapUnchanged ==
  ASSUME HeapExact, UNCHANGED <<buf, live, freeQueue>>
  PROVE  HeapExact'
  BY DEF HeapExact, BufsOf, Detached

LEMMA PutKeeps ==
  ASSUME HeapInv, NEW p \in Batches, NEW t \in Tensors, Put(p, t)
  PROVE  HeapInv'
<1>1. PICK new \in Fresh(Range(p)) : PutIndex(p, t, new)
  BY DEF Put
<1>2. Range(p) \in SUBSET Groups
  BY BatchFacts
<1>3. Installs(Range(p), t, new)
  BY <1>1 DEF PutIndex, Installs, Replaced
<1>4. UNCHANGED <<freeQueue, freeing, guard, omp, held>> /\ omp = Idle
  BY DEF Put, readVars, freeVars
<1>5. /\ buf' \in [Groups -> [Tensors -> Buffers \cup {Nil}]]
      /\ live' \subseteq used' /\ used' \subseteq Buffers
      /\ HeapExact'
  BY <1>2, <1>3, <1>4, InstallKeepsHeap DEF HeapInv
<1>6. HeapType'
  BY <1>4, <1>5 DEF HeapInv, HeapType
<1>7. held = {}
  BY <1>4, IdleFacts DEF HeapInv, Reading
<1>8. Reading'
  BY <1>4, <1>7 DEF HeapInv, Reading
<1>9. QED
  BY <1>5, <1>6, <1>8 DEF HeapInv

LEMMA AcquireKeeps ==
  ASSUME HeapInv, NEW p \in Batches, NEW t \in Tensors, Acquire(p, t)
  PROVE  HeapInv'
<1>1. /\ omp = Idle /\ omp' = Busy("guarded", p, t) /\ guard' = guard + 1
      /\ UNCHANGED <<buf, live, used, freeQueue, freeing, held>>
  BY DEF Acquire, indexVars, heapVars, freeVars
<1>2. omp'.st = "guarded" /\ omp' # Idle
  BY <1>1 DEF Busy, Idle
<1>3. HeapType'
  BY <1>1 DEF HeapInv, HeapType
<1>4. HeapExact'
  BY <1>1, HeapUnchanged DEF HeapInv
<1>5. held = {}
  BY <1>1, IdleFacts DEF HeapInv, Reading
<1>6. Reading'
  BY <1>1, <1>2, <1>5 DEF HeapInv, Reading
<1>7. QED
  BY <1>3, <1>4, <1>6 DEF HeapInv

LEMMA GetKeeps ==
  ASSUME HeapInv, Get
  PROVE  HeapInv'
<1>1. PICK p \in Batches, t \in Tensors : omp = Busy("guarded", p, t)
  BY IdleFacts DEF Get, HeapInv, HeapType, Busy
<1>2. omp.st = "guarded" /\ omp.p = p /\ omp.t = t
  BY <1>1 DEF Busy
<1>3. PICK new \in Fresh(Loads) : LoadMisses(t, new)
  BY <1>2 DEF Get
<1>4. /\ held' = IF Hits \cup Loads = Range(p) THEN {buf'[g][t] : g \in Range(p)} ELSE {}
      /\ omp' = [omp EXCEPT !.st = "using"]
      /\ UNCHANGED <<guard, freeQueue, freeing>>
  BY <1>2 DEF Get, freeVars
<1>5. /\ Loads \in SUBSET Groups /\ Range(p) \in SUBSET Groups
      /\ \A g \in Range(p) : g \in Hits <=> buf[g][t] # Nil
      /\ \A g \in Loads : buf[g][t] = Nil
  BY <1>2, BatchFacts DEF Hits, Loads
<1>7. {buf[g][t] : g \in Loads} \ {Nil} = {}
  BY <1>5
<1>8. Installs(Loads, t, new)
  BY <1>3, <1>7 DEF Installs, LoadMisses
<1>9. /\ buf' \in [Groups -> [Tensors -> Buffers \cup {Nil}]]
      /\ live' \subseteq used' /\ used' \subseteq Buffers
      /\ HeapExact'
  BY <1>4, <1>5, <1>8, InstallKeepsHeap DEF HeapInv
<1>10. omp' = Busy("using", p, t) /\ omp'.st = "using" /\ omp' # Idle /\ omp # Idle
  BY <1>1, <1>4 DEF Busy, Idle
<1>11. HeapType'
  BY <1>4, <1>9, <1>10 DEF HeapInv, HeapType
<1>12. ASSUME NEW g \in Range(p), g \in Hits \cup Loads
       PROVE  buf'[g][t] \in (BufsOf(Groups))'
  <2>1. g \in Groups /\ new \in [Loads -> Buffers \ used]
    BY <1>5 DEF Fresh
  <2>2. CASE g \in Loads
    <3>1. buf'[g][t] = new[g] /\ new[g] \in Buffers
      BY <2>1, <2>2, <1>3 DEF HeapInv, HeapType, LoadMisses
    <3>2. QED
      BY <2>1, <3>1, MemAssumption, BufsOfMemberNext
  <2>3. CASE g \notin Loads
    <3>1. buf'[g][t] = buf[g][t] /\ buf[g][t] # Nil
      BY <2>1, <2>3, <1>3, <1>5, <1>12 DEF LoadMisses
    <3>2. QED
      BY <2>1, <3>1, BufsOfMemberNext
  <2>4. QED
    BY <2>2, <2>3
<1>13. held' \subseteq (BufsOf(Groups))'
  BY <1>4, <1>12
<1>14. /\ live' = (BufsOf(Groups))' \cup Detached'
       /\ (BufsOf(Groups))' \cap Detached' = {}
  BY <1>9 DEF HeapExact
<1>15. freeQueue # <<>> => Head(freeQueue) \subseteq Detached
  BY TailUnion DEF HeapInv, HeapType, HeapExact, Detached
<1>16. Detached' = Detached
  BY <1>4 DEF Detached
<1>17. Reading'
  BY <1>4, <1>10, <1>13, <1>14, <1>15, <1>16 DEF HeapInv, Reading
<1>18. QED
  BY <1>9, <1>11, <1>17 DEF HeapInv

LEMMA ReleaseKeeps ==
  ASSUME HeapInv, Release
  PROVE  HeapInv'
<1>1. /\ omp.st = "using" /\ omp' = Idle /\ held' = {} /\ guard' = guard - 1
      /\ UNCHANGED <<buf, live, used, freeQueue, freeing>>
  BY DEF Release, indexVars, heapVars, freeVars
<1>2. omp # Idle
  BY <1>1, IdleFacts
<1>3. HeapType'
  BY <1>1 DEF HeapInv, HeapType
<1>4. HeapExact'
  BY <1>1, HeapUnchanged DEF HeapInv
<1>5. Reading'
  BY <1>1, <1>2 DEF HeapInv, Reading
<1>6. QED
  BY <1>3, <1>4, <1>5 DEF HeapInv

LEMMA EvictLabelsKeeps ==
  ASSUME HeapInv, NEW p \in Batches, EvictLabels(Range(p))
  PROVE  HeapInv'
<1> DEFINE gs == Range(p)
           cut == BufsOf(gs)
<1>1. /\ buf' = [g \in Groups |-> IF g \in gs THEN [t \in Tensors |-> Nil] ELSE buf[g]]
      /\ freeQueue' = Append(freeQueue, cut)
      /\ UNCHANGED <<live, used, guard, omp, held, freeing>>
  BY DEF EvictLabels, Unlink, heapVars, readVars
<1>2. gs \in SUBSET Groups
  BY BatchFacts
<1>3. /\ buf \in [Groups -> [Tensors -> Buffers \cup {Nil}]]
      /\ \A g, h \in Groups : \A x, y \in Tensors :
           buf[g][x] = buf[h][y] /\ buf[g][x] # Nil => g = h /\ x = y
      /\ freeQueue \in Seq(SUBSET Buffers)
      /\ live = BufsOf(Groups) \cup Detached
      /\ BufsOf(Groups) \cap Detached = {}
      /\ \A i, j \in 1..Len(freeQueue) : i # j => freeQueue[i] \cap freeQueue[j] = {}
  BY DEF HeapInv, HeapType, HeapExact
<1>4. /\ buf' \in [Groups -> [Tensors -> Buffers \cup {Nil}]]
      /\ \A g \in Groups, t \in Tensors : buf'[g][t] = IF g \in gs THEN Nil ELSE buf[g][t]
  BY <1>1, <1>3
<1>5. cut \subseteq BufsOf(Groups) /\ cut \in SUBSET Buffers
  BY <1>2, <1>3 DEF BufsOf
<1>6. (BufsOf(Groups))' = BufsOf(Groups) \ cut
  <2>1. ASSUME NEW b \in (BufsOf(Groups))'
        PROVE  b \in BufsOf(Groups) \ cut
    <3>1. PICK g \in Groups, u \in Tensors : b = buf'[g][u] /\ b # Nil
      BY <2>1, BufsOfMemberNext
    <3>2. g \notin gs /\ b = buf[g][u]
      BY <3>1, <1>4
    <3>3. b \in BufsOf(Groups)
      BY <3>1, <3>2, BufsOfMember
    <3>4. ASSUME b \in cut
          PROVE  FALSE
      <4>1. PICK h \in gs, x \in Tensors : b = buf[h][x]
        BY <3>4, BufsOfMember
      <4>2. h \in Groups /\ buf[g][u] = buf[h][x] /\ buf[g][u] # Nil
        BY <4>1, <3>1, <3>2, <1>2
      <4>3. g = h
        BY <4>2, <1>3
      <4>4. QED
        BY <4>1, <4>3, <3>2
    <3>5. QED
      BY <3>3, <3>4
  <2>2. ASSUME NEW b \in BufsOf(Groups) \ cut
        PROVE  b \in (BufsOf(Groups))'
    <3>1. PICK g \in Groups, u \in Tensors : b = buf[g][u] /\ b # Nil
      BY <2>2, BufsOfMember
    <3>2. g \notin gs
      BY <3>1, <2>2, BufsOfMember
    <3>3. b = buf'[g][u]
      BY <3>1, <3>2, <1>4
    <3>4. QED
      BY <3>1, <3>3, BufsOfMemberNext
  <2>3. QED
    BY <2>1, <2>2
<1>7. Detached' = Detached \cup cut
  BY <1>1, <1>3, <1>5, AppendUnion DEF Detached
<1>8. /\ Len(freeQueue') = Len(freeQueue) + 1 /\ Len(freeQueue) \in Nat
      /\ \A i \in 1..Len(freeQueue) : freeQueue'[i] = freeQueue[i]
      /\ freeQueue'[Len(freeQueue) + 1] = cut
      /\ freeQueue' \in Seq(SUBSET Buffers)
      /\ freeQueue # <<>> => Head(freeQueue') = Head(freeQueue)
      /\ freeQueue' # <<>>
  BY <1>1, <1>3, <1>5
<1>9. \A i \in 1..Len(freeQueue) : freeQueue[i] \subseteq Detached
  BY <1>3 DEF Detached, Range
<1>10. \A i, j \in 1..Len(freeQueue') : i # j => freeQueue'[i] \cap freeQueue'[j] = {}
  <2>1. SUFFICES ASSUME NEW i \in 1..Len(freeQueue'), NEW j \in 1..Len(freeQueue'), i # j
                 PROVE  freeQueue'[i] \cap freeQueue'[j] = {}
    OBVIOUS
  <2>2. \A k \in 1..Len(freeQueue) : freeQueue[k] \cap cut = {}
    BY <1>3, <1>5, <1>9
  <2>3. CASE i \in 1..Len(freeQueue) /\ j \in 1..Len(freeQueue)
    BY <2>1, <2>3, <1>3, <1>8
  <2>4. CASE i = Len(freeQueue) + 1 /\ j \in 1..Len(freeQueue)
    BY <2>2, <2>4, <1>8
  <2>5. CASE j = Len(freeQueue) + 1 /\ i \in 1..Len(freeQueue)
    BY <2>2, <2>5, <1>8
  <2>6. QED
    BY <2>1, <2>3, <2>4, <2>5, <1>8
<1>11. \A g, h \in Groups : \A t, u \in Tensors :
         buf'[g][t] = buf'[h][u] /\ buf'[g][t] # Nil => g = h /\ t = u
  BY <1>3, <1>4
<1>12. HeapExact'
  BY <1>1, <1>3, <1>5, <1>6, <1>7, <1>10, <1>11 DEF HeapExact
<1>13. HeapType'
  BY <1>1, <1>4, <1>8 DEF HeapInv, HeapType
<1>14. Reading'
  BY <1>1, <1>8 DEF HeapInv, Reading
<1>15. QED
  BY <1>12, <1>13, <1>14 DEF HeapInv

LEMMA FreeWaitKeeps ==
  ASSUME HeapInv, FreeWait
  PROVE  HeapInv'
<1>1. /\ freeQueue # <<>> /\ guard = 0 /\ freeing' = TRUE
      /\ UNCHANGED <<buf, live, used, guard, omp, held, freeQueue>>
  BY DEF FreeWait, Unguarded, indexVars, heapVars, readVars
<1>2. held = {}
  BY <1>1, IdleFacts DEF HeapInv, Reading
<1>3. HeapType'
  BY <1>1 DEF HeapInv, HeapType
<1>4. HeapExact'
  BY <1>1, HeapUnchanged DEF HeapInv
<1>5. Reading'
  BY <1>1, <1>2 DEF HeapInv, Reading
<1>6. QED
  BY <1>3, <1>4, <1>5 DEF HeapInv

LEMMA FreeBatchKeeps ==
  ASSUME HeapInv, FreeBatch
  PROVE  HeapInv'
<1>1. /\ freeing /\ freeing' = FALSE /\ live' = live \ Head(freeQueue)
      /\ freeQueue' = Tail(freeQueue)
      /\ UNCHANGED <<buf, used, guard, omp, held>>
  BY DEF FreeBatch, indexVars, readVars
<1>2. /\ freeQueue # <<>> /\ held \cap Head(freeQueue) = {}
      /\ freeQueue \in Seq(SUBSET Buffers)
      /\ \A i, j \in 1..Len(freeQueue) : i # j => freeQueue[i] \cap freeQueue[j] = {}
  BY <1>1 DEF HeapInv, HeapType, HeapExact, Reading
<1>3. /\ Detached' = Detached \ Head(freeQueue)
      /\ \A i, j \in 1..Len(freeQueue') : i # j => freeQueue'[i] \cap freeQueue'[j] = {}
      /\ Head(freeQueue) \subseteq Detached
      /\ freeQueue' \in Seq(SUBSET Buffers)
  BY <1>1, <1>2, TailUnion DEF Detached
<1>4. (BufsOf(Groups))' = BufsOf(Groups)
  BY <1>1 DEF BufsOf
<1>5. HeapExact'
  BY <1>1, <1>3, <1>4 DEF HeapInv, HeapExact
<1>6. HeapType'
  BY <1>1, <1>3 DEF HeapInv, HeapType
<1>7. Reading'
  BY <1>1, <1>2 DEF HeapInv, Reading
<1>8. QED
  BY <1>5, <1>6, <1>7 DEF HeapInv

\* Persisting, the database and stuttering leave the buffers alone.
LEMMA OtherKeeps ==
  ASSUME HeapInv, UNCHANGED <<buf, heapVars, readVars, freeVars>>
  PROVE  HeapInv'
<1>1. UNCHANGED <<buf, live, used, guard, omp, held, freeQueue, freeing>>
  BY DEF heapVars, readVars, freeVars
<1>2. HeapType'
  BY <1>1 DEF HeapInv, HeapType
<1>3. HeapExact'
  BY <1>1, HeapUnchanged DEF HeapInv
<1>4. Reading'
  BY <1>1 DEF HeapInv, Reading
<1>5. QED
  BY <1>2, <1>3, <1>4 DEF HeapInv

-----------------------------------------------------------------------------
(* The theorems.                                                           *)

LEMMA HeapInit == Init => HeapInv
<1> SUFFICES ASSUME Init
             PROVE  HeapInv
  OBVIOUS
<1>1. /\ buf = [g \in Groups |-> [t \in Tensors |-> Nil]]
      /\ live = {} /\ used = {} /\ guard = 0 /\ omp = Idle /\ held = {}
      /\ freeQueue = <<>> /\ freeing = FALSE
  BY DEF Init
<1>2. HeapType
  BY <1>1 DEF HeapType
<1>3. BufsOf(Groups) = {} /\ Detached = {}
  BY <1>1 DEF BufsOf, Detached, Range
<1>4. HeapExact
  BY <1>1, <1>3 DEF HeapExact
<1>5. QED
  BY <1>1, <1>2, <1>4 DEF HeapInv, Reading

LEMMA HeapStep ==
  ASSUME Evictors = {}, HeapInv, [Next]_vars
  PROVE  HeapInv'
<1>1. ASSUME NEW p \in Batches, NEW t \in Tensors, Put(p, t) \/ Acquire(p, t)
      PROVE  HeapInv'
  BY <1>1, PutKeeps, AcquireKeeps
<1>2. CASE Get \/ Release
  BY <1>2, GetKeeps, ReleaseKeeps
<1>3. CASE FreeThread
  BY <1>3, FreeWaitKeeps, FreeBatchKeeps DEF FreeThread
<1>4. ASSUME NEW p \in Batches, EvictLabels(Range(p))
      PROVE  HeapInv'
  BY <1>4, EvictLabelsKeeps
<1>5. ASSUME NEW p \in Batches, RecordSubmit(p)
      PROVE  HeapInv'
  BY <1>5, OtherKeeps DEF RecordSubmit, indexVars
<1>6. ASSUME NEW n \in 1..MaxPersist, Persist(n)
      PROVE  HeapInv'
  BY <1>6, OtherKeeps DEF Persist
<1>7. CASE UNCHANGED vars
  BY <1>7, OtherKeeps DEF vars, indexVars
<1>8. QED
  BY <1>1, <1>2, <1>3, <1>4, <1>5, <1>6, <1>7 DEF Next, OmpMain

\* Without the calls that free at once, every malloc'ed buffer is owned by
\* exactly one entry or one batch of the free queue, and by nobody once freed.
THEOREM Ownership == ASSUME Evictors = {} PROVE Spec => []HeapExact
<1>1. HeapInv /\ [Next]_vars => HeapInv'
  BY HeapStep
<1>2. HeapInv => HeapExact
  BY DEF HeapInv
<1>3. QED
  BY <1>1, <1>2, HeapInit, PTL DEF Spec

\* Nor does the free thread take a batch that a running load has pointers into,
\* whenever evict_labels unlinked it.
THEOREM FreesApart == ASSUME Evictors = {} PROVE Spec => []DetachedApart
<1>1. HeapInv /\ [Next]_vars => HeapInv'
  BY HeapStep
<1>2. HeapInv => DetachedApart
  BY DEF HeapInv, Reading, DetachedApart
<1>3. QED
  BY <1>1, <1>2, HeapInit, PTL DEF Spec

\* Without them no load decompresses from a freed buffer: a batch is freed by a
\* thread that has seen the guard at zero after the batch was unlinked.
THEOREM GuardSafety == ASSUME Evictors = {} PROVE Spec => []NoUseAfterFree
<1>1. HeapInv /\ [Next]_vars => HeapInv'
  BY HeapStep
<1>2. HeapInv => NoUseAfterFree
  BY DEF HeapInv, Reading, NoUseAfterFree
<1>3. QED
  BY <1>1, <1>2, HeapInit, PTL DEF Spec

=============================================================================
