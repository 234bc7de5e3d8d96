------------------------- MODULE EvictProtocolProofs -------------------------
(***************************************************************************)
(* The lease, proved for every number of ranks, groups, layers, requests   *)
(* and every lease length: as long as the monitor forces nothing out       *)
(* (min_count = 0) no group that a live request asked about is selected.   *)
(***************************************************************************)
EXTENDS EvictProtocol, FiniteSetTheorems, SequenceTheorems, WellFoundedInduction, TLAPS

\* The monitor never needs FORCE: min_count is 0.
NoForce == \A c \in EvictCounts : c[2] = 0

\* The part of the state the lease argument reads.
LeaseType ==
  /\ now \in Nat
  /\ rows \in [Ranks -> SUBSET Groups]
  /\ persisted \in [Ranks -> SUBSET Groups]
  /\ la \in [Groups -> Int]
  /\ cmd \in [Ranks -> Seq(Step)]
  /\ req \in [Reqs -> ReqState]
  /\ pass.min = 0 /\ pass.max \in Nat /\ pass.evicted \in Nat
  /\ evicting \in SUBSET Groups

\* Every row a live request asked about was stamped at or after the request's
\* has(), which lies within the lease.
Leased(q) ==
  /\ req[q].st # "idle" => /\ req[q].start <= now
                           /\ now - req[q].start <= Lease
  /\ \A g \in Keys(q) : /\ req[q].st # "idle"
                        /\ g \in rows[Rank0] => la[g] >= req[q].start * SubTicks
                        /\ g \notin evicting

LeaseInv == LeaseType /\ \A q \in Reqs : Leased(q)

-----------------------------------------------------------------------------
(* Operators.                                                              *)

LEMMA TimesInt ==
  \A a, b \in Int : a * b \in Int
  BY SMT

LEMMA TimesMonotone ==
  \A a, b, c \in Int : 0 <= c /\ a <= b => a * c <= b * c
  BY SMT

\* A batch stamps its rows at or after the clock.
LEMMA StampAfterNow ==
  ASSUME NEW p \in Seq(Groups), NEW g \in Range(p), now \in Nat
  PROVE  Stamp(p, g) \in Int /\ Stamp(p, g) >= now * SubTicks
<1>1. \E i \in 1..Len(p) : p[i] = g
  BY DEF Range
<1>2. (CHOOSE i \in 1..Len(p) : p[i] = g) \in 1..Len(p)
  BY <1>1
<1>3. Len(p) \in Nat /\ SubTicks \in Nat
  BY ConstantsAssumption
<1>4. now * SubTicks \in Int
  BY <1>3, SMT
<1>5. QED
  BY <1>2, <1>3, <1>4 DEF Stamp

\* has() cuts its prompt in two; both halves list groups of the prompt.
LEMMA MatchedBounds ==
  ASSUME NEW p \in Seq(Groups)
  PROVE  Matched(p) \in 0..Len(p)
<1> DEFINE S == {j \in 1..Len(p) : \A k \in 1..j : p[k] \in rows[Rank0]}
<1>0. Len(p) \in Nat
  OBVIOUS
<1>1. IsFiniteSet(1..Len(p)) /\ Cardinality(1..Len(p)) = Len(p)
  BY <1>0, FS_Interval, 1 \in Int, Len(p) \in Int
<1>2. S \subseteq 1..Len(p)
  OBVIOUS
<1>3. IsFiniteSet(S) /\ Cardinality(S) <= Len(p)
  BY <1>1, <1>2, FS_Subset
<1>4. Cardinality(S) \in Nat
  BY <1>3, FS_CardinalityType
<1>5. QED
  BY <1>3, <1>4 DEF Matched

LEMMA SubSeqHalves ==
  ASSUME NEW p \in Seq(Groups), NEW m \in 0..Len(p)
  PROVE  /\ SubSeq(p, 1, m) \in Seq(Groups)
         /\ SubSeq(p, m + 1, Len(p)) \in Seq(Groups)
         /\ Range(SubSeq(p, 1, m)) \subseteq Range(p)
         /\ Range(SubSeq(p, m + 1, Len(p))) \subseteq Range(p)
  BY DEF Range

LEMMA RangeInGroups ==
  ASSUME NEW p \in Seq(Groups)
  PROVE  Range(p) \subseteq Groups
  BY DEF Range

\* Record::evict selects nothing on or above the lease bound.
LEMMA SelectedBelowLease ==
  ASSUME LeaseType
  PROVE  /\ Selected \subseteq rows[Rank0]
         /\ \A g \in Selected : la[g] < Before
<1> DEFINE limit == Lesser(EvictBatch, pass.max - pass.evicted)
           least == Lesser(Lesser(EvictBatch, pass.min - pass.evicted), limit)
<1>1. rows[Rank0] \subseteq Groups /\ IsFiniteSet(Groups)
  BY ConstantsAssumption DEF LeaseType
<1>2. \A S \in SUBSET Groups : Cardinality(S) \in Nat
  BY <1>1, FS_Subset, FS_CardinalityType
<1>3. least \in Int /\ least <= 0
  BY ConstantsAssumption DEF LeaseType, Lesser
<1>4. Oldest(Forever, least) = {}
  <2> SUFFICES ASSUME NEW g \in Oldest(Forever, least) PROVE FALSE
    OBVIOUS
  <2> DEFINE older == {h \in {k \in Resident : la[k] < Forever} : la[h] < la[g]}
  <2>1. older \in SUBSET Groups
    BY <1>1 DEF Resident
  <2>2. Cardinality(older) < least
    BY DEF Oldest
  <2>3. Cardinality(older) \in Nat
    BY <1>2, <2>1
  <2>4. QED
    <3> HIDE DEF least, older
    <3> QED BY <1>3, <2>2, <2>3
<1>5. \A g \in Oldest(Before, limit) : g \in Groups /\ la[g] < Before
  BY <1>1 DEF Oldest, Resident
<1>6. Before \in Int
  <2>1. now \in Int /\ Lease \in Int /\ SubTicks \in Int
    BY ConstantsAssumption DEF LeaseType
  <2>2. QED
    BY <2>1, TimesInt DEF Before
<1>7. ASSUME NEW g \in Selected PROVE g \in rows[Rank0] /\ la[g] < Before
  <2>1. g \in Resident /\ \E h \in Oldest(Before, limit) : la[g] <= la[h]
    BY <1>4 DEF Selected
  <2>2. g \in rows[Rank0]
    BY <2>1 DEF Resident
  <2>3. PICK h \in Oldest(Before, limit) : la[g] <= la[h]
    BY <2>1
  <2>4. la[g] \in Int /\ la[h] \in Int /\ la[h] < Before
    BY <1>1, <1>5, <2>2, <2>3 DEF LeaseType
  <2>5. QED
    BY <1>6, <2>2, <2>3, <2>4
<1>8. QED
  BY <1>7

-----------------------------------------------------------------------------
(* The inductive invariant.                                                *)

LEMMA LeaseInit == Init => LeaseInv
<1> SUFFICES ASSUME Init PROVE LeaseInv
  OBVIOUS
<1>1. LeaseType
  BY DEF Init, LeaseType, Idle, ReqState, NoPass
<1>2. \A q \in Reqs : Keys(q) = {} /\ req[q].st = "idle"
  BY DEF Init, Keys, Idle, Range
<1>3. QED
  BY <1>1, <1>2 DEF LeaseInv, Leased

\* A step that leaves requests, rows and labels alone keeps every lease that
\* the clock keeps.
LEMMA LeaseUnchanged ==
  ASSUME LeaseInv, UNCHANGED <<now, rows, la, cmd, req, evicting>>,
         persisted' \in [Ranks -> SUBSET Groups],
         pass'.min = 0, pass'.max \in Nat, pass'.evicted \in Nat
  PROVE  LeaseInv'
<1>1. LeaseType'
  BY DEF LeaseInv, LeaseType
<1>2. ASSUME NEW q \in Reqs PROVE Leased(q)'
  BY DEF LeaseInv, Leased, Keys
<1>3. QED
  BY <1>1, <1>2 DEF LeaseInv

\* So does one that stamps rows with the current time and adds commands.
LEMMA LeaseStamped ==
  ASSUME LeaseInv, LeaseType', UNCHANGED <<now, req, evicting>>,
         \A g \in Groups : g \in rows'[Rank0] =>
            \/ la'[g] = la[g] /\ g \in rows[Rank0]
            \/ la'[g] >= now * SubTicks
  PROVE  LeaseInv'
<1>1. ASSUME NEW q \in Reqs PROVE Leased(q)'
  <2>1. Leased(q)
    BY DEF LeaseInv
  <2>2. Keys(q)' = Keys(q)
    BY DEF Keys
  <2>3. ASSUME NEW g \in Keys(q), g \in rows'[Rank0]
        PROVE  la'[g] >= req[q].start * SubTicks
    <3>1. req[q].start <= now
      BY <2>1 DEF Leased
    <3>2. req[q].start \in Int /\ now \in Int /\ SubTicks \in Int /\ 0 <= SubTicks
      BY ConstantsAssumption DEF LeaseInv, LeaseType, ReqState
    <3>3. req[q].start * SubTicks <= now * SubTicks
      BY <3>1, <3>2, TimesMonotone
    <3>4. g \in Groups /\ la'[g] \in Int
      <4>1. g \in Groups
        BY <2>3, ConstantsAssumption DEF LeaseType
      <4>2. QED
        BY <4>1 DEF LeaseType
    <3>5. req[q].start * SubTicks \in Int /\ now * SubTicks \in Int
      BY <3>2, TimesInt
    <3>6. CASE la'[g] >= now * SubTicks
      BY <3>3, <3>4, <3>5, <3>6
    <3>7. CASE la'[g] = la[g] /\ g \in rows[Rank0]
      BY <2>1, <3>7 DEF Leased
    <3>8. QED
      BY <2>3, <3>4, <3>6, <3>7
  <2>4. QED
    BY <2>1, <2>2, <2>3 DEF Leased
<1>2. QED
  BY <1>1 DEF LeaseInv

LEMMA HasKeepsLease ==
  ASSUME LeaseInv, NEW q \in Reqs, NEW p \in Prompts, Has(q, p)
  PROVE  LeaseInv'
<1>1. p \in Seq(Groups) /\ SubTicks \in Nat
  BY ConstantsAssumption
<1>2. Matched(p) \in 0..Len(p)
  BY <1>1, MatchedBounds
<1>3. /\ req'[q].load \in Seq(Groups) /\ req'[q].save \in Seq(Groups)
      /\ Range(req'[q].load) \subseteq Range(p)
      /\ Range(req'[q].save) \subseteq Range(p)
      /\ req'[q].st = "looked" /\ req'[q].start = now
      /\ req' = [req EXCEPT ![q] = req'[q]]
  BY <1>1, <1>2, SubSeqHalves DEF Has, LeaseInv, LeaseType
<1>4. ASSUME NEW g \in Groups
      PROVE  /\ la'[g] \in Int
             /\ la'[g] = la[g] \/ la'[g] >= now * SubTicks
             /\ g \in Range(p) /\ g \in rows[Rank0] => la'[g] >= now * SubTicks
  <2>1. g \in Range(p) => Stamp(p, g) \in Int /\ Stamp(p, g) >= now * SubTicks
    BY <1>1, StampAfterNow DEF LeaseInv, LeaseType
  <2>2. QED
    BY <2>1 DEF Has, Touched, LeaseInv, LeaseType
<1>5. LeaseType'
  <2>1. la' \in [Groups -> Int]
    BY <1>4 DEF Has
  <2>2. req'[q] \in ReqState
    BY <1>3 DEF Has, LeaseInv, LeaseType, ReqState
  <2>3. QED
    BY <1>3, <2>1, <2>2 DEF Has, LeaseInv, LeaseType, queueVars, evictVars
<1>6. ASSUME NEW k \in Reqs PROVE Leased(k)'
  <2>1. CASE k = q
    <3>1. Keys(k)' \subseteq Range(p)
      BY <1>3, <2>1 DEF Keys
    <3>2. \A g \in Keys(k)' : g \notin evicting /\ g \in Groups
      BY <1>1, <3>1, RangeInGroups DEF Has, MayLook
    <3>3. \A g \in Keys(k)' : g \in rows[Rank0] => la'[g] >= now * SubTicks
      BY <1>4, <3>1, <3>2
    <3>4. now - now <= Lease /\ now <= now
      BY ConstantsAssumption DEF LeaseInv, LeaseType
    <3>5. UNCHANGED <<now, rows, evicting>>
      BY DEF Has, evictVars
    <3>6. QED
      BY <1>3, <2>1, <3>2, <3>3, <3>4, <3>5 DEF Leased
  <2>2. CASE k # q
    <3>1. req'[k] = req[k] /\ Keys(k)' = Keys(k)
      BY <1>3, <2>2 DEF Keys, LeaseInv, LeaseType
    <3>2. Leased(k) /\ req[k].start \in Nat /\ now \in Nat
      BY DEF LeaseInv, LeaseType, ReqState
    <3>3. UNCHANGED <<now, rows, evicting>>
      BY DEF Has, evictVars
    <3>4. ASSUME NEW g \in Keys(k), g \in rows[Rank0]
          PROVE  la'[g] >= req[k].start * SubTicks
      <4>1. g \in Groups /\ la[g] \in Int
        BY <3>4, ConstantsAssumption DEF LeaseInv, LeaseType
      <4>2. req[k].start <= now /\ la[g] >= req[k].start * SubTicks
        BY <3>2, <3>4 DEF Leased
      <4>3. req[k].start * SubTicks <= now * SubTicks
        BY <1>1, <3>2, <4>2, TimesMonotone
      <4>4. req[k].start * SubTicks \in Int /\ now * SubTicks \in Int
        BY <1>1, <3>2, TimesInt
      <4>5. QED
        BY <1>4, <4>1, <4>2, <4>3, <4>4
    <3>5. QED
      BY <3>1, <3>2, <3>3, <3>4 DEF Leased
  <2>3. QED
    BY <2>1, <2>2
<1>7. QED
  BY <1>5, <1>6 DEF LeaseInv

LEMMA DispatchKeepsLease ==
  ASSUME LeaseInv, NEW q \in Reqs, Dispatch(q)
  PROVE  LeaseInv'
<1>1. req[q] \in ReqState /\ req'[q] \in ReqState
  BY DEF LeaseInv, LeaseType, Dispatch, ReqState
<1>2. [req |-> q, load |-> req[q].load, save |-> req[q].save, layer |-> 0] \in Step
  BY <1>1, ConstantsAssumption DEF ReqState, Step
<1>3. LeaseType'
  BY <1>1, <1>2 DEF LeaseInv, LeaseType, Dispatch, dbVars, evictVars
<1>4. ASSUME NEW k \in Reqs PROVE Leased(k)'
  <2>1. Leased(k) /\ Keys(k)' = Keys(k) /\ req'[k].start = req[k].start
        /\ (req'[k].st # "idle" <=> req[k].st # "idle")
    BY DEF LeaseInv, LeaseType, Dispatch, Keys
  <2>2. QED
    BY <2>1 DEF Dispatch, Leased, dbVars, evictVars
<1>5. QED
  BY <1>3, <1>4 DEF LeaseInv

\* A finished request holds no lease; nor does any request after a restart.
LEMMA FinishKeepsLease ==
  ASSUME LeaseInv, NEW q \in Reqs, Finish(q)
  PROVE  LeaseInv'
<1>1. Idle \in ReqState /\ Range(Idle.load) = {} /\ Range(Idle.save) = {}
  BY DEF Idle, ReqState, Range
<1>2. LeaseType'
  BY <1>1 DEF LeaseInv, LeaseType, Finish, dbVars, queueVars, evictVars
<1>3. ASSUME NEW k \in Reqs PROVE Leased(k)'
  <2>1. CASE k = q
    <3>1. req'[k] = Idle
      BY <2>1 DEF LeaseInv, LeaseType, Finish
    <3>2. QED
      BY <1>1, <3>1 DEF Leased, Keys, Idle
  <2>2. CASE k # q
    <3>1. Leased(k) /\ req'[k] = req[k]
      BY <2>2 DEF LeaseInv, LeaseType, Finish
    <3>2. QED
      BY <3>1 DEF Leased, Keys, Finish, dbVars, evictVars
  <2>3. QED
    BY <2>1, <2>2
<1>4. QED
  BY <1>2, <1>3 DEF LeaseInv

LEMMA HeadOfCommands ==
  ASSUME LeaseType, NEW r \in Ranks, cmd[r] # <<>>
  PROVE  /\ Head(cmd[r]) \in Step
         /\ Tail(cmd[r]) \in Seq(Step)
         /\ \A c \in Step : <<c>> \o Tail(cmd[r]) \in Seq(Step)
  BY DEF LeaseType

LEMMA StepAtLayer ==
  ASSUME NEW c \in Step, NEW l \in 0..NumLayers
  PROVE  [c EXCEPT !.layer = l] \in Step
  BY DEF Step

LEMMA StartLoadKeepsLease ==
  ASSUME LeaseInv, NEW r \in Ranks, StartLoad(r)
  PROVE  LeaseInv'
<1> DEFINE c == Head(cmd[r])
<1>1. c \in Step /\ [c EXCEPT !.layer = 1] \in Step
  <2>1. c \in Step
    BY HeadOfCommands DEF StartLoad, LeaseInv
  <2>2. 1 \in 0..NumLayers
    BY ConstantsAssumption
  <2>3. QED
    BY <2>1, <2>2, StepAtLayer
<1>2. cmd'[r] \in Seq(Step) /\ cmd' = [cmd EXCEPT ![r] = cmd'[r]]
  BY <1>1, HeadOfCommands DEF StartLoad, LeaseInv, LeaseType
<1>3. LeaseType'
  BY <1>2 DEF StartLoad, LeaseInv, LeaseType, dbVars, evictVars
<1>4. QED
  BY <1>3, LeaseStamped DEF StartLoad, LeaseInv, LeaseType, dbVars, evictVars

LEMMA SaveLayerKeepsLease ==
  ASSUME LeaseInv, NEW r \in Ranks, SaveLayer(r)
  PROVE  LeaseInv'
<1> DEFINE c == Head(cmd[r])
<1>1. c \in Step
  BY HeadOfCommands DEF SaveLayer, LeaseInv
<1>2. c.save \in Seq(Groups) /\ Range(c.save) \subseteq Groups
  BY <1>1, RangeInGroups DEF Step
<1>3. CASE c.layer < FinishLayer
  <2>1. [c EXCEPT !.layer = @ + 1] \in Step
    <3>1. c.layer \in 0..NumLayers /\ NumLayers \in Nat
      BY <1>1, ConstantsAssumption DEF Step
    <3>2. c.layer + 1 \in 0..NumLayers
      BY <1>3, <3>1 DEF FinishLayer
    <3>3. QED
      BY <1>1, <3>2, StepAtLayer
  <2>2. cmd'[r] \in Seq(Step) /\ cmd' = [cmd EXCEPT ![r] = cmd'[r]]
    BY <1>3, <2>1, HeadOfCommands DEF SaveLayer, LeaseInv, LeaseType
  <2>3. UNCHANGED <<rows, persisted, la, now, req, evicting, pass>>
    BY <1>3 DEF SaveLayer, dbVars, evictVars
  <2>4. LeaseType'
    BY <2>2, <2>3 DEF LeaseInv, LeaseType
  <2>5. QED
    BY <2>3, <2>4, LeaseStamped
<1>4. CASE ~(c.layer < FinishLayer)
  <2>1. Submit(r, c.save) /\ cmd' = [cmd EXCEPT ![r] = Tail(@)]
        /\ UNCHANGED <<now, req, evicting, pass>>
    BY <1>4 DEF SaveLayer, evictVars
  <2>2. cmd' \in [Ranks -> Seq(Step)]
    BY <2>1, HeadOfCommands DEF LeaseInv, LeaseType, SaveLayer
  <2>3. ASSUME NEW g \in Groups
        PROVE  /\ la'[g] \in Int
               /\ g \in rows'[Rank0] => \/ la'[g] = la[g] /\ g \in rows[Rank0]
                                        \/ la'[g] >= now * SubTicks
    <3>1. g \in Range(c.save) => /\ Stamp(c.save, g) \in Int
                                 /\ Stamp(c.save, g) >= now * SubTicks
      BY <1>2, StampAfterNow DEF LeaseInv, LeaseType
    <3>2. la'[g] = IF r = Rank0 /\ g \in Range(c.save) THEN Stamp(c.save, g) ELSE la[g]
      BY <2>1 DEF Submit
    <3>3. g \in rows'[Rank0] => g \in rows[Rank0] \/ (r = Rank0 /\ g \in Range(c.save))
      BY <2>1, ConstantsAssumption DEF Submit, LeaseInv, LeaseType
    <3>4. QED
      BY <3>1, <3>2, <3>3 DEF LeaseInv, LeaseType
  <2>4. la' \in [Groups -> Int] /\ rows' \in [Ranks -> SUBSET Groups]
    <3>1. la' \in [Groups -> Int]
      BY <2>1, <2>3 DEF Submit
    <3>2. rows' \in [Ranks -> SUBSET Groups]
      BY <1>2, <2>1 DEF Submit, LeaseInv, LeaseType
    <3>3. QED
      BY <3>1, <3>2
  <2>5. LeaseType'
    BY <2>1, <2>2, <2>4 DEF LeaseInv, LeaseType, Submit
  <2>6. QED
    BY <2>1, <2>3, <2>5, LeaseStamped
<1>5. QED
  BY <1>3, <1>4

\* The heart of the argument: what evict() selects is older than the lease,
\* what a live request asked about is not.
LEMMA EvictSelectKeepsLease ==
  ASSUME LeaseInv, EvictSelect
  PROVE  LeaseInv'
<1> DEFINE fires == Permitted /\ Selected # {}
<1>1. CASE ~fires
  BY <1>1, LeaseUnchanged
     DEF EvictSelect, NoPass, dbVars, memVars, queueVars, LeaseInv, LeaseType
<1>2. CASE fires
  <2>1. /\ evicting' = Selected
        /\ rows' = [rows EXCEPT ![Rank0] = @ \ Deleted]
        /\ la' = [g \in Groups |-> IF g \in Deleted THEN 0 ELSE la[g]]
        /\ pass' = [pass EXCEPT !.st = "unlink"]
        /\ UNCHANGED <<now, persisted, cmd, req>>
    BY <1>2 DEF EvictSelect, queueVars
  <2>2. Selected \subseteq rows[Rank0] /\ \A g \in Selected : la[g] < Before
    BY SelectedBelowLease DEF LeaseInv
  <2>3. rows[Rank0] \subseteq Groups
    BY ConstantsAssumption DEF LeaseInv, LeaseType
  <2>4. LeaseType'
    <3>1. pass'.min = pass.min /\ pass'.max = pass.max /\ pass'.evicted = pass.evicted
      BY <2>1
    <3>2. la' \in [Groups -> Int]
      BY <2>1 DEF LeaseInv, LeaseType
    <3>3. rows' \in [Ranks -> SUBSET Groups]
      BY <2>1, <2>3 DEF LeaseInv, LeaseType
    <3>4. evicting' \in SUBSET Groups
      BY <2>1, <2>2, <2>3
    <3>5. QED
      BY <2>1, <3>1, <3>2, <3>3, <3>4 DEF LeaseInv, LeaseType
  <2>5. ASSUME NEW q \in Reqs PROVE Leased(q)'
    <3>1. Leased(q) /\ Keys(q)' = Keys(q)
      BY <2>1 DEF LeaseInv, Keys
    <3>2. ASSUME NEW g \in Keys(q) PROVE g \notin Selected
      <4> SUFFICES ASSUME g \in Selected PROVE FALSE
        OBVIOUS
      <4>1. la[g] < Before /\ g \in rows[Rank0] /\ g \in Groups
        BY <2>2, <2>3
      <4>2. la[g] >= req[q].start * SubTicks /\ now - req[q].start <= Lease
        BY <3>1, <4>1 DEF Leased
      <4>3. /\ req[q].start \in Int /\ now \in Int /\ Lease \in Int
            /\ SubTicks \in Int /\ 0 <= SubTicks /\ la[g] \in Int
        BY <4>1, ConstantsAssumption DEF LeaseInv, LeaseType, ReqState
      <4>4. now - Lease \in Int /\ now - Lease <= req[q].start
        BY <4>2, <4>3
      <4>5. (now - Lease) * SubTicks <= req[q].start * SubTicks
        BY <4>3, <4>4, TimesMonotone
      <4>6. (now - Lease) * SubTicks \in Int /\ req[q].start * SubTicks \in Int
        BY <4>3, <4>4, TimesInt
      <4>7. QED
        BY <4>1, <4>2, <4>3, <4>5, <4>6 DEF Before
    <3>3. \A g \in Keys(q) : g \notin Deleted
      BY <3>2 DEF Deleted
    <3>4. \A g \in Keys(q) : g \in rows'[Rank0] => g \in rows[Rank0] /\ la'[g] = la[g]
      BY <2>1, <2>3, <3>3, ConstantsAssumption DEF LeaseInv, LeaseType
    <3>5. QED
      BY <2>1, <3>1, <3>2, <3>4 DEF Leased
  <2>6. QED
    BY <2>4, <2>5 DEF LeaseInv
<1>3. QED
  BY <1>1, <1>2

LEMMA EvictDoneKeepsLease ==
  ASSUME LeaseInv, EvictDone
  PROVE  LeaseInv'
<1>1. Cardinality(evicting) \in Nat
  BY ConstantsAssumption, FS_Subset, FS_CardinalityType DEF LeaseInv, LeaseType
<1>2. pass'.min = 0 /\ pass'.max \in Nat /\ pass'.evicted \in Nat
  BY <1>1 DEF EvictDone, NoPass, LeaseInv, LeaseType
<1>3. evicting' = {} /\ UNCHANGED <<now, rows, persisted, la, cmd, req>>
  BY DEF EvictDone, dbVars, queueVars
<1>4. LeaseType'
  BY <1>2, <1>3 DEF LeaseInv, LeaseType
<1>5. ASSUME NEW q \in Reqs PROVE Leased(q)'
  <2>1. Leased(q) /\ Keys(q)' = Keys(q)
    BY <1>3 DEF LeaseInv, Keys
  <2>2. QED
    BY <1>3, <2>1 DEF Leased
<1>6. QED
  BY <1>4, <1>5 DEF LeaseInv

LEMMA TickKeepsLease ==
  ASSUME LeaseInv, Tick
  PROVE  LeaseInv'
<1>1. LeaseType'
  BY DEF Tick, LeaseInv, LeaseType, dbVars, queueVars, evictVars
<1>2. ASSUME NEW q \in Reqs PROVE Leased(q)'
  <2>1. Leased(q) /\ Keys(q)' = Keys(q) /\ req[q].start \in Nat /\ now \in Nat
    BY DEF Tick, LeaseInv, LeaseType, ReqState, Keys
  <2>2. QED
    BY <2>1 DEF Leased, Tick, dbVars, evictVars
<1>3. QED
  BY <1>1, <1>2 DEF LeaseInv

LEMMA RestartKeepsLease ==
  ASSUME LeaseInv, Restart
  PROVE  LeaseInv'
<1>1. Idle \in ReqState /\ Range(Idle.load) = {} /\ Range(Idle.save) = {}
  BY DEF Idle, ReqState, Range
<1>2. LeaseType'
  BY <1>1 DEF LeaseInv, LeaseType, Restart, NoPass
<1>3. ASSUME NEW q \in Reqs PROVE Leased(q)'
  BY <1>1 DEF Restart, Leased, Keys, Idle
<1>4. QED
  BY <1>2, <1>3 DEF LeaseInv

LEMMA EvictBeginKeepsLease ==
  ASSUME LeaseInv, NoForce, NEW c \in EvictCounts, EvictBegin(c[1], c[2])
  PROVE  LeaseInv'
<1>1. c[1] \in Nat /\ c[2] = 0
  BY ConstantsAssumption DEF NoForce
<1>2. pass'.min = 0 /\ pass'.max \in Nat /\ pass'.evicted \in Nat
  BY <1>1 DEF EvictBegin, Lesser
<1>3. QED
  BY <1>2, LeaseUnchanged DEF EvictBegin, LeaseInv, LeaseType, dbVars, queueVars

LEMMA PersistRankKeepsLease ==
  ASSUME LeaseInv, NEW r \in Ranks, PersistRank(r)
  PROVE  LeaseInv'
<1>1. persisted' \in [Ranks -> SUBSET Groups]
  BY DEF PersistRank, LeaseInv, LeaseType
<1>2. QED
  BY <1>1, LeaseUnchanged DEF PersistRank, LeaseInv, LeaseType, queueVars, evictVars

\* The actions that only move data between queue, Mem and disk, or that only
\* concern the operator.
LEMMA OtherStepsKeepLease ==
  ASSUME LeaseInv,
         \/ \E r \in Ranks : RunLoad(r) \/ RunRetry(r) \/ RunPut(r) \/ EvictLabels(r)
         \/ Operator
         \/ UNCHANGED vars
  PROVE  LeaseInv'
<1>1. UNCHANGED <<now, rows, la, persisted, cmd, req, evicting, pass>>
  <2>1. CASE \E r \in Ranks : RunLoad(r) \/ RunRetry(r) \/ RunPut(r) \/ EvictLabels(r)
    BY <2>1 DEF RunLoad, RunRetry, RunPut, EvictLabels, dbVars, queueVars, evictVars
  <2>2. CASE Operator
    BY <2>2 DEF Operator, PauseEvict, PauseReturns, ResumeEvict, PersistBegin,
                dbVars, queueVars, evictVars
  <2>3. CASE UNCHANGED vars
    BY <2>3 DEF vars, dbVars, queueVars, evictVars
  <2>4. QED
    BY <2>1, <2>2, <2>3
<1>2. QED
  BY <1>1, LeaseUnchanged DEF LeaseInv, LeaseType

LEMMA LeaseStep ==
  ASSUME NoForce, LeaseInv, [Next]_vars
  PROVE  LeaseInv'
<1>1. ASSUME NEW q \in Reqs, (\E p \in Prompts : Has(q, p)) \/ Dispatch(q) \/ Finish(q)
      PROVE  LeaseInv'
  BY <1>1, HasKeepsLease, DispatchKeepsLease, FinishKeepsLease
<1>2. ASSUME NEW r \in Ranks, Worker(r) \/ EvictLabels(r) \/ PersistRank(r)
      PROVE  LeaseInv'
  BY <1>2, StartLoadKeepsLease, SaveLayerKeepsLease, OtherStepsKeepLease,
     PersistRankKeepsLease DEF Worker
<1>3. CASE Monitor
  BY <1>3, EvictBeginKeepsLease, EvictSelectKeepsLease, EvictDoneKeepsLease DEF Monitor
<1>4. CASE Operator \/ UNCHANGED vars
  BY <1>4, OtherStepsKeepLease
<1>5. QED
  BY <1>1, <1>2, <1>3, <1>4, TickKeepsLease, RestartKeepsLease DEF Next, Scheduler

\* The lease of has(): without FORCE, and with every request done within the
\* lease of its has(), no group a live request asked about is ever evicted.
THEOREM LeaseSafety ==
  ASSUME NoForce
  PROVE  Spec => []LeaseProtects
<1>1. LeaseInv => LeaseProtects
  BY DEF LeaseInv, Leased, LeaseProtects
<1>2. QED
  BY <1>1, LeaseInit, LeaseStep, PTL DEF Spec

-----------------------------------------------------------------------------
(* Types, the pause switch and the cut: for every configuration of the     *)
(* protocol, with FORCE, any use of persist and any number of restarts.    *)

\* The switch is off while the operator pauses; a batch whose labels are no
\* longer published has been answered by every rank.
PauseInv ==
  /\ pause # "none" => ~enabled
  /\ evicting = {} => unlinking = {}
  /\ pause = "held" => evicting = {}

\* No timestamp lies beyond the current tick: a batch is never longer than
\* the timestamps of one tick.
StampInv ==
  /\ \A g \in Groups : la[g] < (now + 1) * SubTicks
  /\ evictedUntil < (now + 1) * SubTicks
  /\ \A q \in Reqs : Len(req[q].save) <= SubTicks
  /\ \A r \in Ranks : \A i \in 1..Len(cmd[r]) : Len(cmd[r][i].save) <= SubTicks

BaseInv == TypeOK /\ PauseInv /\ StampInv

LEMMA NextTick ==
  ASSUME NEW n \in Nat
  PROVE  /\ n * SubTicks \in Nat /\ (n + 1) * SubTicks \in Nat
         /\ (n + 1) * SubTicks = n * SubTicks + SubTicks
         /\ (n + 1 + 1) * SubTicks \in Nat
         /\ (n + 1) * SubTicks <= (n + 1 + 1) * SubTicks
<1>1. SubTicks \in Nat
  BY ConstantsAssumption
<1>2. \A a, b \in Nat : a * b \in Nat /\ (a + 1) * b \in Nat /\ (a + 1) * b = a * b + b
  BY SMT
<1>3. QED
  BY <1>1, <1>2

LEMMA StampBound ==
  ASSUME NEW p \in Seq(Groups), NEW g \in Range(p), now \in Nat, Len(p) <= SubTicks
  PROVE  /\ Stamp(p, g) \in Nat
         /\ Stamp(p, g) >= now * SubTicks
         /\ Stamp(p, g) < (now + 1) * SubTicks
<1>1. \E i \in 1..Len(p) : p[i] = g
  BY DEF Range
<1>2. (CHOOSE i \in 1..Len(p) : p[i] = g) \in 1..Len(p)
  BY <1>1
<1>3. Len(p) \in Nat /\ SubTicks \in Nat
  BY ConstantsAssumption
<1>4. /\ now * SubTicks \in Nat /\ (now + 1) * SubTicks \in Nat
      /\ (now + 1) * SubTicks = now * SubTicks + SubTicks
  BY NextTick
<1>5. QED
  BY <1>2, <1>3, <1>4 DEF Stamp

\* A nonempty set of naturals with an upper bound has a maximum.
LEMMA MaxOfBounded ==
  ASSUME NEW S \in SUBSET Nat, S # {}, NEW b \in Nat, \A x \in S : x < b
  PROVE  Max(S) \in S /\ \A y \in S : Max(S) >= y
<1> DEFINE T == {b - x : x \in S}
<1>1. T \subseteq Nat /\ T # {}
  <2>1. \A x \in S : b - x \in Nat
    OBVIOUS
  <2>2. T # {}
    OBVIOUS
  <2> QED
    BY <2>1, <2>2
<1>2. PICK t \in T : \A y \in T : ~(<<y, t>> \in OpToRel(<, Nat))
  BY <1>1, NatLessThanWellFounded, WFMin
<1>3. \A y \in T : ~(y < t)
  BY <1>1, <1>2 DEF OpToRel
<1>4. PICK x \in S : t = b - x
  BY <1>2
<1>5. \A y \in S : x >= y
  <2> SUFFICES ASSUME NEW y \in S PROVE x >= y
    OBVIOUS
  <2>1. ~(b - y < b - x)
    BY <1>3, <1>4
  <2>2. x \in Nat /\ y \in Nat
    OBVIOUS
  <2> QED
    BY <2>1, <2>2
<1>6. QED
  BY <1>4, <1>5 DEF Max

\* evict() moves the cut to the newest row it selected.
LEMMA CutOfSelected ==
  ASSUME BaseInv, Selected # {}
  PROVE  LET cut == Max({la[g] : g \in Selected})
         IN  /\ Selected \subseteq rows[Rank0] /\ Selected \subseteq Groups
             /\ cut \in Nat /\ cut > evictedUntil /\ cut < (now + 1) * SubTicks
             /\ \E g \in Selected : la[g] = cut
             /\ \A g \in Selected : la[g] <= cut
<1> DEFINE S == {la[g] : g \in Selected}
<1>1. Selected \subseteq Resident
  BY DEF Selected
<1>2. Resident \subseteq rows[Rank0] /\ rows[Rank0] \subseteq Groups
  BY ConstantsAssumption DEF Resident, BaseInv, TypeOK
<1>3. \A g \in Selected : la[g] \in Nat /\ la[g] > evictedUntil /\ la[g] < (now + 1) * SubTicks
  BY <1>1, <1>2 DEF Resident, BaseInv, TypeOK, StampInv
<1>4. (now + 1) * SubTicks \in Nat
  BY NextTick DEF BaseInv, TypeOK
<1>5. S \in SUBSET Nat /\ S # {} /\ \A x \in S : x < (now + 1) * SubTicks
  BY <1>3
<1>6. Max(S) \in S /\ \A y \in S : Max(S) >= y
  <2> HIDE DEF S
  <2> QED BY <1>4, <1>5, MaxOfBounded
<1>7. PICK h \in Selected : la[h] = Max(S)
  BY <1>6
<1>8. \A g \in Selected : la[g] <= Max(S)
  BY <1>3, <1>6, <1>7
<1>9. QED
  BY <1>1, <1>2, <1>3, <1>7, <1>8

LEMMA BaseInit == Init => BaseInv
<1> SUFFICES ASSUME Init PROVE BaseInv
  OBVIOUS
<1>0. Idle \in ReqState /\ Len(Idle.save) = 0 /\ NoPass \in Pass
  BY DEF Idle, ReqState, NoPass, Pass
<1>1. TypeOK
  <2>1. now \in 1..MaxTime /\ crashes \in 0..MaxCrashes
    BY ConstantsAssumption DEF Init
  <2>2. /\ cmd \in [Ranks -> Seq(Step)]
        /\ hi \in [Ranks -> Seq(Task)]
        /\ lo \in [Ranks -> Seq(Task)]
    BY DEF Init
  <2>3. /\ mem \in [Ranks -> [Groups -> SUBSET Layers]]
        /\ disk \in [Ranks -> [Groups -> SUBSET Layers]]
    BY DEF Init
  <2>4. req \in [Reqs -> ReqState] /\ la \in [Groups -> Nat] /\ pass \in Pass
    BY <1>0 DEF Init
  <2>5. QED
    BY <2>1, <2>2, <2>3, <2>4 DEF Init, TypeOK
<1>2. PauseInv
  BY DEF Init, PauseInv
<1>3. StampInv
  BY <1>0, ConstantsAssumption, NextTick DEF Init, StampInv
<1>4. QED
  BY <1>1, <1>2, <1>3 DEF BaseInv

LEMMA HasKeepsBase ==
  ASSUME BaseInv, NEW q \in Reqs, NEW p \in Prompts, Has(q, p)
  PROVE  BaseInv'
<1>1. p \in Seq(Groups) /\ Len(p) <= SubTicks /\ now \in Nat
  BY ConstantsAssumption DEF BaseInv, TypeOK
<1>2. Matched(p) \in 0..Len(p)
  BY <1>1, MatchedBounds
<1>3. /\ req'[q] \in ReqState
      /\ Len(req'[q].save) <= Len(p)
      /\ req' = [req EXCEPT ![q] = req'[q]]
  <2>1. /\ SubSeq(p, 1, Matched(p)) \in Seq(Groups)
        /\ SubSeq(p, Matched(p) + 1, Len(p)) \in Seq(Groups)
    BY <1>1, <1>2, SubSeqHalves
  <2>2. Len(SubSeq(p, Matched(p) + 1, Len(p))) <= Len(p)
    BY <1>1, <1>2
  <2>3. QED
    BY <1>1, <2>1, <2>2 DEF Has, BaseInv, TypeOK, ReqState
<1>4. ASSUME NEW g \in Groups
      PROVE  la'[g] \in Nat /\ la'[g] < (now + 1) * SubTicks
  <2>1. g \in Range(p) => Stamp(p, g) \in Nat /\ Stamp(p, g) < (now + 1) * SubTicks
    BY <1>1, StampBound
  <2>2. QED
    BY <2>1 DEF Has, Touched, BaseInv, TypeOK, StampInv
<1>5. la' \in [Groups -> Nat]
  BY <1>4 DEF Has
<1>6. TypeOK'
  BY <1>3, <1>5 DEF Has, BaseInv, TypeOK, memVars, queueVars, evictVars, operVars
<1>7. PauseInv'
  BY DEF Has, BaseInv, PauseInv, evictVars, operVars
<1>8. StampInv'
  <2>1. ASSUME NEW k \in Reqs PROVE Len(req'[k].save) <= SubTicks
    <3>1. CASE k = q
      <4>1. Len(req'[q].save) \in Nat /\ Len(p) \in Nat /\ SubTicks \in Nat
        BY <1>1, <1>3, ConstantsAssumption DEF ReqState
      <4>2. QED
        BY <1>1, <1>3, <3>1, <4>1
    <3>2. CASE k # q
      BY <1>3, <3>2 DEF BaseInv, TypeOK, StampInv
    <3>3. QED
      BY <3>1, <3>2
  <2>2. UNCHANGED <<now, cmd, evictedUntil>>
    BY DEF Has, queueVars, evictVars
  <2>3. QED
    BY <1>4, <2>1, <2>2 DEF BaseInv, StampInv
<1>9. QED
  BY <1>6, <1>7, <1>8 DEF BaseInv

LEMMA DispatchKeepsBase ==
  ASSUME BaseInv, NEW q \in Reqs, Dispatch(q)
  PROVE  BaseInv'
<1> DEFINE c == [req |-> q, load |-> req[q].load, save |-> req[q].save, layer |-> 0]
<1>1. req[q] \in ReqState /\ req'[q] \in ReqState
  BY DEF BaseInv, TypeOK, Dispatch, ReqState
<1>2. c \in Step /\ Len(c.save) <= SubTicks
  BY <1>1, ConstantsAssumption DEF ReqState, Step, BaseInv, StampInv
<1>3. \A r \in Ranks : cmd[r] \in Seq(Step) /\ cmd'[r] = Append(cmd[r], c)
  BY DEF Dispatch, BaseInv, TypeOK
<1>4. TypeOK'
  <2>1. cmd' \in [Ranks -> Seq(Step)]
    <3> HIDE DEF c
    <3>1. \A r \in Ranks : Append(cmd[r], c) \in Seq(Step)
      BY <1>2, <1>3
    <3>2. cmd' = [r \in Ranks |-> Append(cmd[r], c)]
      BY DEF Dispatch, c
    <3> QED
      BY <3>1, <3>2
  <2>2. QED
    BY <1>1, <2>1 DEF Dispatch, BaseInv, TypeOK, dbVars, memVars, evictVars, operVars
<1>5. PauseInv'
  BY DEF Dispatch, BaseInv, PauseInv, evictVars, operVars
<1>6. StampInv'
  <2>1. ASSUME NEW r \in Ranks, NEW i \in 1..Len(cmd'[r])
        PROVE  Len(cmd'[r][i].save) <= SubTicks
    <3> HIDE DEF c
    <3>1. (i \in 1..Len(cmd[r]) /\ cmd'[r][i] = cmd[r][i]) \/ cmd'[r][i] = c
      BY <1>2, <1>3, <2>1
    <3> QED
      BY <1>2, <3>1 DEF BaseInv, StampInv
  <2>2. \A k \in Reqs : req'[k].save = req[k].save
    BY DEF Dispatch, BaseInv, TypeOK, ReqState
  <2>3. UNCHANGED <<now, la, evictedUntil>>
    BY DEF Dispatch, dbVars, evictVars
  <2>4. QED
    BY <2>1, <2>2, <2>3 DEF BaseInv, StampInv
<1>7. QED
  BY <1>4, <1>5, <1>6 DEF BaseInv

LEMMA FinishKeepsBase ==
  ASSUME BaseInv, NEW q \in Reqs, Finish(q)
  PROVE  BaseInv'
<1>0. Idle \in ReqState /\ Len(Idle.save) = 0
  BY DEF Idle, ReqState
<1>1. TypeOK'
  BY <1>0 DEF Finish, BaseInv, TypeOK, dbVars, memVars, queueVars, evictVars, operVars
<1>2. PauseInv'
  BY DEF Finish, BaseInv, PauseInv, evictVars, operVars
<1>3. StampInv'
  <2>1. \A k \in Reqs : req'[k] = Idle \/ req'[k] = req[k]
    BY DEF Finish, BaseInv, TypeOK
  <2>2. SubTicks \in Nat
    BY ConstantsAssumption
  <2>3. QED
    BY <1>0, <2>1, <2>2 DEF Finish, BaseInv, StampInv, dbVars, queueVars, evictVars
<1>4. QED
  BY <1>1, <1>2, <1>3 DEF BaseInv

\* What a step of the forward pass does to the commands of its rank.
LEMMA CommandStep ==
  ASSUME BaseInv, NEW r \in Ranks, cmd[r] # <<>>,
         NEW new \in Seq(Step),
         \/ new = Tail(cmd[r])
         \/ \E l \in 0..NumLayers : new = <<[Head(cmd[r]) EXCEPT !.layer = l]>> \o Tail(cmd[r])
  PROVE  \A i \in 1..Len(new) : Len(new[i].save) <= SubTicks
<1> SUFFICES ASSUME NEW i \in 1..Len(new) PROVE Len(new[i].save) <= SubTicks
  OBVIOUS
<1>0. cmd[r] \in Seq(Step) /\ Len(cmd[r]) \in Nat \ {0} /\ Head(cmd[r]) = cmd[r][1]
  BY DEF BaseInv, TypeOK
<1>1. CASE new = Tail(cmd[r])
  <2>1. i + 1 \in 1..Len(cmd[r]) /\ new[i] = cmd[r][i + 1]
    BY <1>0, <1>1
  <2>2. QED
    BY <2>1 DEF BaseInv, StampInv
<1>2. CASE \E l \in 0..NumLayers : new = <<[Head(cmd[r]) EXCEPT !.layer = l]>> \o Tail(cmd[r])
  <2>1. PICK l \in 0..NumLayers : new = <<[Head(cmd[r]) EXCEPT !.layer = l]>> \o Tail(cmd[r])
    BY <1>2
  <2> DEFINE h == [Head(cmd[r]) EXCEPT !.layer = l]
  <2>2. h \in Step /\ h.save = cmd[r][1].save /\ 1 \in 1..Len(cmd[r])
    <3>1. Head(cmd[r]) \in Step
      BY <1>0
    <3>2. h \in Step
      BY <3>1, StepAtLayer
    <3>3. h.save = Head(cmd[r]).save
      BY <3>1 DEF Step
    <3> QED
      BY <1>0, <3>2, <3>3
  <2>3. new[i] = h \/ (i \in 1..Len(cmd[r]) /\ new[i] = cmd[r][i])
    <3> HIDE DEF h
    <3>1. new = <<h>> \o Tail(cmd[r])
      BY <2>1 DEF h
    <3> QED
      BY <1>0, <2>2, <3>1
  <2>4. QED
    <3> HIDE DEF h
    <3> QED BY <2>2, <2>3 DEF BaseInv, StampInv
<1>3. QED
  BY <1>1, <1>2

\* start_load_kv queues the loads of all layers, in layer order.
LEMMA LoadsOfStep ==
  ASSUME NEW c \in Step
  PROVE  LET ls == [l \in Layers |-> [op |-> "get", req |-> c.req,
                                      gs |-> Range(c.load), layer |-> l]]
         IN  ls \in Seq(Task) /\ Len(ls) = NumLayers /\ DOMAIN ls = Layers
<1> DEFINE ls == [l \in Layers |-> [op |-> "get", req |-> c.req,
                                    gs |-> Range(c.load), layer |-> l]]
<1>1. Range(c.load) \subseteq Groups /\ c.req \in Reqs
  BY RangeInGroups DEF Step
<1>2. \A l \in Layers : ls[l] \in Task
  BY <1>1 DEF Task
<1>3. NumLayers \in Nat /\ Layers = 1..NumLayers
  BY ConstantsAssumption DEF Layers
<1>4. ls \in [1..NumLayers -> Task]
  BY <1>2, <1>3
<1>5. ls \in Seq(Task) /\ Len(ls) = NumLayers
  <2> HIDE DEF ls
  <2> QED BY <1>3, <1>4
<1>6. QED
  BY <1>3, <1>4, <1>5

LEMMA StartLoadKeepsBase ==
  ASSUME BaseInv, NEW r \in Ranks, StartLoad(r)
  PROVE  BaseInv'
<1> DEFINE c == Head(cmd[r])
           ls == [l \in Layers |-> [op |-> "get", req |-> c.req,
                                    gs |-> Range(c.load), layer |-> l]]
<1>0. cmd[r] \in Seq(Step) /\ cmd[r] # <<>> /\ hi[r] \in Seq(Task)
  BY DEF StartLoad, BaseInv, TypeOK
<1>1. c \in Step /\ [c EXCEPT !.layer = 1] \in Step /\ Tail(cmd[r]) \in Seq(Step)
  <2>1. c \in Step /\ Tail(cmd[r]) \in Seq(Step)
    BY <1>0
  <2>2. 1 \in 0..NumLayers
    BY ConstantsAssumption
  <2>3. QED
    BY <2>1, <2>2, StepAtLayer
<1>2. /\ cmd'[r] = Tail(cmd[r]) \/ cmd'[r] = <<[c EXCEPT !.layer = 1]>> \o Tail(cmd[r])
      /\ cmd' = [cmd EXCEPT ![r] = cmd'[r]]
  BY DEF StartLoad, BaseInv, TypeOK
<1>3. cmd'[r] \in Seq(Step)
  <2>1. \A d \in Step : <<d>> \o Tail(cmd[r]) \in Seq(Step)
    BY <1>1
  <2>2. QED
    BY <1>1, <1>2, <2>1
<1>4. hi'[r] \in Seq(Task) /\ hi' = [hi EXCEPT ![r] = hi'[r]]
  <2>1. hi' = [hi EXCEPT ![r] = IF c.load = <<>> THEN hi[r] ELSE hi[r] \o ls]
    BY DEF StartLoad
  <2>2. ls \in Seq(Task)
    BY <1>1, LoadsOfStep
  <2>3. hi[r] \o ls \in Seq(Task)
    <3> HIDE DEF ls
    <3> QED BY <1>0, <2>2
  <2>4. QED
    <3> HIDE DEF ls, c
    <3> QED BY <1>0, <2>1, <2>3 DEF BaseInv, TypeOK
<1>5. TypeOK'
  BY <1>2, <1>3, <1>4 DEF StartLoad, BaseInv, TypeOK, dbVars, memVars, evictVars, operVars
<1>6. PauseInv'
  BY DEF StartLoad, BaseInv, PauseInv, evictVars, operVars
<1>7. StampInv'
  <2>1. \A i \in 1..Len(cmd'[r]) : Len(cmd'[r][i].save) <= SubTicks
    <3>1. 1 \in 0..NumLayers
      BY ConstantsAssumption
    <3>2. \/ cmd'[r] = Tail(cmd[r])
          \/ \E l \in 0..NumLayers : cmd'[r] = <<[c EXCEPT !.layer = l]>> \o Tail(cmd[r])
      BY <1>2, <3>1
    <3> QED
      BY <1>0, <1>3, <3>2, CommandStep
  <2>2. \A s \in Ranks \ {r} : cmd'[s] = cmd[s]
    BY <1>2 DEF BaseInv, TypeOK
  <2>3. UNCHANGED <<now, la, evictedUntil, req>>
    BY DEF StartLoad, dbVars, evictVars
  <2>4. QED
    BY <2>1, <2>2, <2>3 DEF BaseInv, StampInv
<1>8. QED
  BY <1>5, <1>6, <1>7 DEF BaseInv

\* What save_kv_layer leaves behind.
LEMMA SaveLayerEffect ==
  ASSUME BaseInv, NEW r \in Ranks, SaveLayer(r)
  PROVE  LET c == Head(cmd[r])
             t == [op |-> "put", req |-> c.req, gs |-> Range(c.save), layer |-> c.layer]
         IN  /\ cmd[r] \in Seq(Step) /\ cmd[r] # <<>> /\ c = cmd[r][1] /\ c \in Step
             /\ c.save \in Seq(Groups) /\ Range(c.save) \subseteq Groups
             /\ Len(c.save) <= SubTicks /\ c.layer \in Layers
             /\ t \in Task
             /\ lo' = [lo EXCEPT ![r] = Append(lo[r], t)]
             /\ \/ /\ c.layer < NumLayers
                   /\ [c EXCEPT !.layer = c.layer + 1] \in Step
                   /\ cmd' = [cmd EXCEPT ![r] =
                                <<[c EXCEPT !.layer = c.layer + 1]>> \o Tail(cmd[r])]
                   /\ UNCHANGED <<rows, persisted, la>>
                \/ /\ c.layer = NumLayers
                   /\ cmd' = [cmd EXCEPT ![r] = Tail(cmd[r])]
                   /\ Submit(r, c.save)
<1> DEFINE c == Head(cmd[r])
           t == [op |-> "put", req |-> c.req, gs |-> Range(c.save), layer |-> c.layer]
<1>0. cmd[r] \in Seq(Step) /\ cmd[r] # <<>> /\ c = cmd[r][1] /\ c \in Step
      /\ 1 \in 1..Len(cmd[r])
  BY DEF SaveLayer, BaseInv, TypeOK
<1>1. c.save \in Seq(Groups) /\ Range(c.save) \subseteq Groups /\ c.req \in Reqs
  BY <1>0, RangeInGroups DEF Step
<1>2. Len(c.save) <= SubTicks
  BY <1>0 DEF BaseInv, StampInv
<1>3. c.layer \in Layers /\ NumLayers \in Nat /\ c.layer \in Nat
  BY <1>0, ConstantsAssumption DEF SaveLayer, Layers, Step
<1>4. t \in Task
  BY <1>1, <1>3 DEF Task
<1>5. lo' = [lo EXCEPT ![r] = Append(lo[r], t)]
  BY DEF SaveLayer
<1>6. CASE c.layer < NumLayers
  <2>1. c.layer + 1 \in 0..NumLayers
    BY <1>3, <1>6
  <2>2. [c EXCEPT !.layer = c.layer + 1] \in Step
    BY <1>0, <2>1, StepAtLayer
  <2>3. /\ cmd' = [cmd EXCEPT ![r] = <<[c EXCEPT !.layer = c.layer + 1]>> \o Tail(cmd[r])]
        /\ UNCHANGED <<rows, persisted, la>>
    BY <1>6 DEF SaveLayer, FinishLayer, dbVars
  <2>4. QED
    BY <1>0, <1>1, <1>2, <1>3, <1>4, <1>5, <1>6, <2>2, <2>3
<1>7. CASE ~(c.layer < NumLayers)
  <2>1. c.layer = NumLayers
    BY <1>3, <1>7 DEF Layers
  <2>2. cmd' = [cmd EXCEPT ![r] = Tail(cmd[r])] /\ Submit(r, c.save)
    BY <1>7 DEF SaveLayer, FinishLayer
  <2>3. QED
    BY <1>0, <1>1, <1>2, <1>3, <1>4, <1>5, <2>1, <2>2
<1>8. QED
  BY <1>6, <1>7

LEMMA SaveLayerKeepsBase ==
  ASSUME BaseInv, NEW r \in Ranks, SaveLayer(r)
  PROVE  BaseInv'
<1> DEFINE c == Head(cmd[r])
           t == [op |-> "put", req |-> c.req, gs |-> Range(c.save), layer |-> c.layer]
<1>0. /\ cmd[r] \in Seq(Step) /\ cmd[r] # <<>> /\ c \in Step
      /\ c.save \in Seq(Groups) /\ Range(c.save) \subseteq Groups
      /\ Len(c.save) <= SubTicks /\ t \in Task /\ now \in Nat
      /\ lo' = [lo EXCEPT ![r] = Append(lo[r], t)]
  <2>1. now \in Nat
    BY DEF BaseInv, TypeOK
  <2>2. QED
    BY <2>1, SaveLayerEffect
<1>1. /\ cmd' = [cmd EXCEPT ![r] = cmd'[r]]
      /\ \/ cmd'[r] = Tail(cmd[r])
         \/ \E l \in 0..NumLayers : cmd'[r] = <<[c EXCEPT !.layer = l]>> \o Tail(cmd[r])
      /\ cmd'[r] \in Seq(Step)
  <2>1. CASE cmd' = [cmd EXCEPT ![r] = Tail(cmd[r])]
    BY <1>0, <2>1 DEF BaseInv, TypeOK
  <2>2. CASE /\ c.layer < NumLayers
             /\ [c EXCEPT !.layer = c.layer + 1] \in Step
             /\ cmd' = [cmd EXCEPT ![r] = <<[c EXCEPT !.layer = c.layer + 1]>> \o Tail(cmd[r])]
    <3>1. c.layer + 1 \in 0..NumLayers
      BY <1>0, <2>2, ConstantsAssumption DEF Step
    <3>2. cmd'[r] = <<[c EXCEPT !.layer = c.layer + 1]>> \o Tail(cmd[r])
      BY <2>2 DEF BaseInv, TypeOK
    <3>3. cmd'[r] \in Seq(Step)
      <4>1. Tail(cmd[r]) \in Seq(Step)
        BY <1>0
      <4>2. \A e \in Step, s \in Seq(Step) : <<e>> \o s \in Seq(Step)
        OBVIOUS
      <4> HIDE DEF c
      <4>3. QED
        BY <2>2, <3>2, <4>1, <4>2
    <3>4. QED
      BY <2>2, <3>1, <3>2, <3>3
  <2>3. QED
    BY <2>1, <2>2, SaveLayerEffect
<1>2. lo' \in [Ranks -> Seq(Task)]
  <2> HIDE DEF t
  <2> QED BY <1>0 DEF BaseInv, TypeOK
<1>3. /\ rows' \in [Ranks -> SUBSET Groups]
      /\ persisted' \in [Ranks -> SUBSET Groups]
      /\ la' \in [Groups -> Nat]
      /\ \A g \in Groups : la'[g] < (now + 1) * SubTicks
  <2>1. CASE UNCHANGED <<rows, persisted, la>>
    BY <2>1 DEF BaseInv, TypeOK, StampInv
  <2>2. CASE Submit(r, c.save)
    <3>1. \A g \in Range(c.save) : /\ Stamp(c.save, g) \in Nat
                                   /\ Stamp(c.save, g) < (now + 1) * SubTicks
      BY <1>0, StampBound
    <3>2. \A g \in Groups : la'[g] \in Nat /\ la'[g] < (now + 1) * SubTicks
      BY <2>2, <3>1 DEF Submit, BaseInv, TypeOK, StampInv
    <3>3. la' \in [Groups -> Nat]
      BY <2>2, <3>2 DEF Submit
    <3>4. rows' \in [Ranks -> SUBSET Groups] /\ persisted' \in [Ranks -> SUBSET Groups]
      BY <1>0, <2>2 DEF Submit, BaseInv, TypeOK
    <3>5. QED
      BY <3>2, <3>3, <3>4
  <2>3. QED
    BY <2>1, <2>2, SaveLayerEffect
<1>4. UNCHANGED <<now, memVars, hi, req, evictVars, operVars, aborted, crashes>>
  BY DEF SaveLayer
<1>5. TypeOK'
  BY <1>1, <1>2, <1>3, <1>4 DEF BaseInv, TypeOK, memVars, evictVars, operVars
<1>6. PauseInv'
  BY <1>4 DEF BaseInv, PauseInv, evictVars, operVars
<1>7. StampInv'
  <2>1. \A i \in 1..Len(cmd'[r]) : Len(cmd'[r][i].save) <= SubTicks
    BY <1>0, <1>1, CommandStep
  <2>2. \A s \in Ranks \ {r} : cmd'[s] = cmd[s]
    BY <1>1 DEF BaseInv, TypeOK
  <2>3. UNCHANGED <<now, evictedUntil, req>>
    BY <1>4 DEF evictVars
  <2>4. QED
    BY <1>3, <2>1, <2>2, <2>3 DEF BaseInv, StampInv
<1>8. QED
  BY <1>5, <1>6, <1>7 DEF BaseInv

LEMMA StampUnchanged ==
  ASSUME StampInv, UNCHANGED <<now, la, evictedUntil, req, cmd>>
  PROVE  StampInv'
  BY DEF StampInv

\* Mem::get: layers read from disk come in, nothing leaves.
LEMMA GetStepEffect ==
  ASSUME TypeOK, NEW r \in Ranks, NEW t \in Task, GetStep(r, t)
  PROVE  /\ mem' \in [Ranks -> [Groups -> SUBSET Layers]]
         /\ memPersisted' \in [Ranks -> SUBSET Groups]
         /\ \A s \in Ranks \ {r} : mem'[s] = mem[s] /\ memPersisted'[s] = memPersisted[s]
         /\ \A g \in Groups : mem'[r][g] =
              IF g \in FromDisk(r, t) THEN mem[r][g] \cup {t.layer} ELSE mem[r][g]
         /\ memPersisted'[r] = memPersisted[r] \cup FromDisk(r, t)
<1>1. t.layer \in Layers /\ t.gs \subseteq Groups
  BY DEF Task
<1>2. FromDisk(r, t) \subseteq Groups
  BY <1>1 DEF FromDisk, Missing
<1>3. \A g \in Groups : (IF g \in FromDisk(r, t) THEN mem[r][g] \cup {t.layer}
                         ELSE mem[r][g]) \in SUBSET Layers
  BY <1>1 DEF TypeOK
<1>4. mem'[r] = [g \in Groups |-> IF g \in FromDisk(r, t) THEN mem[r][g] \cup {t.layer}
                                  ELSE mem[r][g]]
      /\ mem' = [mem EXCEPT ![r] = mem'[r]]
  BY DEF GetStep, TypeOK
<1>5. mem'[r] \in [Groups -> SUBSET Layers]
  BY <1>3, <1>4
<1>6. mem' \in [Ranks -> [Groups -> SUBSET Layers]] /\ \A s \in Ranks \ {r} : mem'[s] = mem[s]
  BY <1>4, <1>5 DEF TypeOK
<1>7. /\ memPersisted' \in [Ranks -> SUBSET Groups]
      /\ \A s \in Ranks \ {r} : memPersisted'[s] = memPersisted[s]
      /\ memPersisted'[r] = memPersisted[r] \cup FromDisk(r, t)
  BY <1>2 DEF GetStep, TypeOK
<1>8. ASSUME NEW g \in Groups
      PROVE  mem'[r][g] = IF g \in FromDisk(r, t) THEN mem[r][g] \cup {t.layer} ELSE mem[r][g]
  <2>1. mem'[r] = [h \in Groups |-> IF h \in FromDisk(r, t) THEN mem[r][h] \cup {t.layer}
                                    ELSE mem[r][h]]
    BY <1>4
  <2>2. QED
    BY <2>1
<1>9. QED
  BY <1>6, <1>7, <1>8

LEMMA RunLoadKeepsBase ==
  ASSUME BaseInv, NEW r \in Ranks, RunLoad(r)
  PROVE  BaseInv'
<1> DEFINE t == Head(hi[r])
<1>1. hi[r] \in Seq(Task) /\ lo[r] \in Seq(Task) /\ hi[r] # <<>>
  BY DEF RunLoad, BaseInv, TypeOK
<1>2. t \in Task /\ Tail(hi[r]) \in Seq(Task) /\ Append(lo[r], t) \in Seq(Task)
  BY <1>1
<1>3. GetStep(r, t) /\ aborted' = (aborted \/ FileMissing(r, t))
      /\ UNCHANGED <<now, dbVars, disk, cmd, req, evictVars, operVars, crashes>>
  BY DEF RunLoad
<1>4. hi' = [hi EXCEPT ![r] = Tail(hi[r])] /\ (lo' = lo \/ lo' = [lo EXCEPT ![r] = Append(lo[r], t)])
  BY DEF RunLoad, Retry
<1>5. hi' \in [Ranks -> Seq(Task)] /\ lo' \in [Ranks -> Seq(Task)]
  <2> HIDE DEF t
  <2> QED BY <1>2, <1>4 DEF BaseInv, TypeOK
<1>6. mem' \in [Ranks -> [Groups -> SUBSET Layers]] /\ memPersisted' \in [Ranks -> SUBSET Groups]
  <2> HIDE DEF t
  <2> QED BY <1>2, <1>3, GetStepEffect DEF BaseInv
<1>7. aborted' \in BOOLEAN
  BY <1>3 DEF BaseInv, TypeOK
<1>8. TypeOK'
  BY <1>3, <1>5, <1>6, <1>7 DEF BaseInv, TypeOK, dbVars, evictVars, operVars
<1>9. PauseInv' /\ StampInv'
  BY <1>3, StampUnchanged DEF BaseInv, PauseInv, dbVars, evictVars, operVars
<1>10. QED
  BY <1>8, <1>9 DEF BaseInv

LEMMA RunRetryKeepsBase ==
  ASSUME BaseInv, NEW r \in Ranks, RunRetry(r)
  PROVE  BaseInv'
<1> DEFINE t == Head(lo[r])
<1>1. lo[r] \in Seq(Task) /\ lo[r] # <<>>
  BY DEF RunRetry, BaseInv, TypeOK
<1>2. t \in Task /\ Tail(lo[r]) \in Seq(Task)
  BY <1>1
<1>3. /\ GetStep(r, t)
      /\ aborted' = (aborted \/ FileMissing(r, t) \/ Missing(r, t) # FromDisk(r, t))
      /\ lo' = [lo EXCEPT ![r] = Tail(lo[r])]
      /\ UNCHANGED <<now, dbVars, disk, cmd, hi, req, evictVars, operVars, crashes>>
  BY DEF RunRetry
<1>5. lo' \in [Ranks -> Seq(Task)]
  BY <1>2, <1>3 DEF BaseInv, TypeOK
<1>6. mem' \in [Ranks -> [Groups -> SUBSET Layers]] /\ memPersisted' \in [Ranks -> SUBSET Groups]
  <2> HIDE DEF t
  <2> QED BY <1>2, <1>3, GetStepEffect DEF BaseInv
<1>7. aborted' \in BOOLEAN
  BY <1>3 DEF BaseInv, TypeOK
<1>8. TypeOK'
  BY <1>3, <1>5, <1>6, <1>7 DEF BaseInv, TypeOK, dbVars, evictVars, operVars
<1>9. PauseInv' /\ StampInv'
  BY <1>3, StampUnchanged DEF BaseInv, PauseInv, dbVars, evictVars, operVars
<1>10. QED
  BY <1>8, <1>9 DEF BaseInv

\* zip_to_mem's task: one layer of the saved groups comes in.
LEMMA RunPutEffect ==
  ASSUME TypeOK, NEW r \in Ranks, RunPut(r)
  PROVE  LET t == Head(lo[r])
         IN  /\ lo[r] \in Seq(Task) /\ lo[r] # <<>> /\ t = lo[r][1] /\ t \in Task
             /\ Tail(lo[r]) \in Seq(Task) /\ t.op = "put"
             /\ mem' \in [Ranks -> [Groups -> SUBSET Layers]]
             /\ memPersisted' \in [Ranks -> SUBSET Groups]
             /\ \A s \in Ranks \ {r} : mem'[s] = mem[s] /\ memPersisted'[s] = memPersisted[s]
             /\ \A g \in Groups : mem'[r][g] =
                  IF g \in t.gs THEN mem[r][g] \cup {t.layer} ELSE mem[r][g]
             /\ memPersisted'[r] = memPersisted[r] \ t.gs
<1> DEFINE t == Head(lo[r])
<1>1. lo[r] \in Seq(Task) /\ lo[r] # <<>> /\ t = lo[r][1] /\ t \in Task
      /\ Tail(lo[r]) \in Seq(Task) /\ t.op = "put"
  BY DEF RunPut, TypeOK
<1>2. t.layer \in Layers /\ t.gs \subseteq Groups
  BY <1>1 DEF Task
<1>3. \A g \in Groups : (IF g \in t.gs THEN mem[r][g] \cup {t.layer}
                         ELSE mem[r][g]) \in SUBSET Layers
  BY <1>2 DEF TypeOK
<1>4. mem'[r] = [g \in Groups |-> IF g \in t.gs THEN mem[r][g] \cup {t.layer} ELSE mem[r][g]]
      /\ mem' = [mem EXCEPT ![r] = mem'[r]]
  BY DEF RunPut, TypeOK
<1>5. mem'[r] \in [Groups -> SUBSET Layers]
  BY <1>3, <1>4
<1>6. mem' \in [Ranks -> [Groups -> SUBSET Layers]] /\ \A s \in Ranks \ {r} : mem'[s] = mem[s]
  BY <1>4, <1>5 DEF TypeOK
<1>7. /\ memPersisted' \in [Ranks -> SUBSET Groups]
      /\ \A s \in Ranks \ {r} : memPersisted'[s] = memPersisted[s]
      /\ memPersisted'[r] = memPersisted[r] \ t.gs
  BY DEF RunPut, TypeOK
<1>8. ASSUME NEW g \in Groups
      PROVE  mem'[r][g] = IF g \in t.gs THEN mem[r][g] \cup {t.layer} ELSE mem[r][g]
  <2>1. mem'[r] = [h \in Groups |-> IF h \in t.gs THEN mem[r][h] \cup {t.layer} ELSE mem[r][h]]
    BY <1>4
  <2>2. QED
    BY <2>1
<1>9. QED
  BY <1>1, <1>6, <1>7, <1>8

LEMMA RunPutKeepsBase ==
  ASSUME BaseInv, NEW r \in Ranks, RunPut(r)
  PROVE  BaseInv'
<1>1. /\ Tail(lo[r]) \in Seq(Task)
      /\ mem' \in [Ranks -> [Groups -> SUBSET Layers]]
      /\ memPersisted' \in [Ranks -> SUBSET Groups]
  BY RunPutEffect DEF BaseInv
<1>2. lo' = [lo EXCEPT ![r] = Tail(lo[r])]
      /\ UNCHANGED <<now, dbVars, disk, cmd, hi, req, evictVars, operVars, aborted, crashes>>
  BY DEF RunPut
<1>3. TypeOK'
  BY <1>1, <1>2 DEF BaseInv, TypeOK, dbVars, evictVars, operVars
<1>4. PauseInv' /\ StampInv'
  BY <1>2, StampUnchanged DEF BaseInv, PauseInv, dbVars, evictVars, operVars
<1>5. QED
  BY <1>3, <1>4 DEF BaseInv

LEMMA EvictBeginKeepsBase ==
  ASSUME BaseInv, NEW c \in EvictCounts, EvictBegin(c[1], c[2])
  PROVE  BaseInv'
<1>1. c[1] \in Nat /\ c[2] \in Nat
  BY ConstantsAssumption
<1>2. pass' \in Pass
  BY <1>1 DEF EvictBegin, Lesser, Pass
<1>3. TypeOK'
  BY <1>2 DEF EvictBegin, BaseInv, TypeOK, dbVars, memVars, queueVars, operVars
<1>4. PauseInv' /\ StampInv'
  BY StampUnchanged DEF EvictBegin, BaseInv, PauseInv, dbVars, queueVars, operVars
<1>5. QED
  BY <1>3, <1>4 DEF BaseInv

LEMMA EvictSelectKeepsBase ==
  ASSUME BaseInv, EvictSelect
  PROVE  BaseInv'
<1>0. UNCHANGED <<now, memVars, queueVars, req, operVars, aborted, crashes>>
  BY DEF EvictSelect
<1>1. CASE ~Permitted \/ Selected = {}
  <2>1. pass' = NoPass /\ UNCHANGED <<dbVars, evicting, unlinking, evictedUntil>>
    BY <1>1 DEF EvictSelect
  <2>2. NoPass \in Pass
    BY DEF NoPass, Pass
  <2>3. TypeOK'
    BY <1>0, <2>1, <2>2 DEF BaseInv, TypeOK, dbVars, memVars, queueVars, operVars
  <2>4. PauseInv' /\ StampInv'
    BY <1>0, <2>1, StampUnchanged DEF BaseInv, PauseInv, dbVars, queueVars, operVars
  <2>5. QED
    BY <2>3, <2>4 DEF BaseInv
<1>2. CASE Permitted /\ Selected # {}
  <2>1. /\ pass' = [pass EXCEPT !.st = "unlink"]
        /\ rows' = [rows EXCEPT ![Rank0] = @ \ Deleted]
        /\ la' = [g \in Groups |-> IF g \in Deleted THEN 0 ELSE la[g]]
        /\ evictedUntil' = Max({la[g] : g \in Selected})
        /\ evicting' = Selected
        /\ unlinking' = Ranks
        /\ UNCHANGED persisted
    BY <1>2 DEF EvictSelect
  <2>2. /\ Selected \subseteq Groups
        /\ evictedUntil' \in Nat /\ evictedUntil' < (now + 1) * SubTicks
    BY <1>2, <2>1, CutOfSelected
  <2>3. pass' \in Pass
    BY <2>1 DEF BaseInv, TypeOK, Pass
  <2>4. /\ rows' \in [Ranks -> SUBSET Groups] /\ la' \in [Groups -> Nat]
        /\ evicting' \in SUBSET Groups /\ unlinking' \in SUBSET Ranks
    BY <2>1, <2>2 DEF BaseInv, TypeOK
  <2>5. TypeOK'
    BY <1>0, <2>1, <2>2, <2>3, <2>4 DEF BaseInv, TypeOK, memVars, queueVars, operVars
  <2>6. PauseInv'
    BY <1>0, <1>2, <2>1 DEF BaseInv, PauseInv, TypeOK, Permitted, operVars
  <2>7. StampInv'
    <3>1. \A g \in Groups : la'[g] < (now + 1) * SubTicks
      <4>1. 0 < (now + 1) * SubTicks
        BY NextTick, ConstantsAssumption DEF BaseInv, TypeOK
      <4>2. QED
        BY <2>1, <4>1 DEF BaseInv, StampInv
    <3>2. QED
      BY <1>0, <2>2, <3>1 DEF BaseInv, StampInv, queueVars
  <2>8. QED
    BY <2>5, <2>6, <2>7 DEF BaseInv
<1>3. QED
  BY <1>1, <1>2

\* evict_labels on rank r: the published labels leave its Mem.
LEMMA EvictLabelsEffect ==
  ASSUME TypeOK, NEW r \in Ranks, EvictLabels(r)
  PROVE  /\ mem' \in [Ranks -> [Groups -> SUBSET Layers]]
         /\ memPersisted' \in [Ranks -> SUBSET Groups]
         /\ \A s \in Ranks \ {r} : mem'[s] = mem[s] /\ memPersisted'[s] = memPersisted[s]
         /\ \A g \in Groups : mem'[r][g] = IF g \in evicting THEN {} ELSE mem[r][g]
         /\ memPersisted'[r] = memPersisted[r] \ evicting
<1>1. \A g \in Groups : (IF g \in evicting THEN {} ELSE mem[r][g]) \in SUBSET Layers
  BY DEF TypeOK
<1>2. mem'[r] = [g \in Groups |-> IF g \in evicting THEN {} ELSE mem[r][g]]
      /\ mem' = [mem EXCEPT ![r] = mem'[r]]
  BY DEF EvictLabels, TypeOK
<1>3. mem'[r] \in [Groups -> SUBSET Layers]
  BY <1>1, <1>2
<1>4. mem' \in [Ranks -> [Groups -> SUBSET Layers]] /\ \A s \in Ranks \ {r} : mem'[s] = mem[s]
  BY <1>2, <1>3 DEF TypeOK
<1>5. /\ memPersisted' \in [Ranks -> SUBSET Groups]
      /\ \A s \in Ranks \ {r} : memPersisted'[s] = memPersisted[s]
      /\ memPersisted'[r] = memPersisted[r] \ evicting
  BY DEF EvictLabels, TypeOK
<1>6. ASSUME NEW g \in Groups
      PROVE  mem'[r][g] = IF g \in evicting THEN {} ELSE mem[r][g]
  <2>1. mem'[r] = [h \in Groups |-> IF h \in evicting THEN {} ELSE mem[r][h]]
    BY <1>2
  <2>2. QED
    BY <2>1
<1>7. QED
  BY <1>4, <1>5, <1>6

LEMMA EvictLabelsKeepsBase ==
  ASSUME BaseInv, NEW r \in Ranks, EvictLabels(r)
  PROVE  BaseInv'
<1>1. /\ mem' \in [Ranks -> [Groups -> SUBSET Layers]]
      /\ memPersisted' \in [Ranks -> SUBSET Groups]
  BY EvictLabelsEffect DEF BaseInv
<1>2. r \in unlinking /\ unlinking' = unlinking \ {r}
      /\ UNCHANGED <<now, dbVars, disk, queueVars, req, evicting, evictedUntil, pass, operVars,
                     aborted, crashes>>
  BY DEF EvictLabels
<1>3. TypeOK'
  BY <1>1, <1>2 DEF BaseInv, TypeOK, dbVars, queueVars, operVars
<1>4. PauseInv' /\ StampInv'
  BY <1>2, StampUnchanged DEF BaseInv, PauseInv, dbVars, queueVars, operVars
<1>5. QED
  BY <1>3, <1>4 DEF BaseInv

LEMMA EvictDoneKeepsBase ==
  ASSUME BaseInv, EvictDone
  PROVE  BaseInv'
<1>1. Cardinality(evicting) \in Nat
  BY ConstantsAssumption, FS_Subset, FS_CardinalityType DEF BaseInv, TypeOK
<1>2. pass' \in Pass
  <2> DEFINE n == pass.evicted + Cardinality(evicting)
  <2>1. pass \in Pass /\ n \in Nat /\ NoPass \in Pass
    BY <1>1 DEF NoPass, Pass, BaseInv, TypeOK
  <2>2. pass' = IF n < pass.max THEN [pass EXCEPT !.evicted = n, !.st = "select"] ELSE NoPass
    BY DEF EvictDone
  <2>3. [pass EXCEPT !.evicted = n, !.st = "select"] \in Pass
    <3> HIDE DEF n
    <3> QED BY <2>1 DEF Pass
  <2>4. QED
    <3> HIDE DEF n
    <3> QED BY <2>1, <2>2, <2>3
<1>3. TypeOK'
  BY <1>2 DEF EvictDone, BaseInv, TypeOK, dbVars, memVars, queueVars, operVars
<1>4. PauseInv' /\ StampInv'
  BY StampUnchanged DEF EvictDone, BaseInv, PauseInv, dbVars, queueVars, operVars
<1>5. QED
  BY <1>3, <1>4 DEF BaseInv

LEMMA OperatorKeepsBase ==
  ASSUME BaseInv, Operator
  PROVE  BaseInv'
<1>1. UNCHANGED <<now, dbVars, memVars, queueVars, req, evictVars, aborted, crashes>>
  BY DEF Operator, PauseEvict, PauseReturns, ResumeEvict, PersistBegin
<1>2. StampInv'
  BY <1>1, StampUnchanged DEF BaseInv, dbVars, queueVars, evictVars
<1>3. enabled' \in BOOLEAN /\ pause' \in {"none", "waiting", "held"} /\ persisting' \in SUBSET Ranks
  BY DEF Operator, PauseEvict, PauseReturns, ResumeEvict, PersistBegin, BaseInv, TypeOK
<1>4. TypeOK'
  BY <1>1, <1>3 DEF BaseInv, TypeOK, dbVars, memVars, queueVars, evictVars
<1>5. PauseInv'
  BY <1>1 DEF Operator, PauseEvict, PauseReturns, ResumeEvict, PersistBegin, BaseInv,
              PauseInv, evictVars
<1>6. QED
  BY <1>2, <1>4, <1>5 DEF BaseInv

\* persist_groups on rank r: Unsaved(r) goes to disk and is marked.
Unsaved(r) == {g \in Groups : mem[r][g] # {} /\ g \notin memPersisted[r]}

LEMMA PersistRankEffect ==
  ASSUME TypeOK, NEW r \in Ranks, PersistRank(r)
  PROVE  /\ disk' \in [Ranks -> [Groups -> SUBSET Layers]]
         /\ memPersisted' \in [Ranks -> SUBSET Groups]
         /\ persisted' \in [Ranks -> SUBSET Groups]
         /\ \A s \in Ranks \ {r} : /\ disk'[s] = disk[s]
                                   /\ memPersisted'[s] = memPersisted[s]
                                   /\ persisted'[s] = persisted[s]
         /\ \A g \in Groups : disk'[r][g] =
              IF g \in Unsaved(r) THEN disk[r][g] \cup mem[r][g] ELSE disk[r][g]
         /\ memPersisted'[r] = memPersisted[r] \cup Unsaved(r)
         /\ persisted'[r] = persisted[r] \cup (Unsaved(r) \cap rows[r])
<1>0. Unsaved(r) \subseteq Groups
  BY DEF Unsaved
<1>1. \A g \in Groups : (IF g \in Unsaved(r) THEN disk[r][g] \cup mem[r][g]
                         ELSE disk[r][g]) \in SUBSET Layers
  BY DEF TypeOK
<1>2. disk'[r] = [g \in Groups |-> IF g \in Unsaved(r) THEN disk[r][g] \cup mem[r][g]
                                   ELSE disk[r][g]]
      /\ disk' = [disk EXCEPT ![r] = disk'[r]]
  BY DEF PersistRank, TypeOK, Unsaved
<1>3. disk'[r] \in [Groups -> SUBSET Layers]
  BY <1>1, <1>2
<1>4. disk' \in [Ranks -> [Groups -> SUBSET Layers]] /\ \A s \in Ranks \ {r} : disk'[s] = disk[s]
  BY <1>2, <1>3 DEF TypeOK
<1>5. /\ memPersisted' = [memPersisted EXCEPT ![r] = @ \cup Unsaved(r)]
      /\ persisted' = [persisted EXCEPT ![r] = @ \cup (Unsaved(r) \cap rows[r])]
  BY DEF PersistRank, Unsaved
<1>6. /\ memPersisted' \in [Ranks -> SUBSET Groups] /\ persisted' \in [Ranks -> SUBSET Groups]
      /\ \A s \in Ranks \ {r} : memPersisted'[s] = memPersisted[s] /\ persisted'[s] = persisted[s]
      /\ memPersisted'[r] = memPersisted[r] \cup Unsaved(r)
      /\ persisted'[r] = persisted[r] \cup (Unsaved(r) \cap rows[r])
  BY <1>0, <1>5 DEF TypeOK
<1>7. ASSUME NEW g \in Groups
      PROVE  disk'[r][g] = IF g \in Unsaved(r) THEN disk[r][g] \cup mem[r][g] ELSE disk[r][g]
  <2>1. disk'[r] = [h \in Groups |-> IF h \in Unsaved(r) THEN disk[r][h] \cup mem[r][h]
                                     ELSE disk[r][h]]
    BY <1>2
  <2>2. QED
    BY <2>1
<1>8. QED
  BY <1>4, <1>6, <1>7

LEMMA PersistRankKeepsBase ==
  ASSUME BaseInv, NEW r \in Ranks, PersistRank(r)
  PROVE  BaseInv'
<1>1. /\ disk' \in [Ranks -> [Groups -> SUBSET Layers]]
      /\ memPersisted' \in [Ranks -> SUBSET Groups]
      /\ persisted' \in [Ranks -> SUBSET Groups]
  BY PersistRankEffect DEF BaseInv
<1>2. persisting' = persisting \ {r}
      /\ UNCHANGED <<now, rows, la, mem, queueVars, req, evictVars, enabled, pause,
                     aborted, crashes>>
  BY DEF PersistRank
<1>3. TypeOK'
  BY <1>1, <1>2 DEF BaseInv, TypeOK, queueVars, evictVars
<1>4. PauseInv' /\ StampInv'
  BY <1>2, StampUnchanged DEF BaseInv, PauseInv, queueVars, evictVars
<1>5. QED
  BY <1>3, <1>4 DEF BaseInv

LEMMA TickKeepsBase ==
  ASSUME BaseInv, Tick
  PROVE  BaseInv'
<1>1. now \in Nat /\ now' = now + 1 /\ now' \in 1..MaxTime
  BY ConstantsAssumption DEF Tick, BaseInv, TypeOK
<1>2. UNCHANGED <<dbVars, memVars, queueVars, req, evictVars, operVars, aborted, crashes>>
  BY DEF Tick
<1>3. TypeOK'
  BY <1>1, <1>2 DEF BaseInv, TypeOK, dbVars, memVars, queueVars, evictVars, operVars
<1>4. PauseInv'
  BY <1>2 DEF BaseInv, PauseInv, evictVars, operVars
<1>5. StampInv'
  <2>1. /\ (now + 1) * SubTicks \in Nat /\ (now' + 1) * SubTicks \in Nat
        /\ (now + 1) * SubTicks <= (now' + 1) * SubTicks
    BY <1>1, NextTick
  <2>2. \A g \in Groups : la[g] \in Nat /\ la[g] < (now + 1) * SubTicks
    BY DEF BaseInv, TypeOK, StampInv
  <2>3. evictedUntil \in Nat /\ evictedUntil < (now + 1) * SubTicks
    BY DEF BaseInv, TypeOK, StampInv
  <2>4. \A g \in Groups : la'[g] < (now' + 1) * SubTicks
    BY <1>2, <2>1, <2>2 DEF dbVars
  <2>5. evictedUntil' < (now' + 1) * SubTicks
    BY <1>2, <2>1, <2>3 DEF evictVars
  <2>6. QED
    BY <1>2, <2>4, <2>5 DEF BaseInv, StampInv, queueVars
<1>6. QED
  BY <1>3, <1>4, <1>5 DEF BaseInv

LEMMA RestartKeepsBase ==
  ASSUME BaseInv, Restart
  PROVE  BaseInv' /\ evictedUntil' >= evictedUntil
<1>0. Idle \in ReqState /\ Len(Idle.save) = 0 /\ NoPass \in Pass
  BY DEF Idle, ReqState, NoPass, Pass
<1>1. now \in Nat /\ now' = now + 1 /\ now' \in 1..MaxTime /\ crashes' \in 0..MaxCrashes
  BY ConstantsAssumption DEF Restart, BaseInv, TypeOK
<1>2. /\ (now + 1) * SubTicks \in Nat /\ (now' + 1) * SubTicks \in Nat
      /\ (now + 1) * SubTicks <= (now' + 1) * SubTicks
      /\ (now + 1) * SubTicks = now * SubTicks + SubTicks /\ now * SubTicks \in Nat
      /\ SubTicks \in Nat \ {0}
  BY <1>1, NextTick, ConstantsAssumption
<1>3. /\ evictedUntil' = (now + 1) * SubTicks - 1
      /\ evictedUntil' \in Nat /\ evictedUntil' < (now' + 1) * SubTicks
      /\ evictedUntil' >= evictedUntil
  <2>1. evictedUntil' = now * SubTicks + SubTicks - 1
    BY DEF Restart
  <2>2. evictedUntil \in Nat /\ evictedUntil < (now + 1) * SubTicks
    BY DEF BaseInv, TypeOK, StampInv
  <2>3. QED
    BY <1>2, <2>1, <2>2
<1>4. \A g \in Groups : la'[g] \in Nat /\ la'[g] < (now' + 1) * SubTicks
  <2>1. \A g \in Groups : la[g] \in Nat /\ la[g] < (now + 1) * SubTicks
    BY DEF BaseInv, TypeOK, StampInv
  <2>2. \A g \in Groups : la'[g] = 0 \/ la'[g] = la[g]
    BY DEF Restart
  <2>3. QED
    BY <1>2, <2>1, <2>2
<1>5. la' \in [Groups -> Nat]
  BY <1>4 DEF Restart
<1>6. /\ cmd' \in [Ranks -> Seq(Step)] /\ hi' \in [Ranks -> Seq(Task)]
      /\ lo' \in [Ranks -> Seq(Task)] /\ req' \in [Reqs -> ReqState] /\ pass' \in Pass
  BY <1>0 DEF Restart
<1>7. mem' \in [Ranks -> [Groups -> SUBSET Layers]] /\ memPersisted' \in [Ranks -> SUBSET Groups]
  BY DEF Restart
<1>8. TypeOK'
  BY <1>1, <1>3, <1>5, <1>6, <1>7 DEF Restart, BaseInv, TypeOK
<1>9. PauseInv'
  BY DEF Restart, PauseInv
<1>10. StampInv'
  <2>1. \A q \in Reqs : Len(req'[q].save) <= SubTicks
    BY <1>0, <1>2 DEF Restart
  <2>2. \A r \in Ranks : cmd'[r] = <<>>
    BY DEF Restart
  <2>3. QED
    BY <1>3, <1>4, <2>1, <2>2 DEF StampInv
<1>11. QED
  BY <1>3, <1>8, <1>9, <1>10 DEF BaseInv

LEMMA BaseStep ==
  ASSUME BaseInv, [Next]_vars
  PROVE  BaseInv'
<1>1. ASSUME NEW q \in Reqs, (\E p \in Prompts : Has(q, p)) \/ Dispatch(q) \/ Finish(q)
      PROVE  BaseInv'
  BY <1>1, HasKeepsBase, DispatchKeepsBase, FinishKeepsBase
<1>2. ASSUME NEW r \in Ranks, Worker(r) \/ EvictLabels(r) \/ PersistRank(r)
      PROVE  BaseInv'
  BY <1>2, StartLoadKeepsBase, SaveLayerKeepsBase, RunLoadKeepsBase, RunRetryKeepsBase,
     RunPutKeepsBase, EvictLabelsKeepsBase, PersistRankKeepsBase DEF Worker
<1>3. CASE Monitor
  BY <1>3, EvictBeginKeepsBase, EvictSelectKeepsBase, EvictDoneKeepsBase DEF Monitor
<1>4. CASE UNCHANGED vars
  <2>1. TypeOK'
    BY <1>4 DEF vars, BaseInv, TypeOK, dbVars, memVars, queueVars, evictVars, operVars
  <2>2. PauseInv' /\ StampInv'
    BY <1>4, StampUnchanged DEF vars, BaseInv, PauseInv, dbVars, queueVars, evictVars, operVars
  <2>3. QED
    BY <2>1, <2>2 DEF BaseInv
<1>5. QED
  BY <1>1, <1>2, <1>3, <1>4, OperatorKeepsBase, TickKeepsBase, RestartKeepsBase
     DEF Next, Scheduler

\* The types of the protocol's state: only existing groups are listed, queued
\* and evicted, layers are layers of the model, timestamps are naturals.
THEOREM TypeCorrect == Spec => []TypeOK
<1>1. BaseInv => TypeOK
  BY DEF BaseInv
<1>2. QED
  BY <1>1, BaseInit, BaseStep, PTL DEF Spec

\* POST /v1/cache/evict {"enable": false}: once it has been answered no batch
\* is selected or under way until eviction is enabled again.
THEOREM PauseIsKept == Spec => []PauseHolds
<1>1. BaseInv => PauseHolds
  BY DEF BaseInv, PauseInv, PauseHolds
<1>2. QED
  BY <1>1, BaseInit, BaseStep, PTL DEF Spec

\* Record::evict never moves _evicted_until back, nor does a restart of the
\* scheduler, forced eviction included.
THEOREM CutOnlyAdvances == Spec => CutAdvances
<1>1. ASSUME BaseInv, [Next]_vars
      PROVE  [evictedUntil' >= evictedUntil]_evictedUntil
  <2>1. CASE EvictSelect
    <3>1. CASE Permitted /\ Selected # {}
      <4>1. evictedUntil' = Max({la[g] : g \in Selected})
        BY <2>1, <3>1 DEF EvictSelect
      <4>2. evictedUntil \in Nat /\ evictedUntil' \in Nat /\ evictedUntil' > evictedUntil
        BY <1>1, <3>1, <4>1, CutOfSelected DEF BaseInv, TypeOK
      <4>3. QED
        BY <4>2
    <3>2. CASE ~(Permitted /\ Selected # {})
      BY <2>1, <3>2 DEF EvictSelect
    <3>3. QED
      BY <3>1, <3>2
  <2>2. CASE Restart
    BY <1>1, <2>2, RestartKeepsBase
  <2>3. CASE Scheduler \/ Operator \/ Tick \/ UNCHANGED vars
    BY <2>3 DEF Scheduler, Has, Dispatch, Finish, Operator, PauseEvict, PauseReturns,
                ResumeEvict, PersistBegin, Tick, vars, evictVars
  <2>4. CASE \E r \in Ranks : Worker(r) \/ EvictLabels(r) \/ PersistRank(r)
    BY <2>4 DEF Worker, StartLoad, SaveLayer, RunLoad, RunRetry, RunPut, EvictLabels,
                PersistRank, evictVars
  <2>5. CASE (\E c \in EvictCounts : EvictBegin(c[1], c[2])) \/ EvictDone
    BY <2>5 DEF EvictBegin, EvictDone
  <2>6. QED
    BY <1>1, <2>1, <2>2, <2>3, <2>4, <2>5 DEF Next, Monitor
<1>2. QED
  BY <1>1, BaseInit, BaseStep, PTL DEF Spec, CutAdvances

=============================================================================
