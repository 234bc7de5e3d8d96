--------------------------- MODULE TaskQueueProofs ---------------------------
(***************************************************************************)
(* The task queue, proved for any set of tasks and of threads: it          *)
(* implements the Executor its clients rely on, and the layers of a        *)
(* request are loaded in order whatever is promoted and sorted meanwhile.  *)
(***************************************************************************)
EXTENDS TaskQueue, FiniteSetTheorems, TLAPS

QueueType ==
  /\ state \in {"CREATED", "RUNNING", "STOPPING", "STOPPED"}
  /\ tasks \in [Levels -> Seq(Items)]
  /\ worker \in {"none", "loop", "asleep", "exited"}
  /\ running \in Items \cup {None} /\ done \in Seq(Items)
  /\ accepted \in SUBSET Items

\* A task is in one place.
Apart == \A l, m \in Levels : \A i \in DOMAIN tasks[l], j \in DOMAIN tasks[m] :
  tasks[l][i] = tasks[m][j] => l = m /\ i = j
Once ==
  /\ Apart
  /\ \A x \in Waiting : x \notin Range(done) /\ x # running
  /\ running \notin Range(done)
  /\ Waiting \cup ({running} \ {None}) \cup Range(done) \subseteq accepted

\* The worker starts with init() and ends with nothing left to do.
Ended ==
  /\ state = "CREATED" => worker = "none" /\ running = None /\ AllEmpty
  /\ worker = "exited" => state \in {"STOPPING", "STOPPED"} /\ running = None /\ AllEmpty

\* Layers of the same request.
Same(x, y) == x.bundle # 0 /\ x.bundle = y.bundle

\* Layers are accepted in turn, and no task waits on a less urgent level than
\* the one it was submitted to.
Turn == \A y \in accepted : \A x \in Items :
  Same(x, y) /\ x.key < y.key => x \in accepted /\ x.level <= y.level
Urged == \A l \in Levels : \A i \in DOMAIN tasks[l] : l <= tasks[l][i].level

\* Of two waiting layers of a request the earlier one is served first, and the
\* one that runs is served before both.
Sorted == \A l, m \in Levels : \A i \in DOMAIN tasks[l], j \in DOMAIN tasks[m] :
  Same(tasks[l][i], tasks[m][j]) /\ tasks[l][i].key < tasks[m][j].key
    => l < m \/ (l = m /\ i < j)
RunsFirst == running # None =>
  \A y \in Waiting : Same(y, running) => running.key <= y.key

QueueInv ==
  /\ QueueType /\ Once /\ Ended
  /\ Turn /\ Urged /\ Sorted /\ RunsFirst /\ LayerOrder

-----------------------------------------------------------------------------
(* What the queue does to its sequences.                                   *)

\* r is s at the positions I, in order.
Embeds(r, s, I) ==
  \E f \in [DOMAIN r -> I] :
    /\ \A k \in DOMAIN r : r[k] = s[f[k]]
    /\ \A k, n \in DOMAIN r : k < n => f[k] < f[n]
    /\ \A i \in I : \E k \in DOMAIN r : f[k] = i

\* Positions have ranks 1, 2, ...: picking lists them in order.
LEMMA PickedFacts ==
  ASSUME NEW S, NEW s \in Seq(S), NEW I \in SUBSET DOMAIN s
  PROVE  Picked(s, I) \in Seq(S) /\ Embeds(Picked(s, I), s, I)
<1> DEFINE c == Cardinality(I)
           rk == [i \in I |-> Rank(I, i)]
           f == [k \in 1..c |-> CHOOSE i \in I : Rank(I, i) = k]
<1>1. Len(s) \in Nat /\ DOMAIN s = 1..Len(s) /\ I \subseteq 1..Len(s)
  OBVIOUS
<1>2. IsFiniteSet(I) /\ c \in Nat
  <2>1. IsFiniteSet(1..Len(s))
    BY <1>1, FS_Interval
  <2>2. QED
    BY <1>1, <2>1, FS_Subset, FS_CardinalityType
<1>3. ASSUME NEW i \in I
      PROVE  IsFiniteSet({j \in I : j <= i}) /\ Rank(I, i) \in 1..c
  <2> DEFINE A == {j \in I : j <= i}
  <2>1. A \subseteq I /\ i \in A
    BY <1>1
  <2> HIDE DEF A
  <2>2. IsFiniteSet(A) /\ Cardinality(A) <= c
    BY <1>2, <2>1, FS_Subset
  <2>3. Cardinality(A) \in Nat /\ Cardinality(A) # 0
    BY <2>1, <2>2, FS_CardinalityType, FS_EmptySet
  <2>4. Rank(I, i) = Cardinality(A)
    BY DEF Rank, A
  <2>5. QED
    BY <1>2, <2>2, <2>3, <2>4 DEF A
<1>4. \A i \in I : Rank(I, i) \in 1..c /\ Rank(I, i) \in Nat
  <2>1. \A i \in I : Rank(I, i) \in 1..c
    BY <1>3
  <2>2. 1..c \subseteq Nat
    BY <1>2
  <2>3. QED
    BY <2>1, <2>2
<1>5. \A i, j \in I : i < j => Rank(I, i) < Rank(I, j)
  <2> SUFFICES ASSUME NEW i \in I, NEW j \in I, i < j PROVE Rank(I, i) < Rank(I, j)
    OBVIOUS
  <2> DEFINE A == {m \in I : m <= i}
             B == {m \in I : m <= j}
  <2>1. A \subseteq B /\ j \in B /\ j \notin A
    BY <1>1
  <2>2. IsFiniteSet(A) /\ IsFiniteSet(B)
    BY <1>3
  <2>3. Rank(I, i) = Cardinality(A) /\ Rank(I, j) = Cardinality(B)
    BY DEF Rank
  <2> HIDE DEF A, B
  <2>4. Cardinality(A) <= Cardinality(B) /\ Cardinality(A) # Cardinality(B)
    BY <2>1, <2>2, FS_Subset
  <2>5. QED
    BY <1>4, <2>3, <2>4
<1>6. \A k \in 1..c : \E i \in I : Rank(I, i) = k
  <2>1. rk \in [I -> 1..c]
    BY <1>4
  <2>2. \A i, j \in I : rk[i] = rk[j] => i = j
    <3> SUFFICES ASSUME NEW i \in I, NEW j \in I, Rank(I, i) = Rank(I, j) PROVE i = j
      OBVIOUS
    <3>1. ~(i < j) /\ ~(j < i)
      BY <1>4, <1>5
    <3>2. QED
      BY <1>1, <3>1
  <2> HIDE DEF rk, c
  <2>3. rk \in Injection(I, 1..c)
    BY <2>1, <2>2 DEF Injection, IsInjective
  <2>4. IsFiniteSet(1..c) /\ Cardinality(1..c) = c
    BY <1>2, FS_Interval
  <2>5. Cardinality(I) = Cardinality(1..c)
    BY <2>4 DEF c
  <2>6. rk \in Surjection(I, 1..c)
    BY <2>3, <2>4, <2>5, FS_Injection
  <2>7. QED
    BY <2>6 DEF Surjection, rk
<1>7. \A k \in 1..c : f[k] \in I /\ Rank(I, f[k]) = k
  BY <1>6
<1>8. Picked(s, I) = [k \in 1..c |-> s[f[k]]]
  BY DEF Picked
<1> HIDE DEF f, c
<1>9. \A k, n \in 1..c : k < n => f[k] < f[n]
  <2> SUFFICES ASSUME NEW k \in 1..c, NEW n \in 1..c, k < n PROVE f[k] < f[n]
    OBVIOUS
  <2>1. f[k] # f[n] /\ ~(f[n] < f[k])
    BY <1>2, <1>5, <1>7
  <2>2. QED
    BY <1>1, <1>7, <2>1
<1>10. \A i \in I : \E k \in 1..c : f[k] = i
  <2> SUFFICES ASSUME NEW i \in I PROVE f[Rank(I, i)] = i /\ Rank(I, i) \in 1..c
    OBVIOUS
  <2>1. Rank(I, i) \in 1..c
    BY <1>4
  <2>2. f[Rank(I, i)] \in I /\ Rank(I, f[Rank(I, i)]) = Rank(I, i)
    BY <1>7, <2>1
  <2>3. ~(f[Rank(I, i)] < i) /\ ~(i < f[Rank(I, i)])
    BY <1>4, <1>5, <2>2
  <2>4. QED
    BY <1>1, <2>1, <2>2, <2>3
<1>11. f \in [1..c -> I]
  BY <1>7 DEF f
<1>12. /\ DOMAIN Picked(s, I) = 1..c
       /\ \A k \in 1..c : Picked(s, I)[k] = s[f[k]] /\ s[f[k]] \in S
  BY <1>1, <1>7, <1>8
<1>13. Picked(s, I) \in Seq(S)
  BY <1>2, <1>8, <1>12
<1>14. /\ \A k \in DOMAIN Picked(s, I) : Picked(s, I)[k] = s[f[k]]
       /\ \A k, n \in DOMAIN Picked(s, I) : k < n => f[k] < f[n]
       /\ \A i \in I : \E k \in DOMAIN Picked(s, I) : f[k] = i
       /\ f \in [DOMAIN Picked(s, I) -> I]
  BY <1>9, <1>10, <1>11, <1>12
<1>15. Embeds(Picked(s, I), s, I)
  BY <1>14 DEF Embeds
<1>16. QED
  BY <1>13, <1>15

\* R lists the tasks of the bundles on the levels L, in the queue's order.
Forward(R, L, bs) ==
  \A k, n \in DOMAIN R : k < n =>
    \A l, m \in L : \A i \in Members(tasks[l], bs), j \in Members(tasks[m], bs) :
      R[k] = tasks[l][i] /\ R[n] = tasks[m][j] => l < m \/ (l = m /\ i < j)
Lists(R, L, bs) ==
  /\ R \in Seq(Items)
  /\ \A k \in DOMAIN R : \E l \in L : \E i \in Members(tasks[l], bs) : R[k] = tasks[l][i]
  /\ \A l \in L : \A i \in Members(tasks[l], bs) : \E k \in DOMAIN R : R[k] = tasks[l][i]
  /\ Forward(R, L, bs)

LEMMA FromLists ==
  ASSUME tasks \in [Levels -> Seq(Items)], Apart,
         NEW p \in Levels, NEW bs, NEW l \in Levels
  PROVE  Lists(From(l, p, bs), {m \in {l} : m > p}, bs)
<1>1. CASE ~(l > p)
  <2>1. From(l, p, bs) = <<>> /\ {m \in {l} : m > p} = {}
    BY <1>1 DEF From
  <2>2. Lists(<<>>, {}, bs)
    BY DEF Lists, Forward
  <2>3. QED
    BY <2>1, <2>2
<1>2. CASE l > p
  <2> DEFINE I == Members(tasks[l], bs)
             s == tasks[l]
             R == Picked(s, I)
  <2>1. From(l, p, bs) = R /\ {m \in {l} : m > p} = {l}
    BY <1>2 DEF From, Bundled
  <2>2. tasks[l] \in Seq(Items) /\ I \in SUBSET DOMAIN tasks[l]
    BY DEF Members
  <2>0. s \in Seq(Items) /\ I \in SUBSET DOMAIN s
    BY <2>2
  <2> HIDE DEF I, s, R
  <2>3. R \in Seq(Items) /\ Embeds(R, s, I)
    BY <2>0, PickedFacts DEF R
  <2>4. PICK f \in [DOMAIN R -> I] :
             /\ \A k \in DOMAIN R : R[k] = s[f[k]]
             /\ \A k, n \in DOMAIN R : k < n => f[k] < f[n]
             /\ \A i \in I : \E k \in DOMAIN R : f[k] = i
    BY <2>3 DEF Embeds
  <2>5. \A k \in DOMAIN R : \E i \in I : R[k] = tasks[l][i]
    BY <2>4 DEF s
  <2>6. \A i \in I : \E k \in DOMAIN R : R[k] = tasks[l][i]
    BY <2>4 DEF s
  <2>7. ASSUME NEW k \in DOMAIN R, NEW n \in DOMAIN R, k < n, NEW i \in I, NEW j \in I,
               R[k] = tasks[l][i], R[n] = tasks[l][j]
        PROVE  i < j
    <3>1. f[k] = i /\ f[n] = j
      BY <2>2, <2>4, <2>7 DEF Apart, s
    <3>2. QED
      BY <2>4, <2>7, <3>1
  <2>8. Forward(R, {l}, bs)
    BY <2>7 DEF Forward, I
  <2>9. Lists(R, {l}, bs)
    BY <2>3, <2>5, <2>6, <2>8 DEF Lists, I
  <2>10. QED
    BY <2>1, <2>9
<1>3. QED
  BY <1>1, <1>2

LEMMA OneLevel ==
  ASSUME Apart, NEW bs, NEW l \in Levels, NEW m \in Levels,
         NEW i \in Members(tasks[l], bs), NEW j \in Members(tasks[m], bs),
         tasks[l][i] = tasks[m][j]
  PROVE  l = m
BY DEF Apart, Members

LEMMA ListsJoin ==
  ASSUME NEW A, NEW B, NEW L \in SUBSET Levels, NEW M \in SUBSET Levels, NEW bs,
         Lists(A, L, bs), Lists(B, M, bs), Apart,
         \A l \in L, m \in M : l < m
  PROVE  Lists(A \o B, L \cup M, bs)
<1> DEFINE R == A \o B
<1>1. /\ A \in Seq(Items) /\ B \in Seq(Items) /\ R \in Seq(Items)
      /\ Len(A) \in Nat /\ Len(B) \in Nat /\ DOMAIN R = 1..(Len(A) + Len(B))
      /\ DOMAIN A = 1..Len(A) /\ DOMAIN B = 1..Len(B)
      /\ \A k \in 1..Len(A) : R[k] = A[k]
      /\ \A k \in 1..Len(B) : R[Len(A) + k] = B[k]
  BY DEF Lists
<1> HIDE DEF R
<1>2. ASSUME NEW k \in DOMAIN R
      PROVE  \/ k \in DOMAIN A /\ R[k] = A[k]
             \/ k - Len(A) \in DOMAIN B /\ R[k] = B[k - Len(A)] /\ k > Len(A)
  <2>1. CASE k <= Len(A)
    BY <1>1, <2>1
  <2>2. CASE k > Len(A)
    <3>1. k - Len(A) \in 1..Len(B) /\ Len(A) + (k - Len(A)) = k
      BY <1>1, <2>2
    <3>2. R[Len(A) + (k - Len(A))] = B[k - Len(A)]
      BY <1>1, <3>1
    <3>3. QED
      BY <1>1, <2>2, <3>1, <3>2
  <2>3. QED
    BY <1>1, <2>1, <2>2
<1>3. \A k \in DOMAIN A : k \in DOMAIN R /\ R[k] = A[k]
  BY <1>1
<1>4. \A k \in DOMAIN B : Len(A) + k \in DOMAIN R /\ R[Len(A) + k] = B[k]
  BY <1>1
<1>5. \A k \in DOMAIN R : \E l \in L \cup M : \E i \in Members(tasks[l], bs) : R[k] = tasks[l][i]
  BY <1>2 DEF Lists
<1>6. \A l \in L \cup M : \A i \in Members(tasks[l], bs) : \E k \in DOMAIN R : R[k] = tasks[l][i]
  BY <1>3, <1>4 DEF Lists
<1>7. Forward(R, L \cup M, bs)
  <2> SUFFICES ASSUME NEW k \in DOMAIN R, NEW n \in DOMAIN R, k < n,
                      NEW l \in L \cup M, NEW m \in L \cup M,
                      NEW i \in Members(tasks[l], bs), NEW j \in Members(tasks[m], bs),
                      R[k] = tasks[l][i], R[n] = tasks[m][j]
               PROVE  l < m \/ (l = m /\ i < j)
    BY DEF Forward
  <2>0. i \in DOMAIN tasks[l] /\ j \in DOMAIN tasks[m] /\ l \in Levels /\ m \in Levels
    BY DEF Members
  <2>1. CASE k \in DOMAIN A /\ n \in DOMAIN A
    <3>1. l \in L /\ m \in L
      <4>1. \E q \in L : \E v \in Members(tasks[q], bs) : A[k] = tasks[q][v]
        BY <2>1 DEF Lists
      <4>2. \E q \in L : \E v \in Members(tasks[q], bs) : A[n] = tasks[q][v]
        BY <2>1 DEF Lists
      <4>3. QED
        BY <1>3, <2>0, <2>1, <4>1, <4>2 DEF Apart, Members
    <3>2. QED
      BY <1>3, <2>1, <3>1 DEF Lists, Forward
  <2>2. CASE k \in DOMAIN A /\ n - Len(A) \in DOMAIN B /\ R[n] = B[n - Len(A)]
    <3>1. l \in L
      <4>1. \E q \in L : \E v \in Members(tasks[q], bs) : A[k] = tasks[q][v]
        BY <2>2 DEF Lists
      <4>2. QED
        BY <1>3, <2>0, <2>2, <4>1 DEF Apart, Members
    <3>2. m \in M
      <4>1. \E q \in M : \E v \in Members(tasks[q], bs) : B[n - Len(A)] = tasks[q][v]
        BY <2>2 DEF Lists
      <4>2. QED
        BY <2>0, <2>2, <4>1 DEF Apart, Members
    <3>3. QED
      BY <3>1, <3>2
  <2>3. CASE /\ k - Len(A) \in DOMAIN B /\ R[k] = B[k - Len(A)]
             /\ n - Len(A) \in DOMAIN B /\ R[n] = B[n - Len(A)]
    <3>1. l \in M /\ m \in M
      <4>1. \E q \in M : \E v \in Members(tasks[q], bs) : B[k - Len(A)] = tasks[q][v]
        BY <2>3 DEF Lists
      <4>2. \E q \in M : \E v \in Members(tasks[q], bs) : B[n - Len(A)] = tasks[q][v]
        BY <2>3 DEF Lists
      <4>3. l \in M
        BY <2>0, <2>3, <4>1, OneLevel
      <4>4. m \in M
        BY <2>0, <2>3, <4>2, OneLevel
      <4>5. QED
        BY <4>3, <4>4
    <3>2. /\ k - Len(A) < n - Len(A)
          /\ B[k - Len(A)] = tasks[l][i] /\ B[n - Len(A)] = tasks[m][j]
      BY <1>1, <2>3
    <3>3. Forward(B, M, bs)
      BY DEF Lists
    <3>4. \A x, y \in DOMAIN B : x < y =>
            (B[x] = tasks[l][i] /\ B[y] = tasks[m][j] => l < m \/ (l = m /\ i < j))
      BY <3>1, <3>3, Zenon DEF Forward
    <3>5. QED
      BY <2>3, <3>2, <3>4, Zenon
  <2>4. QED
    BY <1>1, <1>2, <2>1, <2>2, <2>3
<1>8. QED
  BY <1>1, <1>5, <1>6, <1>7 DEF Lists, R

LEMMA RaisedLists ==
  ASSUME tasks \in [Levels -> Seq(Items)], Apart, NEW p \in Levels, NEW bs
  PROVE  Lists(Raised(p, bs), {l \in Levels : l > p}, bs)
<1> DEFINE U(l) == {m \in {l} : m > p}
<1>1. Lists(From(1, p, bs), U(1), bs) /\ Lists(From(2, p, bs), U(2), bs)
      /\ Lists(From(3, p, bs), U(3), bs)
  <2>1. 1 \in Levels /\ 2 \in Levels /\ 3 \in Levels
    BY DEF Levels
  <2>2. QED
    BY <2>1, FromLists
<1>2. U(1) \in SUBSET Levels /\ U(2) \in SUBSET Levels /\ U(3) \in SUBSET Levels
  BY DEF Levels
<1>3. Lists(From(1, p, bs) \o From(2, p, bs), U(1) \cup U(2), bs)
  <2>1. \A l \in U(1), m \in U(2) : l < m
    OBVIOUS
  <2>2. QED
    BY <1>1, <1>2, <2>1, ListsJoin
<1>4. Lists((From(1, p, bs) \o From(2, p, bs)) \o From(3, p, bs), (U(1) \cup U(2)) \cup U(3), bs)
  <2>1. \A l \in U(1) \cup U(2), m \in U(3) : l < m
    OBVIOUS
  <2>2. U(1) \cup U(2) \in SUBSET Levels
    BY <1>2
  <2>3. QED
    BY <1>1, <1>2, <1>3, <2>1, <2>2, ListsJoin
<1>5. (U(1) \cup U(2)) \cup U(3) = {l \in Levels : l > p}
  BY DEF Levels
<1>6. QED
  BY <1>4, <1>5 DEF Raised

-----------------------------------------------------------------------------
(* Promotion moves tasks and keeps their order.                            *)

LEMMA RaiseMoves ==
  ASSUME tasks \in [Levels -> Seq(Items)], Apart, Urged, Sorted,
         NEW bs, NEW p \in Levels, RaiseBundles(bs, p)
  PROVE  /\ tasks' \in [Levels -> Seq(Items)]
         /\ Waiting' = Waiting /\ Apart' /\ Urged' /\ Sorted'
<1> DEFINE R == Raised(p, bs)
           Up == {l \in Levels : l > p}
           n == Len(tasks[p])
           Rest(l) == DOMAIN tasks[l] \ Members(tasks[l], bs)
           \* Position <<l, i>> was position <<a, u>>.
           Was(l, i, a, u) ==
             /\ a \in Levels /\ u \in DOMAIN tasks[a] /\ tasks'[l][i] = tasks[a][u]
             /\ \/ a = l /\ l <= p /\ u = i
                \/ a > p /\ l = p /\ i > n /\ u \in Members(tasks[a], bs)
                \/ a = l /\ l > p /\ u \in Rest(l)
<1>0. Levels = 0..3 /\ p \in Nat
  BY DEF Levels
<1>1. Lists(R, Up, bs)
  BY RaisedLists
<1>2. /\ R \in Seq(Items) /\ Forward(R, Up, bs)
      /\ \A k \in DOMAIN R : \E a \in Up : \E u \in Members(tasks[a], bs) : R[k] = tasks[a][u]
      /\ \A a \in Up : \A u \in Members(tasks[a], bs) : \E k \in DOMAIN R : R[k] = tasks[a][u]
  BY <1>1 DEF Lists
<1>3. tasks' = [l \in Levels |-> IF l < p THEN tasks[l] ELSE IF l = p THEN tasks[l] \o R
                                 ELSE Picked(tasks[l], Rest(l))]
  BY DEF RaiseBundles, Unbundled
<1> HIDE DEF R
<1>3a. \A a \in Levels : a \in Up <=> a > p
  OBVIOUS
<1>3b. Up \subseteq Levels
  OBVIOUS
<1> HIDE DEF Up
<1>4. \A l \in Levels : l < p => tasks'[l] = tasks[l]
  BY <1>3
<1>5. /\ tasks[p] \in Seq(Items) /\ n \in Nat /\ DOMAIN tasks[p] = 1..n
      /\ Len(R) \in Nat /\ DOMAIN R = 1..Len(R)
      /\ tasks'[p] \in Seq(Items) /\ DOMAIN tasks'[p] = 1..(n + Len(R))
      /\ \A i \in 1..n : tasks'[p][i] = tasks[p][i]
      /\ \A k \in 1..Len(R) : tasks'[p][n + k] = R[k]
  <2>1. tasks'[p] = tasks[p] \o R
    BY <1>0, <1>3
  <2>2. tasks[p] \in Seq(Items)
    OBVIOUS
  <2>3. QED
    BY <1>2, <2>1, <2>2
<1> HIDE DEF n
<1>5a. p \in Nat /\ n \in Nat /\ Len(R) \in Nat /\ \A q \in DOMAIN tasks[p] : q <= n
  BY <1>0, <1>5
<1>6. \A l \in Levels : l > p =>
        tasks'[l] \in Seq(Items) /\ Embeds(tasks'[l], tasks[l], Rest(l))
  <2> SUFFICES ASSUME NEW l \in Levels, l > p
               PROVE  tasks'[l] \in Seq(Items) /\ Embeds(tasks'[l], tasks[l], Rest(l))
    OBVIOUS
  <2>1. tasks'[l] = Picked(tasks[l], Rest(l))
    BY <1>0, <1>3
  <2>2. tasks[l] \in Seq(Items) /\ Rest(l) \in SUBSET DOMAIN tasks[l]
    OBVIOUS
  <2>3. QED
    BY <2>1, <2>2, PickedFacts
<1>7. tasks' \in [Levels -> Seq(Items)]
  <2>1. ASSUME NEW l \in Levels PROVE tasks'[l] \in Seq(Items)
    <3>1. CASE l < p
      BY <1>4, <3>1
    <3>2. CASE l = p
      BY <1>5, <3>2
    <3>3. CASE l > p
      BY <1>6, <3>3
    <3>4. QED
      BY <1>0, <3>1, <3>2, <3>3
  <2>2. tasks' = [l \in Levels |-> tasks'[l]]
    BY <1>3
  <2>3. QED
    BY <2>1, <2>2
<1>8. ASSUME NEW l \in Levels, NEW i \in DOMAIN tasks'[l]
      PROVE  \E a \in Levels : \E u \in DOMAIN tasks[a] : Was(l, i, a, u)
  <2>1. CASE l < p
    <3>1. tasks'[l] = tasks[l]
      BY <1>4, <2>1
    <3>2. Was(l, i, l, i)
      BY <1>0, <1>8, <2>1, <3>1
    <3>3. QED
      BY <1>8, <3>1, <3>2
  <2>2. CASE l = p /\ i <= n
    <3>1. i \in 1..n /\ tasks'[l][i] = tasks[l][i]
      BY <1>5, <1>8, <2>2
    <3>2. QED
      BY <1>0, <1>5, <2>2, <3>1
  <2>3. CASE l = p /\ i > n
    <3>1. i - n \in DOMAIN R /\ n + (i - n) = i
      BY <1>5, <1>8, <2>3
    <3>2. tasks'[l][i] = R[i - n]
      BY <1>5, <2>3, <3>1
    <3>3. PICK a \in Up : \E u \in Members(tasks[a], bs) : R[i - n] = tasks[a][u]
      BY <1>2, <3>1
    <3>4. PICK u \in Members(tasks[a], bs) : R[i - n] = tasks[a][u]
      BY <3>3
    <3>5. u \in DOMAIN tasks[a]
      BY DEF Members
    <3>6. a \in Levels /\ a > p
      BY <1>3a, <1>3b
    <3>7. QED
      BY <2>3, <3>2, <3>4, <3>5, <3>6
  <2>4. CASE l > p
    <3>1. PICK f \in [DOMAIN tasks'[l] -> Rest(l)] :
            \A k \in DOMAIN tasks'[l] : tasks'[l][k] = tasks[l][f[k]]
      BY <1>6, <2>4 DEF Embeds
    <3>2. f[i] \in Rest(l) /\ tasks'[l][i] = tasks[l][f[i]]
      BY <1>8, <3>1
    <3>3. QED
      BY <2>4, <3>2
  <2>5. QED
    BY <1>0, <1>5, <1>8, <2>1, <2>2, <2>3, <2>4
\* The order of two positions that were taken from less urgent levels.
<1>9. ASSUME NEW i \in DOMAIN tasks'[p], NEW j \in DOMAIN tasks'[p], n < i, i < j,
             NEW a \in Levels, NEW u, Was(p, i, a, u), NEW c \in Levels, NEW v, Was(p, j, c, v)
      PROVE  a < c \/ (a = c /\ u < v)
  <2>1. /\ i - n \in DOMAIN R /\ j - n \in DOMAIN R /\ i - n < j - n
        /\ n + (i - n) = i /\ n + (j - n) = j
    <3>1. i \in 1..(n + Len(R)) /\ j \in 1..(n + Len(R)) /\ n < i /\ i < j
      BY <1>5, <1>9
    <3>2. i - n \in 1..Len(R) /\ j - n \in 1..Len(R)
      BY <1>5a, <3>1
    <3>3. DOMAIN R = 1..Len(R)
      BY <1>5
    <3>4. i - n < j - n /\ n + (i - n) = i /\ n + (j - n) = j
      BY <1>5a, <3>1
    <3>5. QED
      BY <3>2, <3>3, <3>4
  <2>2. R[i - n] = tasks[a][u] /\ R[j - n] = tasks[c][v]
    BY <1>5, <1>9, <2>1
  <2>3. /\ a \in Up /\ u \in Members(tasks[a], bs)
        /\ c \in Up /\ v \in Members(tasks[c], bs)
    <3>1. a \in Nat /\ c \in Nat /\ i \in Nat /\ j \in Nat /\ n < i /\ n < j
      <4>1. i \in 1..(n + Len(R)) /\ j \in 1..(n + Len(R)) /\ n < i /\ i < j
        BY <1>5, <1>9
      <4>2. a \in Nat /\ c \in Nat
        BY <1>0
      <4>3. QED
        BY <1>5a, <4>1, <4>2
    <3>2. u \in DOMAIN tasks[a] /\ v \in DOMAIN tasks[c]
      BY <1>9
    <3>3. ~(a = p /\ u = i) /\ ~(c = p /\ v = j)
      BY <1>5a, <3>1, <3>2
    <3>4. a > p /\ u \in Members(tasks[a], bs)
      BY <1>9, <1>5a, <3>1, <3>3
    <3>5. c > p /\ v \in Members(tasks[c], bs)
      BY <1>9, <1>5a, <3>1, <3>3
    <3>6. QED
      BY <1>3a, <3>4, <3>5
  <2>4. QED
    BY <1>2, <2>1, <2>2, <2>3 DEF Forward
\* The order of two positions that stay on such a level.
<1>10. ASSUME NEW l \in Levels, l > p, NEW i \in DOMAIN tasks'[l], NEW j \in DOMAIN tasks'[l], i < j,
              NEW u, Was(l, i, l, u), NEW v, Was(l, j, l, v)
       PROVE  u < v
  <2>1. PICK f \in [DOMAIN tasks'[l] -> Rest(l)] :
          /\ \A k \in DOMAIN tasks'[l] : tasks'[l][k] = tasks[l][f[k]]
          /\ \A k, q \in DOMAIN tasks'[l] : k < q => f[k] < f[q]
    BY <1>6, <1>10 DEF Embeds
  <2>2. tasks[l][f[i]] = tasks[l][u] /\ tasks[l][f[j]] = tasks[l][v]
    BY <1>10, <2>1
  <2>3. f[i] = u /\ f[j] = v
    BY <1>10, <2>1, <2>2 DEF Apart
  <2>4. QED
    BY <1>10, <2>1, <2>3
<1>11. ASSUME NEW l \in Levels, NEW m \in Levels,
              NEW i \in DOMAIN tasks'[l], NEW j \in DOMAIN tasks'[m],
              NEW a \in Levels, NEW u, Was(l, i, a, u), NEW c \in Levels, NEW v, Was(m, j, c, v)
       PROVE  /\ a = c /\ u = v => l = m /\ i = j
              /\ Same(tasks'[l][i], tasks'[m][j]) /\ (a < c \/ (a = c /\ u < v))
                   => l < m \/ (l = m /\ i < j)
  <2>0. /\ tasks'[l] \in Seq(Items) /\ tasks'[m] \in Seq(Items) /\ i \in Nat /\ j \in Nat
        /\ tasks[a] \in Seq(Items) /\ tasks[c] \in Seq(Items) /\ u \in Nat /\ v \in Nat
        /\ l \in Nat /\ m \in Nat /\ a \in Nat /\ c \in Nat
        /\ u \in DOMAIN tasks[a] /\ v \in DOMAIN tasks[c]
        /\ tasks'[l][i] = tasks[a][u] /\ tasks'[m][j] = tasks[c][v]
    <3>1. /\ u \in DOMAIN tasks[a] /\ v \in DOMAIN tasks[c]
          /\ tasks'[l][i] = tasks[a][u] /\ tasks'[m][j] = tasks[c][v]
      BY <1>11
    <3>2. /\ tasks'[l] \in Seq(Items) /\ tasks'[m] \in Seq(Items)
          /\ tasks[a] \in Seq(Items) /\ tasks[c] \in Seq(Items)
      BY <1>7
    <3>3. i \in Nat /\ j \in Nat
      BY <3>2
    <3>4. u \in Nat /\ v \in Nat
      BY <3>1, <3>2
    <3>5. l \in Nat /\ m \in Nat /\ a \in Nat /\ c \in Nat
      BY <1>0
    <3>6. QED
      BY <3>1, <3>2, <3>3, <3>4, <3>5
  <2>7. \/ a = l /\ l <= p /\ u = i
        \/ a > p /\ l = p /\ i > n /\ u \in Members(tasks[a], bs)
        \/ a = l /\ l > p /\ u \notin Members(tasks[a], bs)
    BY <1>11
  <2>8. \/ c = m /\ m <= p /\ v = j
        \/ c > p /\ m = p /\ j > n /\ v \in Members(tasks[c], bs)
        \/ c = m /\ m > p /\ v \notin Members(tasks[c], bs)
    BY <1>11
  <2>9. (a = p => u <= n) /\ (c = p => v <= n)
    <3>1. a = p => u \in 1..n
      BY <1>5, <2>0
    <3>2. c = p => v \in 1..n
      BY <1>5, <2>0
    <3>3. QED
      BY <1>5, <3>1, <3>2
  <2>10. /\ p \in Nat /\ n \in Nat /\ l \in Nat /\ m \in Nat /\ a \in Nat /\ c \in Nat
         /\ i \in Nat /\ j \in Nat /\ u \in Nat /\ v \in Nat
    BY <1>5a, <2>0
  <2>1. CASE l < p \/ m < p \/ (l = p /\ i <= n) \/ (m = p /\ j <= n)
    BY <2>1, <2>7, <2>8, <2>9, <2>10
  <2>2. CASE l = p /\ i > n /\ m = p /\ j > n
    <3>1. i < j => a < c \/ (a = c /\ u < v)
      BY <1>9, <1>11, <2>2
    <3>2. j < i => c < a \/ (c = a /\ v < u)
      BY <1>9, <1>11, <2>2
    <3>3. i = j => a = c /\ u = v
      BY <1>11, <2>0, <2>2 DEF Apart
    <3>4. QED
      BY <2>0, <2>2, <3>1, <3>2, <3>3
  <2>3. CASE l > p /\ m > p
    <3>1. a = l /\ c = m
      BY <1>5a, <2>0, <2>3, <2>7, <2>8
    <3>2. l = m /\ i < j => u < v
      BY <1>10, <1>11, <2>3, <3>1
    <3>3. l = m /\ j < i => v < u
      BY <1>10, <1>11, <2>3, <3>1
    <3>4. l = m /\ i = j => u = v
      BY <1>11, <2>0, <3>1 DEF Apart
    <3>5. QED
      BY <2>0, <3>1, <3>2, <3>3, <3>4
  \* One was promoted and the other was not: they are of different bundles.
  <2>4. CASE l = p /\ i > n /\ m > p
    <3>1. u \in Members(tasks[a], bs) /\ v \notin Members(tasks[c], bs)
      BY <2>4, <2>7, <2>8, <2>9, <2>10
    <3>2. ~Same(tasks[a][u], tasks[c][v])
      BY <2>0, <3>1 DEF Same, Members
    <3>3. QED
      BY <2>0, <3>1, <3>2
  <2>5. CASE l > p /\ m = p /\ j > n
    <3>1. u \notin Members(tasks[a], bs) /\ v \in Members(tasks[c], bs)
      BY <2>5, <2>7, <2>8, <2>9, <2>10
    <3>2. ~Same(tasks[a][u], tasks[c][v])
      BY <2>0, <3>1 DEF Same, Members
    <3>3. QED
      BY <2>0, <3>1, <3>2
  <2>6. QED
    BY <2>10, <2>1, <2>2, <2>3, <2>4, <2>5
<1>12. Apart'
  <2> SUFFICES ASSUME NEW l \in Levels, NEW m \in Levels,
                      NEW i \in DOMAIN tasks'[l], NEW j \in DOMAIN tasks'[m],
                      tasks'[l][i] = tasks'[m][j]
               PROVE  l = m /\ i = j
    BY DEF Apart
  <2>1. PICK a \in Levels : \E u \in DOMAIN tasks[a] : Was(l, i, a, u)
    BY <1>8
  <2>2. PICK u \in DOMAIN tasks[a] : Was(l, i, a, u)
    BY <2>1
  <2>3. PICK c \in Levels : \E v \in DOMAIN tasks[c] : Was(m, j, c, v)
    BY <1>8
  <2>4. PICK v \in DOMAIN tasks[c] : Was(m, j, c, v)
    BY <2>3
  <2>5. a = c /\ u = v
    <3>1. tasks[a][u] = tasks[c][v]
      BY <2>2, <2>4
    <3>2. QED
      BY <3>1 DEF Apart
  <2>6. QED
    BY <1>11, <2>2, <2>4, <2>5
<1>13. Sorted'
  <2> SUFFICES ASSUME NEW l \in Levels, NEW m \in Levels,
                      NEW i \in DOMAIN tasks'[l], NEW j \in DOMAIN tasks'[m],
                      Same(tasks'[l][i], tasks'[m][j]), tasks'[l][i].key < tasks'[m][j].key
               PROVE  l < m \/ (l = m /\ i < j)
    BY DEF Sorted, Same
  <2>1. PICK a \in Levels : \E u \in DOMAIN tasks[a] : Was(l, i, a, u)
    BY <1>8
  <2>2. PICK u \in DOMAIN tasks[a] : Was(l, i, a, u)
    BY <2>1
  <2>3. PICK c \in Levels : \E v \in DOMAIN tasks[c] : Was(m, j, c, v)
    BY <1>8
  <2>4. PICK v \in DOMAIN tasks[c] : Was(m, j, c, v)
    BY <2>3
  <2>5. a < c \/ (a = c /\ u < v)
    BY <2>2, <2>4 DEF Sorted
  <2>6. QED
    BY <1>11, <2>2, <2>4, <2>5
<1>14. Urged'
  <2> SUFFICES ASSUME NEW l \in Levels, NEW i \in DOMAIN tasks'[l]
               PROVE  l <= tasks'[l][i].level
    BY DEF Urged
  <2>1. PICK a \in Levels : \E u \in DOMAIN tasks[a] : Was(l, i, a, u)
    BY <1>8
  <2>2. PICK u \in DOMAIN tasks[a] : Was(l, i, a, u)
    BY <2>1
  <2>3. l <= a /\ a <= tasks[a][u].level /\ tasks[a][u].level \in Nat
    <3>1. tasks[a][u] \in Items
      OBVIOUS
    <3>2. a <= tasks[a][u].level /\ tasks[a][u].level \in Nat
      BY <1>0, <3>1, TaskQueueAssumption DEF Urged
    <3>3. l <= a
      BY <1>0, <2>2
    <3>4. QED
      BY <3>2, <3>3
  <2>4. QED
    BY <1>0, <2>2, <2>3
<1>15. Waiting' = Waiting
  <2>1. \A l \in Levels : \A i \in DOMAIN tasks'[l] : tasks'[l][i] \in Waiting
    <3> SUFFICES ASSUME NEW l \in Levels, NEW i \in DOMAIN tasks'[l] PROVE tasks'[l][i] \in Waiting
      OBVIOUS
    <3>1. \E a \in Levels : \E u \in DOMAIN tasks[a] : tasks'[l][i] = tasks[a][u]
      BY <1>8
    <3>2. QED
      BY <3>1 DEF Waiting, Range
  <2>2. ASSUME NEW a \in Levels, NEW u \in DOMAIN tasks[a]
        PROVE  \E l \in Levels : \E i \in DOMAIN tasks'[l] : tasks'[l][i] = tasks[a][u]
    <3>1. CASE a < p
      BY <1>4, <2>2, <3>1
    <3>2. CASE a = p
      <4>1. u \in DOMAIN tasks'[p] /\ tasks'[p][u] = tasks[p][u]
        BY <1>5, <2>2, <3>2
      <4>2. QED
        BY <3>2, <4>1
    <3>3. CASE a > p /\ u \in Members(tasks[a], bs)
      <4>1. PICK k \in DOMAIN R : R[k] = tasks[a][u]
        BY <1>2, <1>3a, <3>3
      <4>2. n + k \in DOMAIN tasks'[p] /\ tasks'[p][n + k] = tasks[a][u]
        BY <1>5, <4>1
      <4>3. QED
        BY <4>2
    <3>4. CASE a > p /\ u \notin Members(tasks[a], bs)
      <4>1. u \in Rest(a)
        BY <2>2, <3>4
      <4>2. QED
        BY <1>6, <3>4, <4>1 DEF Embeds
    <3>5. QED
      BY <1>0, <3>1, <3>2, <3>3, <3>4
  <2>3. Waiting' \subseteq Waiting
    BY <2>1 DEF Waiting, Range
  <2>4. Waiting \subseteq Waiting'
    BY <2>2 DEF Waiting, Range
  <2>5. QED
    BY <2>3, <2>4
<1>16. QED
  BY <1>7, <1>12, <1>13, <1>14, <1>15

-----------------------------------------------------------------------------
(* Every step keeps the invariant.                                         *)

LEMMA SortMoves ==
  ASSUME tasks \in [Levels -> Seq(Items)], Apart, Urged, Sorted, NEW p \in Levels, SortLevel(p)
  PROVE  /\ tasks' \in [Levels -> Seq(Items)]
         /\ Waiting' = Waiting /\ Apart' /\ Urged' /\ Sorted'
<1> DEFINE n == Len(tasks[p])
<1>1. PICK f \in Perms(n) :
        /\ Ordered(tasks[p], f)
        /\ tasks' = [tasks EXCEPT ![p] = [i \in 1..n |-> tasks[p][f[i]]]]
  BY DEF SortLevel
<1>2. tasks[p] \in Seq(Items) /\ n \in Nat /\ DOMAIN tasks[p] = 1..n
  OBVIOUS
<1>3. f \in [1..n -> 1..n] /\ \A i, j \in 1..n : f[i] = f[j] => i = j
  BY DEF Perms, IsInjective
<1>4. \A j \in 1..n : \E i \in 1..n : f[i] = j
  <2>1. f \in Injection(1..n, 1..n)
    BY <1>3 DEF Injection, IsInjective
  <2>2. IsFiniteSet(1..n)
    BY <1>2, FS_Interval
  <2>3. f \in Surjection(1..n, 1..n)
    BY <2>1, <2>2, FS_Injection
  <2>4. QED
    BY <2>3 DEF Surjection
<1>5. \A i, j \in 1..n : i < j => \/ tasks[p][f[i]].key < tasks[p][f[j]].key
                                 \/ tasks[p][f[i]].key = tasks[p][f[j]].key
  BY <1>1 DEF Ordered
<1>6. \A l \in Levels : l # p => tasks'[l] = tasks[l]
  BY <1>1
<1>7. tasks'[p] = [i \in 1..n |-> tasks[p][f[i]]]
  BY <1>1
<1> HIDE DEF n
<1>8. DOMAIN tasks'[p] = 1..n /\ \A i \in 1..n : tasks'[p][i] = tasks[p][f[i]] /\ f[i] \in 1..n
  BY <1>3, <1>7
<1>9. tasks'[p] \in Seq(Items)
  <2>1. \A i \in 1..n : tasks[p][f[i]] \in Items
    BY <1>2, <1>8
  <2>2. QED
    BY <1>2, <1>7, <2>1
<1>10. tasks' \in [Levels -> Seq(Items)]
  BY <1>1, <1>6, <1>7, <1>9
<1>11. ASSUME NEW l \in Levels, NEW i \in DOMAIN tasks'[l]
       PROVE  \E u \in DOMAIN tasks[l] : /\ tasks'[l][i] = tasks[l][u]
                                         /\ l = p => i \in 1..n /\ u = f[i]
                                         /\ l # p => u = i
  BY <1>2, <1>6, <1>8, <1>11
<1>12. Apart'
  <2> SUFFICES ASSUME NEW l \in Levels, NEW m \in Levels,
                      NEW i \in DOMAIN tasks'[l], NEW j \in DOMAIN tasks'[m],
                      tasks'[l][i] = tasks'[m][j]
               PROVE  l = m /\ i = j
    BY DEF Apart
  <2>1. PICK u \in DOMAIN tasks[l] : /\ tasks'[l][i] = tasks[l][u]
                                     /\ l = p => i \in 1..n /\ u = f[i]
                                     /\ l # p => u = i
    BY <1>11
  <2>2. PICK v \in DOMAIN tasks[m] : /\ tasks'[m][j] = tasks[m][v]
                                     /\ m = p => j \in 1..n /\ v = f[j]
                                     /\ m # p => v = j
    BY <1>11
  <2>3. l = m /\ u = v
    <3>1. tasks[l][u] = tasks[m][v]
      BY <2>1, <2>2
    <3>2. QED
      BY <3>1 DEF Apart
  <2>4. QED
    BY <1>3, <2>1, <2>2, <2>3
<1>13. Sorted'
  <2> SUFFICES ASSUME NEW l \in Levels, NEW m \in Levels,
                      NEW i \in DOMAIN tasks'[l], NEW j \in DOMAIN tasks'[m],
                      Same(tasks'[l][i], tasks'[m][j]), tasks'[l][i].key < tasks'[m][j].key
               PROVE  l < m \/ (l = m /\ i < j)
    BY DEF Sorted, Same
  <2>1. PICK u \in DOMAIN tasks[l] : /\ tasks'[l][i] = tasks[l][u]
                                     /\ l = p => i \in 1..n /\ u = f[i]
                                     /\ l # p => u = i
    BY <1>11
  <2>2. PICK v \in DOMAIN tasks[m] : /\ tasks'[m][j] = tasks[m][v]
                                     /\ m = p => j \in 1..n /\ v = f[j]
                                     /\ m # p => v = j
    BY <1>11
  <2>3. l < m \/ (l = m /\ u < v)
    BY <2>1, <2>2 DEF Sorted
  <2>4. CASE l = m /\ l = p
    <3>1. tasks[p][u].key \in Int /\ tasks[p][v].key \in Int
      <4>1. tasks[p][u] \in Items /\ tasks[p][v] \in Items
        BY <1>2, <2>1, <2>2, <2>4
      <4>2. QED
        BY <4>1, TaskQueueAssumption
    <3>2. ~(j < i) /\ i # j
      BY <1>5, <2>1, <2>2, <2>4, <3>1
    <3>3. i \in Nat /\ j \in Nat
      BY <1>2, <2>1, <2>2, <2>4
    <3>4. QED
      BY <2>4, <3>2, <3>3
  <2>5. QED
    BY <2>1, <2>2, <2>3, <2>4 DEF Levels
<1>14. Urged'
  <2> SUFFICES ASSUME NEW l \in Levels, NEW i \in DOMAIN tasks'[l]
               PROVE  l <= tasks'[l][i].level
    BY DEF Urged
  <2>1. QED
    BY <1>11 DEF Urged
<1>15. Waiting' = Waiting
  <2>1. \A l \in Levels : Range(tasks'[l]) = Range(tasks[l])
    <3> SUFFICES ASSUME NEW l \in Levels PROVE Range(tasks'[l]) = Range(tasks[l])
      OBVIOUS
    <3>1. CASE l # p
      BY <1>6, <3>1
    <3>2. CASE l = p
      <4>1. \A i \in DOMAIN tasks'[p] : \E u \in DOMAIN tasks[p] : tasks'[p][i] = tasks[p][u]
        BY <1>2, <1>8
      <4>2. \A u \in DOMAIN tasks[p] : \E i \in DOMAIN tasks'[p] : tasks'[p][i] = tasks[p][u]
        <5> SUFFICES ASSUME NEW u \in DOMAIN tasks[p]
                     PROVE  \E i \in DOMAIN tasks'[p] : tasks'[p][i] = tasks[p][u]
          OBVIOUS
        <5>1. PICK i \in 1..n : f[i] = u
          BY <1>2, <1>4
        <5>2. QED
          BY <1>8, <5>1
      <4>3. QED
        BY <3>2, <4>1, <4>2 DEF Range
    <3>3. QED
      BY <3>1, <3>2
  <2>2. QED
    BY <2>1 DEF Waiting
<1>16. QED
  BY <1>10, <1>12, <1>13, <1>14, <1>15

\* Promotion and sorting leave everything else alone.
LEMMA MovesKeep ==
  ASSUME QueueInv, NEW bs, NEW p \in Levels, RaiseBundles(bs, p) \/ SortLevel(p)
  PROVE  QueueInv'
<1> USE DEF QueueInv
<1>1. tasks \in [Levels -> Seq(Items)] /\ Apart /\ Urged /\ Sorted
  BY DEF QueueType, Once
<1>2. /\ tasks' \in [Levels -> Seq(Items)]
      /\ Waiting' = Waiting /\ Apart' /\ Urged' /\ Sorted'
  BY <1>1, RaiseMoves, SortMoves
<1>3. UNCHANGED <<state, accepted, worker, running, done>>
  BY DEF RaiseBundles, SortLevel, workVars
<1>4. QueueType' /\ Once' /\ Turn' /\ RunsFirst' /\ LayerOrder'
  BY <1>2, <1>3 DEF QueueType, Once, Turn, RunsFirst, LayerOrder
<1>5. AllEmpty => AllEmpty'
  <2> SUFFICES ASSUME AllEmpty, NEW l \in Levels PROVE tasks'[l] = <<>>
    BY DEF AllEmpty
  <2>1. Waiting = {}
    BY DEF AllEmpty, Waiting, Range
  <2>2. Range(tasks'[l]) = {} /\ tasks'[l] \in Seq(Items)
    BY <1>2, <2>1 DEF Waiting
  <2>3. DOMAIN tasks'[l] = {}
    BY <2>2 DEF Range
  <2>4. Len(tasks'[l]) = 0
    <3>1. Len(tasks'[l]) \in Nat /\ DOMAIN tasks'[l] = 1..Len(tasks'[l])
      BY <2>2
    <3>2. 1 \notin 1..Len(tasks'[l])
      BY <2>3, <3>1
    <3>3. QED
      BY <3>1, <3>2
  <2>5. QED
    BY <2>2, <2>4
<1>6. Ended'
  BY <1>3, <1>5 DEF Ended
<1>7. QED
  BY <1>2, <1>4, <1>6

LEMMA SubmitKeeps ==
  ASSUME QueueInv, NEW x \in Items, Submit(x)
  PROVE  QueueInv' /\ Waiting' = Waiting \cup {x}
<1> USE DEF QueueInv
<1> DEFINE a == x.level
           n == Len(tasks[a])
<1>1. /\ x \notin accepted /\ InTurn(x) /\ state = "RUNNING"
      /\ tasks' = [tasks EXCEPT ![a] = Append(@, x)] /\ accepted' = accepted \cup {x}
      /\ worker' = Notify /\ UNCHANGED <<state, running, done>>
  BY DEF Submit, Accepting
<1>2. /\ a \in Levels /\ x.bundle \in Nat /\ x.key \in Int /\ x # None
      /\ \A y \in Items : y.level \in Levels /\ y.bundle \in Nat /\ y.key \in Int
  BY TaskQueueAssumption
<1>3. tasks \in [Levels -> Seq(Items)] /\ tasks[a] \in Seq(Items)
  BY <1>2 DEF QueueType
<1> HIDE DEF a
<1>4. /\ n \in Nat /\ DOMAIN tasks[a] = 1..n
      /\ tasks'[a] \in Seq(Items) /\ DOMAIN tasks'[a] = 1..(n + 1)
      /\ tasks'[a][n + 1] = x /\ \A i \in 1..n : tasks'[a][i] = tasks[a][i]
  <2>1. tasks'[a] = Append(tasks[a], x)
    BY <1>1, <1>2, <1>3
  <2>2. QED
    BY <1>3, <2>1
<1>5. \A l \in Levels : l # a => tasks'[l] = tasks[l]
  BY <1>1, <1>3
<1> HIDE DEF n
<1>6. tasks' \in [Levels -> Seq(Items)]
  BY <1>1, <1>2, <1>3, <1>4, <1>5
\* A position of the new queue is an old one or the last of its level.
<1>7. ASSUME NEW l \in Levels, NEW i \in DOMAIN tasks'[l]
      PROVE  \/ i \in DOMAIN tasks[l] /\ tasks'[l][i] = tasks[l][i] /\ (l = a => i \in 1..n)
             \/ l = a /\ i = n + 1 /\ tasks'[l][i] = x
  <2>1. CASE l # a
    BY <1>5, <1>7, <2>1
  <2>2. CASE l = a
    <3>1. i \in 1..n \/ i = n + 1
      BY <1>4, <1>7, <2>2
    <3>2. QED
      BY <1>4, <2>2, <3>1
  <2>3. QED
    BY <2>1, <2>2
<1>8. \A l \in Levels : \A i \in DOMAIN tasks[l] :
        /\ i \in DOMAIN tasks'[l] /\ tasks'[l][i] = tasks[l][i]
        /\ tasks[l][i] \in Waiting /\ tasks[l][i] \in accepted /\ tasks[l][i] # x
        /\ tasks[l][i] \in Items
  <2> SUFFICES ASSUME NEW l \in Levels, NEW i \in DOMAIN tasks[l]
               PROVE  /\ i \in DOMAIN tasks'[l] /\ tasks'[l][i] = tasks[l][i]
                      /\ tasks[l][i] \in Waiting /\ tasks[l][i] \in accepted /\ tasks[l][i] # x
                      /\ tasks[l][i] \in Items
    OBVIOUS
  <2>1. tasks[l][i] \in Waiting
    BY DEF Waiting, Range
  <2>2. tasks[l][i] \in accepted /\ tasks[l][i] # x /\ tasks[l][i] \in Items
    BY <1>1, <2>1 DEF Once, QueueType
  <2>3. i \in DOMAIN tasks'[l] /\ tasks'[l][i] = tasks[l][i]
    <3>1. CASE l # a
      BY <1>5, <3>1
    <3>2. CASE l = a
      <4>1. i \in 1..n /\ i \in 1..(n + 1)
        BY <1>4, <3>2
      <4>2. QED
        BY <1>4, <3>2, <4>1
    <3>3. QED
      BY <3>1, <3>2
  <2>4. QED
    BY <2>1, <2>2, <2>3
<1>9. Waiting' = Waiting \cup {x}
  <2>1. \A l \in Levels : \A i \in DOMAIN tasks'[l] : tasks'[l][i] \in Waiting \cup {x}
    BY <1>7, <1>8
  <2>2. Waiting' \subseteq Waiting \cup {x}
    BY <2>1 DEF Waiting, Range
  <2>3. n + 1 \in DOMAIN tasks'[a]
    BY <1>4
  <2>4. x \in Waiting'
    BY <1>2, <1>4, <2>3 DEF Waiting, Range, a
  <2>5. \A y \in Waiting : \E l \in Levels : \E i \in DOMAIN tasks'[l] : tasks'[l][i] = y
    BY <1>8 DEF Waiting, Range
  <2>6. Waiting \subseteq Waiting'
    BY <2>5 DEF Waiting, Range
  <2>7. QED
    BY <2>2, <2>4, <2>6
<1>10. QueueType'
  BY <1>1, <1>6 DEF QueueType, Notify
<1>11. Once'
  <2>1. Apart'
    <3> SUFFICES ASSUME NEW l \in Levels, NEW m \in Levels,
                        NEW i \in DOMAIN tasks'[l], NEW j \in DOMAIN tasks'[m],
                        tasks'[l][i] = tasks'[m][j]
                 PROVE  l = m /\ i = j
      BY DEF Apart
    <3>1. CASE i \in DOMAIN tasks[l] /\ tasks'[l][i] = tasks[l][i]
      <4>1. tasks[l][i] # x
        BY <1>8, <3>1
      <4>2. j \in DOMAIN tasks[m] /\ tasks'[m][j] = tasks[m][j]
        BY <1>7, <3>1, <4>1
      <4>3. tasks[l][i] = tasks[m][j]
        BY <3>1, <4>2
      <4>4. Apart
        BY DEF Once
      <4>5. QED
        BY <3>1, <4>2, <4>3, <4>4 DEF Apart
    <3>2. CASE l = a /\ i = n + 1 /\ tasks'[l][i] = x
      BY <1>7, <1>8, <3>2
    <3>3. QED
      BY <1>7, <3>1, <3>2
  <2>2. x \notin Range(done) /\ x # running
    BY <1>1, <1>2 DEF Once
  <2>3. QED
    BY <1>1, <1>9, <2>1, <2>2 DEF Once
<1>12. Ended'
  BY <1>1 DEF Ended, Notify
<1>13. Turn'
  BY <1>1 DEF Turn, Same, InTurn
<1>14. ASSUME NEW y \in accepted, Same(y, x) PROVE y.key <= x.key
  <2>1. y \in Items
    BY DEF QueueType
  <2>2. ~(x.key < y.key)
    BY <1>1, <1>14 DEF Turn, Same
  <2>3. QED
    BY <1>2, <2>1, <2>2
<1>15. Urged'
  <2> SUFFICES ASSUME NEW l \in Levels, NEW i \in DOMAIN tasks'[l]
               PROVE  l <= tasks'[l][i].level
    BY DEF Urged
  <2>1. a <= x.level
    BY <1>2 DEF a, Levels
  <2>2. QED
    BY <1>7, <2>1 DEF Urged
<1>16. Sorted'
  <2> SUFFICES ASSUME NEW l \in Levels, NEW m \in Levels,
                      NEW i \in DOMAIN tasks'[l], NEW j \in DOMAIN tasks'[m],
                      Same(tasks'[l][i], tasks'[m][j]), tasks'[l][i].key < tasks'[m][j].key
               PROVE  l < m \/ (l = m /\ i < j)
    BY DEF Sorted, Same
  <2>1. CASE /\ i \in DOMAIN tasks[l] /\ tasks'[l][i] = tasks[l][i]
             /\ j \in DOMAIN tasks[m] /\ tasks'[m][j] = tasks[m][j]
    BY <2>1 DEF Sorted
  <2>2. CASE /\ i \in DOMAIN tasks[l] /\ tasks'[l][i] = tasks[l][i] /\ (l = a => i \in 1..n)
             /\ m = a /\ j = n + 1 /\ tasks'[m][j] = x
    <3>1. tasks[l][i].level <= x.level /\ tasks[l][i].level \in Levels
      BY <1>1, <1>2, <1>8, <2>2 DEF InTurn, Same
    <3>2. l <= tasks[l][i].level
      BY <2>2 DEF Urged
    <3>3. l <= a /\ a \in Nat /\ l \in Nat
      BY <1>2, <3>1, <3>2 DEF a, Levels
    <3>4. QED
      BY <1>4, <2>2, <3>3
  <2>3. CASE l = a /\ i = n + 1 /\ tasks'[l][i] = x
    <3>1. tasks'[m][j] # x
      <4>1. x.key \in Int
        BY <1>2
      <4>2. QED
        BY <2>3, <4>1
    <3>2. /\ tasks'[m][j] \in accepted /\ tasks'[m][j] \in Items
      BY <1>7, <1>8, <3>1
    <3>3. tasks'[m][j].key <= x.key
      BY <1>14, <2>3, <3>2 DEF Same
    <3>4. QED
      BY <1>2, <2>3, <3>2, <3>3
  <2>4. QED
    BY <1>7, <2>1, <2>2, <2>3
<1>17. RunsFirst' /\ LayerOrder'
  <2>1. ASSUME running # None, Same(x, running) PROVE running.key <= x.key
    BY <1>14, <2>1 DEF Once, Same
  <2>2. ASSUME NEW i \in 1..Len(done), Same(x, done[i]) PROVE done[i].key <= x.key
    <3>1. done[i] \in Range(done)
      BY DEF QueueType, Range
    <3>2. QED
      BY <1>14, <2>2, <3>1 DEF Once, Same
  <2>3. RunsFirst'
    BY <1>1, <1>9, <2>1 DEF RunsFirst, Same
  <2>4. QED
    BY <1>1, <1>9, <2>2, <2>3 DEF LayerOrder, Same
<1>18. QED
  BY <1>9, <1>10, <1>11, <1>12, <1>13, <1>15, <1>16, <1>17

LEMMA TakeKeeps ==
  ASSUME QueueInv, Take
  PROVE  /\ QueueInv'
         /\ running = None /\ running' \in Waiting /\ Waiting' = Waiting \ {running'}
         /\ UNCHANGED <<state, done>>
<1> USE DEF QueueInv
<1>1. PICK a \in Levels : /\ Urgent(a) /\ running' = Head(tasks[a])
                          /\ tasks' = [tasks EXCEPT ![a] = Tail(@)]
  BY DEF Take
<1>2. /\ worker = "loop" /\ running = None /\ UNCHANGED <<state, accepted, worker, done>>
  BY DEF Take
<1> DEFINE x == Head(tasks[a])
           n == Len(tasks[a])
<1>3. tasks \in [Levels -> Seq(Items)] /\ tasks[a] \in Seq(Items) /\ tasks[a] # <<>>
  BY <1>1 DEF QueueType, Urgent
<1>4. /\ n \in Nat \ {0} /\ DOMAIN tasks[a] = 1..n /\ x = tasks[a][1] /\ x \in Items
      /\ tasks'[a] \in Seq(Items) /\ DOMAIN tasks'[a] = 1..(n - 1)
      /\ \A i \in 1..(n - 1) : tasks'[a][i] = tasks[a][i + 1]
  <2>1. tasks'[a] = Tail(tasks[a])
    BY <1>1, <1>3
  <2>2. QED
    BY <1>3, <2>1
<1>5. \A l \in Levels : l # a => tasks'[l] = tasks[l]
  BY <1>1, <1>3
<1>6. running' = x
  BY <1>1
<1> HIDE DEF x, n
<1>7. tasks' \in [Levels -> Seq(Items)]
  BY <1>1, <1>3, <1>4, <1>5
<1>8. ASSUME NEW l \in Levels, NEW i \in DOMAIN tasks'[l]
      PROVE  \E u \in DOMAIN tasks[l] : /\ tasks'[l][i] = tasks[l][u]
                                        /\ l # a => u = i
                                        /\ l = a => i \in Nat /\ u = i + 1
  <2>1. CASE l # a
    BY <1>5, <1>8, <2>1
  <2>2. CASE l = a
    <3>1. i \in 1..(n - 1) /\ i + 1 \in 1..n /\ i \in Nat
      BY <1>4, <1>8, <2>2
    <3>2. QED
      BY <1>4, <2>2, <3>1
  <2>3. QED
    BY <2>1, <2>2
<1>9. 1 \in DOMAIN tasks[a] /\ tasks[a][1] = x /\ x \in Waiting
  <2>1. 1 \in DOMAIN tasks[a] /\ tasks[a][1] = x
    BY <1>4
  <2>2. QED
    BY <2>1 DEF Waiting, Range
<1>10. Waiting' = Waiting \ {x}
  <2>1. ASSUME NEW l \in Levels, NEW i \in DOMAIN tasks'[l] PROVE tasks'[l][i] \in Waiting \ {x}
    <3>1. PICK u \in DOMAIN tasks[l] : /\ tasks'[l][i] = tasks[l][u]
                                       /\ l = a => i \in Nat /\ u = i + 1
      BY <1>8, <2>1
    <3>2. tasks'[l][i] \in Waiting
      BY <3>1 DEF Waiting, Range
    <3>3. ~(l = a /\ u = 1)
      <4>1. l = a => i \in 1..(n - 1)
        BY <1>4, <2>1
      <4>2. QED
        BY <1>4, <3>1, <4>1
    <3>4. tasks[l][u] # x
      BY <1>9, <3>1, <3>3 DEF Once, Apart
    <3>5. QED
      BY <3>1, <3>2, <3>4
  <2>2. ASSUME NEW y \in Waiting, y # x
        PROVE  \E l \in Levels : \E i \in DOMAIN tasks'[l] : tasks'[l][i] = y
    <3>1. PICK l \in Levels : \E u \in DOMAIN tasks[l] : tasks[l][u] = y
      BY DEF Waiting, Range
    <3>2. PICK u \in DOMAIN tasks[l] : tasks[l][u] = y
      BY <3>1
    <3>3. CASE l # a
      BY <1>5, <3>2, <3>3
    <3>4. CASE l = a
      <4>1. u \in 1..n /\ u # 1
        BY <1>4, <1>9, <2>2, <3>2, <3>4
      <4>2. u - 1 \in 1..(n - 1) /\ (u - 1) + 1 = u
        BY <1>4, <4>1
      <4>3. tasks'[a][u - 1] = tasks[a][(u - 1) + 1]
        BY <1>4, <4>2
      <4>4. QED
        BY <1>4, <3>2, <3>4, <4>2, <4>3
    <3>5. QED
      BY <3>3, <3>4
  <2>3. Waiting' \subseteq Waiting \ {x}
    BY <2>1 DEF Waiting, Range
  <2>4. Waiting \ {x} \subseteq Waiting'
    BY <2>2 DEF Waiting, Range
  <2>5. QED
    BY <2>3, <2>4
<1>11. QueueType'
  BY <1>2, <1>4, <1>6, <1>7 DEF QueueType
<1>12. Once'
  <2>1. Apart'
    <3> SUFFICES ASSUME NEW l \in Levels, NEW m \in Levels,
                        NEW i \in DOMAIN tasks'[l], NEW j \in DOMAIN tasks'[m],
                        tasks'[l][i] = tasks'[m][j]
                 PROVE  l = m /\ i = j
      BY DEF Apart
    <3>1. PICK u \in DOMAIN tasks[l] : /\ tasks'[l][i] = tasks[l][u]
                                       /\ l # a => u = i
                                       /\ l = a => i \in Nat /\ u = i + 1
      BY <1>8
    <3>2. PICK v \in DOMAIN tasks[m] : /\ tasks'[m][j] = tasks[m][v]
                                       /\ m # a => v = j
                                       /\ m = a => j \in Nat /\ v = j + 1
      BY <1>8
    <3>3. tasks[l][u] = tasks[m][v]
      BY <3>1, <3>2
    <3>4. l = m /\ u = v
      BY <3>3 DEF Once, Apart
    <3>5. QED
      BY <3>1, <3>2, <3>4
  <2>2. x \notin Range(done) /\ x \in accepted /\ Range(done) \subseteq accepted
    BY <1>9 DEF Once
  <2>3. QED
    BY <1>2, <1>6, <1>10, <2>1, <2>2 DEF Once
<1>13. Ended'
  BY <1>2, <1>3 DEF Ended, AllEmpty
<1>14. Turn'
  BY <1>2 DEF Turn
<1>15. Urged'
  <2> SUFFICES ASSUME NEW l \in Levels, NEW i \in DOMAIN tasks'[l]
               PROVE  l <= tasks'[l][i].level
    BY DEF Urged
  <2>1. QED
    BY <1>8 DEF Urged
<1>16. Sorted'
  <2> SUFFICES ASSUME NEW l \in Levels, NEW m \in Levels,
                      NEW i \in DOMAIN tasks'[l], NEW j \in DOMAIN tasks'[m],
                      Same(tasks'[l][i], tasks'[m][j]), tasks'[l][i].key < tasks'[m][j].key
               PROVE  l < m \/ (l = m /\ i < j)
    BY DEF Sorted, Same
  <2>1. PICK u \in DOMAIN tasks[l] : /\ tasks'[l][i] = tasks[l][u]
                                     /\ l # a => u = i
                                     /\ l = a => i \in Nat /\ u = i + 1
    BY <1>8
  <2>2. PICK v \in DOMAIN tasks[m] : /\ tasks'[m][j] = tasks[m][v]
                                     /\ m # a => v = j
                                     /\ m = a => j \in Nat /\ v = j + 1
    BY <1>8
  <2>3. l < m \/ (l = m /\ u < v)
    BY <2>1, <2>2 DEF Sorted
  <2>4. QED
    BY <2>1, <2>2, <2>3
\* The head of the most urgent level comes before every other layer.
<1>17. RunsFirst'
  <2> SUFFICES ASSUME NEW y \in Waiting, Same(y, x) PROVE x.key <= y.key
    BY <1>6, <1>10 DEF RunsFirst, Same
  <2>1. PICK l \in Levels : \E u \in DOMAIN tasks[l] : tasks[l][u] = y
    BY DEF Waiting, Range
  <2>2. PICK u \in DOMAIN tasks[l] : tasks[l][u] = y
    BY <2>1
  <2>3. tasks[l] # <<>> /\ tasks[l] \in Seq(Items) /\ u \in Nat /\ u >= 1
    BY <1>3, <2>2
  <2>4. ~(l < a)
    BY <1>1, <2>3 DEF Urgent
  <2>5. ~(y.key < x.key)
    <3>1. ASSUME y.key < x.key PROVE FALSE
      <4>1. l < a \/ (l = a /\ u < 1)
        BY <1>9, <2>2, <3>1 DEF Sorted
      <4>2. QED
        BY <2>3, <2>4, <4>1
    <3>2. QED
      BY <3>1
  <2>6. y \in Items
    BY <2>2, <2>3
  <2>7. QED
    BY <1>4, <2>5, <2>6, TaskQueueAssumption
<1>18. LayerOrder'
  BY <1>2, <1>6, <1>9, <1>10 DEF LayerOrder
<1>19. QED
  BY <1>2, <1>6, <1>9, <1>10, <1>11, <1>12, <1>13, <1>14, <1>15, <1>16, <1>17, <1>18

LEMMA RunKeeps ==
  ASSUME QueueInv, Run
  PROVE  /\ QueueInv' /\ running' = None /\ Range(done') = Range(done) \cup {running}
         /\ Waiting' = Waiting
<1> USE DEF QueueInv
<1>1. /\ running # None /\ done' = Append(done, running) /\ running' = None
      /\ UNCHANGED <<state, tasks, accepted, worker>>
  BY DEF Run, queueVars
<1>2. running \in Items /\ done \in Seq(Items)
  BY <1>1 DEF QueueType
<1>3. /\ Len(done) \in Nat /\ done' \in Seq(Items) /\ Len(done') = Len(done) + 1
      /\ DOMAIN done = 1..Len(done) /\ DOMAIN done' = 1..(Len(done) + 1)
      /\ done'[Len(done) + 1] = running /\ \A i \in 1..Len(done) : done'[i] = done[i]
  BY <1>1, <1>2
<1>4. Range(done') = Range(done) \cup {running}
  <2>1. \A i \in DOMAIN done' : (i \in DOMAIN done /\ done'[i] = done[i]) \/ i = Len(done) + 1
    BY <1>3
  <2>2. \A i \in DOMAIN done : i \in DOMAIN done' /\ done'[i] = done[i]
    BY <1>3
  <2>3. Len(done) + 1 \in DOMAIN done'
    BY <1>3
  <2>4. QED
    BY <1>3, <2>1, <2>2, <2>3 DEF Range
<1>5. Waiting' = Waiting
  BY <1>1 DEF Waiting
<1>6. QueueType'
  BY <1>1, <1>3 DEF QueueType
<1>7. Once'
  <2>1. None \notin Items
    BY TaskQueueAssumption
  <2>2. Waiting \cup Range(done) \cup {running} \subseteq accepted /\ running \notin Waiting
    BY <1>1 DEF Once
  <2>3. None \notin accepted
    BY <2>1 DEF QueueType
  <2>4. Apart'
    BY <1>1 DEF Once, Apart
  <2>5. QED
    BY <1>1, <1>4, <1>5, <2>2, <2>3, <2>4 DEF Once
<1>8. Ended' /\ Turn' /\ Urged' /\ Sorted' /\ RunsFirst'
  BY <1>1 DEF Ended, AllEmpty, Turn, Urged, Sorted, RunsFirst
<1>9. LayerOrder'
  <2> SUFFICES ASSUME NEW i \in 1..Len(done'),
                      NEW y \in Waiting \cup {done'[j] : j \in i+1..Len(done')},
                      y.bundle # 0, y.bundle = done'[i].bundle
               PROVE  done'[i].key <= y.key
    BY <1>1, <1>5 DEF LayerOrder
  <2>1. CASE i = Len(done) + 1
    <3>1. y \in Waiting /\ done'[i] = running
      BY <1>3, <2>1
    <3>2. QED
      BY <1>1, <3>1 DEF RunsFirst, Same
  <2>2. CASE i \in 1..Len(done)
    <3>1. done'[i] = done[i]
      BY <1>3, <2>2
    <3>2. y \in Waiting \cup {running} \cup {done[j] : j \in i+1..Len(done)}
      <4>1. \A j \in i+1..Len(done') : (j \in i+1..Len(done) /\ done'[j] = done[j])
                                       \/ done'[j] = running
        BY <1>3, <2>2
      <4>2. QED
        BY <4>1
    <3>3. QED
      BY <1>1, <2>2, <3>1, <3>2 DEF LayerOrder
  <2>3. QED
    BY <1>3, <2>1, <2>2
<1>10. QED
  BY <1>1, <1>4, <1>5, <1>6, <1>7, <1>8, <1>9

\* The worker's other steps, init() and shutdown() move no task.
LEMMA ControlKeeps ==
  ASSUME QueueInv, UNCHANGED <<tasks, accepted, running, done>>, QueueType', Ended'
  PROVE  QueueInv' /\ Waiting' = Waiting
<1> USE DEF QueueInv
<1>1. Waiting' = Waiting
  BY DEF Waiting
<1>2. Once' /\ Turn' /\ Urged' /\ Sorted'
  BY <1>1 DEF Once, Apart, Turn, Urged, Sorted
<1>3. RunsFirst' /\ LayerOrder'
  BY <1>1 DEF RunsFirst, LayerOrder
<1>4. QED
  BY <1>1, <1>2, <1>3

\* Either the phase stays, or shutdown() closes the queue, and only an empty
\* one is closed for good.
LEMMA ControlSteps ==
  ASSUME QueueInv,
         Start \/ Sleep \/ Exit \/ \E c \in Callers : Shutdown(c) \/ Join(c) \/ StopSeen(c)
  PROVE  /\ UNCHANGED <<tasks, accepted, running, done>> /\ QueueType' /\ Ended'
         /\ \/ exPhase' = exPhase
            \/ exPhase = "open" /\ exPhase' = "closing"
            \/ exPhase # "closed" /\ exPhase' = "closed" /\ AllEmpty /\ running = None
<1> USE DEF QueueInv, queueVars, workVars
<1>1. QueueType /\ Ended
  OBVIOUS
<1>2. CASE Start
  BY <1>1, <1>2 DEF Start, QueueType, Ended, AllEmpty, exPhase
<1>3. CASE Sleep
  BY <1>1, <1>3 DEF Sleep, QueueType, Ended, AllEmpty, exPhase
<1>4. CASE Exit
  BY <1>1, <1>4 DEF Exit, MayExit, QueueType, Ended, AllEmpty, exPhase
<1>5. ASSUME NEW c \in Callers, Shutdown(c)
      PROVE  /\ UNCHANGED <<tasks, accepted, running, done>> /\ QueueType' /\ Ended'
             /\ \/ exPhase' = exPhase
                \/ exPhase = "open" /\ exPhase' = "closing"
                \/ exPhase # "closed" /\ exPhase' = "closed" /\ AllEmpty /\ running = None
  <2>1. UNCHANGED <<tasks, accepted, running, done>>
    BY <1>5 DEF Shutdown
  <2>2. CASE state = "CREATED"
    BY <1>1, <1>5, <2>1, <2>2 DEF Shutdown, QueueType, Ended, AllEmpty, exPhase
  <2>3. CASE state = "RUNNING"
    BY <1>1, <1>5, <2>1, <2>3 DEF Shutdown, Notify, QueueType, Ended, AllEmpty, exPhase
  <2>4. CASE state \in {"STOPPING", "STOPPED"}
    BY <1>1, <1>5, <2>1, <2>4 DEF Shutdown, QueueType, Ended, AllEmpty, exPhase
  <2>5. QED
    BY <1>1, <2>2, <2>3, <2>4 DEF QueueType
<1>6. ASSUME NEW c \in Callers, Join(c)
      PROVE  /\ UNCHANGED <<tasks, accepted, running, done>> /\ QueueType' /\ Ended'
             /\ \/ exPhase' = exPhase
                \/ exPhase # "closed" /\ exPhase' = "closed" /\ AllEmpty /\ running = None
  BY <1>1, <1>6 DEF Join, QueueType, Ended, AllEmpty, exPhase
<1>7. ASSUME NEW c \in Callers, StopSeen(c)
      PROVE  /\ UNCHANGED <<tasks, accepted, running, done>> /\ QueueType' /\ Ended'
             /\ exPhase' = exPhase
  BY <1>1, <1>7 DEF StopSeen, QueueType, Ended, AllEmpty, exPhase
<1>8. QED
  BY <1>2, <1>3, <1>4, <1>5, <1>6, <1>7

LEMMA QueueInit == Init => QueueInv
<1> SUFFICES ASSUME Init PROVE QueueInv
  OBVIOUS
<1>1. /\ state = "CREATED" /\ worker = "none" /\ running = None /\ done = <<>> /\ accepted = {}
      /\ tasks \in [Levels -> Seq(Items)] /\ \A l \in Levels : tasks[l] = <<>>
  BY DEF Init
<1>2. Waiting = {} /\ Range(done) = {}
  BY <1>1 DEF Waiting, Range
<1>3. QueueType /\ Ended
  BY <1>1 DEF QueueType, Ended, AllEmpty
<1>4. Once /\ Turn /\ Urged /\ Sorted
  BY <1>1, <1>2 DEF Once, Apart, Turn, Urged, Sorted
<1>5. RunsFirst /\ LayerOrder
  BY <1>1 DEF RunsFirst, LayerOrder
<1>6. QED
  BY <1>3, <1>4, <1>5 DEF QueueInv

LEMMA QueueStep ==
  ASSUME QueueInv, [Next]_vars
  PROVE  QueueInv'
<1>1. CASE \E x \in Items : Submit(x)
  BY <1>1, SubmitKeeps
<1>2. CASE (\E b \in Bundles, p \in Levels : RaiseBundles({b}, p)) \/ \E p \in Levels : SortLevel(p)
  BY <1>2, MovesKeep
<1>3. CASE Take \/ Run
  BY <1>3, TakeKeeps, RunKeeps
<1>4. CASE Start \/ Sleep \/ Exit \/ \E c \in Callers : Shutdown(c) \/ Join(c) \/ StopSeen(c)
  BY <1>4, ControlSteps, ControlKeeps
<1>5. CASE UNCHANGED vars
  <2>1. UNCHANGED <<state, tasks, accepted, worker, running, done>>
    BY <1>5 DEF vars, queueVars, workVars
  <2>2. QueueType' /\ Ended'
    BY <2>1 DEF QueueInv, QueueType, Ended, AllEmpty
  <2>3. QED
    BY <2>1, <2>2, ControlKeeps
<1>6. QED
  BY <1>1, <1>2, <1>3, <1>4, <1>5 DEF Next, WorkerStep

LEMMA QueueInvariant == Spec => []QueueInv
<1>1. QueueInv /\ [Next]_vars => QueueInv'
  BY QueueStep
<1>2. QED
  BY <1>1, QueueInit, PTL DEF Spec

-----------------------------------------------------------------------------
(* What follows.                                                           *)

\* The worker loads the layers of a request in order, although set_bundles_priority
\* and sort_priority_level move part of them while they wait.
THEOREM LayersInOrder == Spec => []LayerOrder
<1>1. QueueInv => LayerOrder
  BY DEF QueueInv
<1>2. QED
  BY <1>1, QueueInvariant, PTL

\* TaskQueue is an executor: an accepted task runs exactly once, one at a time,
\* and shutdown() returns with nothing left.
THEOREM QueueIsExecutor == Spec => ImplementsExecutor
<1>1. Init => Abs!ExInit
  <2> SUFFICES ASSUME Init PROVE Abs!ExInit
    OBVIOUS
  <2>1. Waiting = {} /\ Range(done) = {}
    BY DEF Init, Waiting, Range
  <2>2. QED
    BY <2>1 DEF Init, Abs!ExInit, exPhase
<1>2. ASSUME QueueInv, [Next]_vars PROVE [Abs!ExNext]_(Abs!exVars)
  <2>1. ASSUME NEW x \in Items, Submit(x) PROVE Abs!Accept(x)
    <3>1. Waiting' = Waiting \cup {x}
      BY <1>2, <2>1, SubmitKeeps
    <3>2. x \notin accepted /\ state = "RUNNING" /\ UNCHANGED <<state, running, done>>
      BY <2>1 DEF Submit, Accepting
    <3>3. x \notin Waiting \cup Range(done) \cup {running}
      BY <1>2, <3>2, TaskQueueAssumption DEF QueueInv, Once
    <3>4. QED
      BY <3>1, <3>2, <3>3 DEF Abs!Accept, exPhase
  <2>2. ASSUME (\E b \in Bundles, p \in Levels : RaiseBundles({b}, p)) \/ \E p \in Levels : SortLevel(p)
        PROVE  UNCHANGED Abs!exVars
    <3>1. tasks \in [Levels -> Seq(Items)] /\ Apart /\ Urged /\ Sorted
      BY <1>2 DEF QueueInv, QueueType, Once
    <3>2. Waiting' = Waiting
      BY <2>2, <3>1, RaiseMoves, SortMoves
    <3>3. UNCHANGED <<state, running, done>>
      BY <2>2 DEF RaiseBundles, SortLevel, workVars
    <3>4. QED
      BY <3>2, <3>3 DEF Abs!exVars, exPhase
  <2>3. CASE Take
    <3>1. /\ running = None /\ running' \in Waiting /\ Waiting' = Waiting \ {running'}
          /\ UNCHANGED <<state, done>>
      BY <1>2, <2>3, TakeKeeps
    <3>2. Abs!Begin(running')
      BY <3>1 DEF Abs!Begin, exPhase
    <3>3. QED
      BY <3>1, <3>2 DEF Abs!ExNext
  <2>4. CASE Run
    <3>1. /\ running # None /\ running' = None /\ Range(done') = Range(done) \cup {running}
          /\ Waiting' = Waiting /\ UNCHANGED state
      BY <1>2, <2>4, RunKeeps DEF Run
    <3>2. Abs!End
      BY <3>1 DEF Abs!End, exPhase
    <3>3. QED
      BY <3>2 DEF Abs!ExNext
  <2>5. CASE Start \/ Sleep \/ Exit \/ \E c \in Callers : Shutdown(c) \/ Join(c) \/ StopSeen(c)
    <3>1. /\ UNCHANGED <<tasks, running, done>>
          /\ \/ exPhase' = exPhase
             \/ exPhase = "open" /\ exPhase' = "closing"
             \/ exPhase # "closed" /\ exPhase' = "closed" /\ AllEmpty /\ running = None
      BY <1>2, <2>5, ControlSteps
    <3>2. Waiting' = Waiting /\ Range(done)' = Range(done)
      BY <3>1 DEF Waiting
    <3>3. AllEmpty => Waiting = {}
      BY DEF AllEmpty, Waiting, Range
    <3>4. CASE exPhase' = exPhase
      BY <3>1, <3>2, <3>4 DEF Abs!exVars
    <3>5. CASE exPhase = "open" /\ exPhase' = "closing"
      BY <3>1, <3>2, <3>5 DEF Abs!ExNext, Abs!Closing
    <3>6. CASE exPhase # "closed" /\ exPhase' = "closed" /\ AllEmpty /\ running = None
      BY <3>1, <3>2, <3>3, <3>6 DEF Abs!ExNext, Abs!Closed
    <3>7. QED
      BY <3>1, <3>4, <3>5, <3>6
  <2>6. CASE UNCHANGED vars
    <3>1. UNCHANGED <<state, tasks, running, done>>
      BY <2>6 DEF vars, queueVars, workVars
    <3>2. QED
      BY <3>1 DEF Abs!exVars, exPhase, Waiting
  <2>7. QED
    BY <1>2, <2>1, <2>2, <2>3, <2>4, <2>5, <2>6 DEF Next, WorkerStep, Abs!ExNext
<1>3. QueueInv /\ [Next]_vars => [Abs!ExNext]_(Abs!exVars)
  BY <1>2
<1>4. QED
  BY <1>1, <1>3, QueueInvariant, PTL DEF Spec, ImplementsExecutor, Abs!ExSpec
=============================================================================
