---------------------------- MODULE StoreProofs ----------------------------
(***************************************************************************)
(* Proofs about Store, for every set of groups, every number of layers and *)
(* every number of management handlers.  Whatever the operator lets drain: *)
(* every thread is at a point of the call it is in, mutex_ excludes what   *)
(* it must, and no two layers share a file.  With an operator whose calls  *)
(* wait for the requests they race with (OperatorWaits): a row marked      *)
(* persisted has all its files, and a load of a group the database reports *)
(* finds its layer.                                                        *)
(*                                                                         *)
(* The invariant comes in four parts: Forms says where in its program      *)
(* each thread is and who holds mutex_; Traffic says what the calls under  *)
(* way exclude; Data says what Mem, the queue of TZ-REC and the files hold *)
(* between them; LoadInv says what a load that is under way will find.     *)
(***************************************************************************)
EXTENDS Store, SequenceTheorems, FiniteSetTheorems, TLAPS

-----------------------------------------------------------------------------
(* The points of the programs.                                             *)

\* What is left of Mem::persist_groups.
P1 == PersistGroups
P2 == <<"save", "mark", "mark_row", "sync", "drop_mutex", "py">>
P3 == <<"mark", "mark_row", "sync", "drop_mutex", "py">>
P4 == <<"mark_row", "sync", "drop_mutex", "py">>
P5 == <<"sync", "drop_mutex", "py">>
P6 == <<"drop_mutex", "py">>
Py == <<"py">>

\* What is left of Mem::evict_groups; E6 and E7 remove the row.
E1 == EvictGroups
E2 == <<"take_mutex", "take_op", "forget", "unlink", "py">>
E3 == <<"take_op", "forget", "unlink", "py">>
E4 == <<"forget", "unlink", "py">>
E6 == <<"remove_row", "sync", "unlink", "py">>
E7 == <<"sync", "unlink", "py">>
E8 == <<"unlink", "py">>

\* Mem::evict_labels, a status property, the candidate lists.
D1 == EvictLabels
D2 == <<"dropped">>
S1 == Status
S2 == <<"count">>
C1 == Candidates
C2 == <<"py", "drop_mutex">>
C3 == <<"drop_mutex">>

\* The task of OMP-Main that loads: a hit ends at G4, a miss goes through L1 and
\* L2, and from there to G4 or to N1 and N2.
G1 == GetTask
G2 == <<"take_mutex", "look", "unguard">>
G3 == <<"look", "unguard">>
G4 == <<"unguard">>
L1 == Miss
L2 == <<"load", "unguard">>
N1 == TryAgain
N2 == <<"queue_retry">>

\* The second try; M1 and M2 are its miss.
R1 == RetryTask
R2 == <<"take_mutex", "look_again", "unguard">>
R3 == <<"look_again", "unguard">>
M1 == MissAgain
M2 == <<"load_again", "unguard">>

\* KVFlow.stop, and the end of put_finish with record_flush.
X1 == Stop
X2 == <<"sync", "exit">>
X3 == <<"exit">>
F1 == <<"py", "take_op", "sync", "py">>
F2 == <<"take_op", "sync", "py">>
F3 == <<"sync", "py">>

\* The last k steps of a save; layer l is put next, or Python is returned to
\* before it; PutRest(NumLayers + 1) is put_finish.
SaveRest(k) == [i \in 1..k |-> ZipAndFinish[2 * NumLayers + 5 - k + i]]
PutRest(l) == SaveRest(2 * (NumLayers + 1 - l) + 5)
PyRest(l) == SaveRest(2 * (NumLayers + 1 - l) + 6)

PersistPts == {P1, P2, P3, P4, P5, P6}
EvictPts == {E1, E2, E3, E4, E6, E7, E8}
DropPts == {D1, D2}
PlainPts == {<<>>, S1, S2, C1, C2, C3}
MissPts == {L1, L2, M1, M2}
GetPts == {G1, G2, G3, G4, R1, R2, R3, N1, N2} \cup MissPts
StopPts == {<<>>, S1, S2, X1, X2, X3}
FlushPts == {F1, F2, F3}

-----------------------------------------------------------------------------
(* The invariant.                                                          *)

Ops == {"submit", "mark_row", "remove_row"}
Transactions == [op : Ops, g : Groups]
Tasks == [put : BOOLEAN, g : Groups, l : Layers]
Works == [g : Groups \cup {Nobody}, l : Nat]

\* Types of the variables.
DataTypes ==
  /\ mem \in [Groups -> SUBSET Layers] /\ unpersisted \in SUBSET Groups
  /\ rows \in [Groups -> {0, 1, NoRow}]
  /\ file \in [Files -> {"none", "cut", "full"}]
  /\ queue \in Seq(Transactions)
  /\ holder \in [Locks -> Threads \cup {Nobody}]
  /\ loads \in SUBSET [g : Groups, l : Layers]
  /\ omp \in Seq(Tasks) /\ dropping \in SUBSET Groups
ThreadTypes == todo = [t \in Threads |-> todo[t]] /\ on \in [Threads -> Works]
Types == DataTypes /\ ThreadTypes

\* Where a handler of the management server is.
HandlerForm(h) ==
  \/ todo[h] \in PlainPts /\ on[h] = NoWork
  \/ /\ todo[h] \in PersistPts \cup EvictPts \cup {Py}
     /\ on[h].g \in Groups /\ on[h].l \in 1..(NumLayers + 1)
  \/ todo[h] \in DropPts /\ on[h].g \in Groups /\ on[h].l = 0

\* Where the worker's own thread is: idle, reading the status or stopping; saving,
\* loading, or waiting for the Record.
MainForm ==
  \/ todo[Main] \in StopPts /\ on[Main] = NoWork
  \/ /\ on[Main].g \in Groups
     /\ \/ on[Main].l \in 1..(NumLayers + 1) /\ todo[Main] = PutRest(on[Main].l)
        \/ on[Main].l \in 2..(NumLayers + 1) /\ todo[Main] = PyRest(on[Main].l)
        \/ on[Main].l \in Layers /\ todo[Main] = Unzip
        \/ todo[Main] \in FlushPts \cup {Py}

\* Where OMP-Main is.
OmpForm ==
  \/ todo[Omp] = <<>> /\ on[Omp] = NoWork
  \/ /\ todo[Omp] \in GetPts \cup {PutTask}
     /\ on[Omp].g \in Groups /\ on[Omp].l \in Layers

\* The steps taken under mutex_.
MutexPts == {P2, P3, P4, P5, P6, E3, E4, E6, E7, E8, C2, C3}
LookPts == {G3, R3} \cup MissPts
InMutex(t) == \/ t \in Handlers /\ todo[t] \in MutexPts
              \/ t = Omp /\ todo[t] \in LookPts
Mutex == \A t \in Threads : InMutex(t) => holder["mutex"] = t

Forms == Types /\ (\A h \in Handlers : HandlerForm(h)) /\ MainForm /\ OmpForm /\ Mutex

\* A transaction for g waits in TZ-REC.
Queued(o, g) == \E i \in 1..Len(queue) : queue[i].op = o /\ queue[i].g = g

\* The worker's thread has still to call put_finish for g, or waits for the Record.
ToSubmit(g) == on[Main].g = g /\ \E i \in 1..Len(todo[Main]) : todo[Main][i] = "submit"
Flushing(g) == todo[Main] \in FlushPts /\ on[Main].g = g
SubmitPending(g) == ToSubmit(g) \/ Queued("submit", g)

\* Layer l of g is queued for OMP-Main, is queued or being put, will be put.
PutOn(g, l) == \E i \in 1..Len(omp) : omp[i].put /\ omp[i].g = g /\ omp[i].l = l
Coming(g, l) == PutOn(g, l) \/ (todo[Omp] = PutTask /\ on[Omp] = Work(g, l))
Pend(g, l) == Coming(g, l) \/ (ToSubmit(g) /\ on[Main].l <= l)
Covered(g) == \A l \in Layers : l \in mem[g] \/ Pend(g, l)

\* What excludes what.
OperatorAlone ==
  Operator => \A g \in Groups : ~SubmitPending(g) /\ \A l \in Layers : ~Pend(g, l)
FlushFirst(g) == Queued("submit", g) => Flushing(g)
DropApart(g) == g \in dropping => ~Busy(g) /\ rows[g] # 0
DropOnce ==
  \A h \in Handlers : todo[h] \in DropPts =>
    /\ on[h].g \in dropping
    /\ \A k \in Handlers : todo[k] \in DropPts /\ on[k].g = on[h].g => k = h
Traffic ==
  OperatorAlone /\ DropOnce /\ \A g \in Groups : FlushFirst(g) /\ DropApart(g)

\* A marked row that is saved again will be replaced; what is not on disk is in
\* Mem or on its way there.
Resaved(g) ==
  rows[g] = 1 /\ (g \in unpersisted \/ \E l \in Layers : Pend(g, l)) => SubmitPending(g)
Kept(g) ==
  (g \in unpersisted \/ (\E l \in Layers : Pend(g, l)) \/ SubmitPending(g) \/ rows[g] = 0)
    => Covered(g)

\* Handler h persists g, evicts it.
Persisting(h, g) == on[h].g = g =>
  /\ todo[h] = P1 => on[h].l = 1
  /\ todo[h] = P2 => \A k \in Layers : k < on[h].l => file[FileOf[g][k]] = "full"
  /\ todo[h] \in {P3, P4, P5} => \A k \in Layers : file[FileOf[g][k]] = "full"
  /\ todo[h] \in {P4, P5} => g \notin unpersisted
Evicting(h, g) == on[h].g = g =>
  /\ todo[h] = E7 => rows[g] = NoRow \/ Queued("remove_row", g)
  /\ todo[h] = E8 => rows[g] # 0
Marking(g) == Queued("mark_row", g) => \E h \in Handlers : todo[h] = P5 /\ on[h].g = g
Removing(g) == Queued("remove_row", g) => \E h \in Handlers : todo[h] = E7 /\ on[h].g = g

Data ==
  /\ \A g \in Groups : Resaved(g) /\ Kept(g) /\ Marking(g) /\ Removing(g)
  /\ \A h \in Handlers : \A g \in Groups : Persisting(h, g) /\ Evicting(h, g)
  /\ OnDisk

Inv == Forms /\ Traffic /\ Data

-----------------------------------------------------------------------------
(* The programs, step by step.                                             *)

\* When a sequence is the concatenation of two others.
LEMMA CatIs ==
  ASSUME NEW S, NEW s \in Seq(S), NEW t \in Seq(S), NEW u \in Seq(S),
         Len(u) = Len(s) + Len(t),
         \A i \in 1..Len(s) : u[i] = s[i],
         \A i \in 1..Len(t) : u[Len(s) + i] = t[i]
  PROVE  s \o t = u
  <1>1. s \o t \in Seq(S) /\ Len(s \o t) = Len(u) OBVIOUS
  <1>2. \A i \in 1..Len(u) : (s \o t)[i] = u[i]
    <2> TAKE i \in 1..Len(u)
    <2>1. CASE i \in 1..Len(s) BY <2>1
    <2>2. CASE i \notin 1..Len(s)
      <3>1. i - Len(s) \in 1..Len(t) /\ i = Len(s) + (i - Len(s)) BY <2>2
      <3>2. (s \o t)[i] = t[i - Len(s)] BY <3>1
      <3> QED BY <3>1, <3>2
    <2> QED BY <2>1, <2>2
  <1> QED BY <1>1, <1>2

\* Concatenations of tuples.
LEMMA Cat22 ==
  ASSUME NEW a, NEW b, NEW c, NEW d
  PROVE  <<a, b>> \o <<c, d>> = <<a, b, c, d>>
  <1> DEFINE S == {a, b, c, d}
  <1>1. PICK s, t, u : s = <<a, b>> /\ t = <<c, d>> /\ u = <<a, b, c, d>> OBVIOUS
  <1>2. s \in Seq(S) /\ t \in Seq(S) /\ u \in Seq(S) BY <1>1
  <1>3. Len(u) = Len(s) + Len(t) BY <1>1
  <1>4. \A i \in 1..Len(s) : u[i] = s[i] BY <1>1
  <1>5. \A i \in 1..Len(t) : u[Len(s) + i] = t[i] BY <1>1
  <1> HIDE DEF S
  <1>6. s \o t = u BY <1>2, <1>3, <1>4, <1>5, CatIs
  <1> QED BY <1>1, <1>6

LEMMA Cat21 ==
  ASSUME NEW a, NEW b, NEW c
  PROVE  <<a, b>> \o <<c>> = <<a, b, c>>
  <1> DEFINE S == {a, b, c}
  <1>1. PICK s, t, u : s = <<a, b>> /\ t = <<c>> /\ u = <<a, b, c>> OBVIOUS
  <1>2. s \in Seq(S) /\ t \in Seq(S) /\ u \in Seq(S) BY <1>1
  <1>3. Len(u) = Len(s) + Len(t) BY <1>1
  <1>4. \A i \in 1..Len(s) : u[i] = s[i] BY <1>1
  <1>5. \A i \in 1..Len(t) : u[Len(s) + i] = t[i] BY <1>1
  <1> HIDE DEF S
  <1>6. s \o t = u BY <1>2, <1>3, <1>4, <1>5, CatIs
  <1> QED BY <1>1, <1>6

LEMMA Cat32 ==
  ASSUME NEW a, NEW b, NEW c, NEW d, NEW e
  PROVE  <<a, b, c>> \o <<d, e>> = <<a, b, c, d, e>>
  <1> DEFINE S == {a, b, c, d, e}
  <1>1. PICK s, t, u : s = <<a, b, c>> /\ t = <<d, e>> /\ u = <<a, b, c, d, e>> OBVIOUS
  <1>2. s \in Seq(S) /\ t \in Seq(S) /\ u \in Seq(S) BY <1>1
  <1>3. Len(u) = Len(s) + Len(t) BY <1>1
  <1>4. \A i \in 1..Len(s) : u[i] = s[i] BY <1>1
  <1>5. \A i \in 1..Len(t) : u[Len(s) + i] = t[i] BY <1>1
  <1> HIDE DEF S
  <1>6. s \o t = u BY <1>2, <1>3, <1>4, <1>5, CatIs
  <1> QED BY <1>1, <1>6

LEMMA PersistWhole ==
  <<"take_mutex", "save", "mark", "mark_row", "sync">> \o <<"drop_mutex", "py">>
    = <<"take_mutex", "save", "mark", "mark_row", "sync", "drop_mutex", "py">>
  <1> DEFINE S == {"take_mutex", "save", "mark", "mark_row", "sync", "drop_mutex", "py"}
  <1>1. PICK s, t, u :
          /\ s = <<"take_mutex", "save", "mark", "mark_row", "sync">> /\ t = <<"drop_mutex", "py">>
          /\ u = <<"take_mutex", "save", "mark", "mark_row", "sync", "drop_mutex", "py">>
    OBVIOUS
  <1>2. s \in Seq(S) /\ t \in Seq(S) /\ u \in Seq(S) BY <1>1
  <1>3. Len(u) = Len(s) + Len(t) BY <1>1
  <1>4. \A i \in 1..Len(s) : u[i] = s[i] BY <1>1
  <1>5. \A i \in 1..Len(t) : u[Len(s) + i] = t[i] BY <1>1
  <1> HIDE DEF S
  <1>6. s \o t = u BY <1>2, <1>3, <1>4, <1>5, CatIs
  <1> QED BY <1>1, <1>6

LEMMA FinishWhole == PutFinish = <<"submit", "py", "take_op", "sync", "py">>
  <1> DEFINE S == {"submit", "py", "take_op", "sync"}
  <1>1. PICK s, t, u :
          /\ s = <<"submit", "py", "take_op", "sync">> /\ t = <<"py">>
          /\ u = <<"submit", "py", "take_op", "sync", "py">>
    OBVIOUS
  <1>2. s \in Seq(S) /\ t \in Seq(S) /\ u \in Seq(S) BY <1>1
  <1>3. Len(u) = Len(s) + Len(t) BY <1>1
  <1>4. \A i \in 1..Len(s) : u[i] = s[i] BY <1>1
  <1>5. \A i \in 1..Len(t) : u[Len(s) + i] = t[i] BY <1>1
  <1> HIDE DEF S
  <1>6. s \o t = u BY <1>2, <1>3, <1>4, <1>5, CatIs
  <1>7. <<"submit", "py">> \o Sync = s BY <1>1, Cat22 DEF Sync
  <1> QED BY <1>1, <1>6, <1>7, Zenon DEF PutFinish

\* The step at the head of p and what is left after it.
Goes(p, s, q) == p # <<>> /\ Head(p) = s /\ Tail(p) = q

\* Mem::persist_groups.
LEMMA PersistSteps ==
  /\ Goes(P1, "take_mutex", P2) /\ Goes(P2, "save", P3) /\ Goes(P3, "mark", P4)
  /\ Goes(P4, "mark_row", P5) /\ Goes(P5, "sync", P6) /\ Goes(P6, "drop_mutex", Py)
  /\ Goes(Py, "py", <<>>)
  <1>1. P1 = <<"take_mutex", "save", "mark", "mark_row", "sync", "drop_mutex", "py">>
    <2>1. <<"take_mutex", "save", "mark">> \o MarkPersisted
            = <<"take_mutex", "save", "mark", "mark_row", "sync">>
      BY Cat32 DEF MarkPersisted
    <2> QED BY <2>1, PersistWhole, Zenon DEF P1, PersistGroups
  <1> QED BY <1>1 DEF Goes, P2, P3, P4, P5, P6, Py

\* Mem::evict_groups, with and without the removal of the row.
LEMMA EvictSteps ==
  /\ Goes(E1, "unguarded", E2) /\ Goes(E2, "take_mutex", E3) /\ Goes(E3, "take_op", E4)
  /\ Goes(E4, "forget", E8) /\ RemoveRow \o Tail(E4) = E6
  /\ Goes(E6, "remove_row", E7) /\ Goes(E7, "sync", E8) /\ Goes(E8, "unlink", Py)
  <1>1. E1 = <<"unguarded", "take_mutex", "take_op", "forget", "unlink", "py">>
    BY DEF E1, EvictGroups
  <1>2. Tail(E4) = E8 BY DEF E4, E8
  <1>3. RemoveRow \o E8 = E6 BY Cat22 DEF RemoveRow, E8, E6
  <1> QED BY <1>1, <1>2, <1>3 DEF Goes, E2, E3, E4, E6, E7, E8, Py

\* The other calls of a handler.
LEMMA PlainSteps ==
  /\ Goes(D1, "evict", D2) /\ Goes(D2, "dropped", <<>>)
  /\ Goes(S1, "take_gil", S2) /\ Goes(S2, "count", <<>>)
  /\ Goes(C1, "take_mutex", C2) /\ Goes(C2, "py", C3) /\ Goes(C3, "drop_mutex", <<>>)
  BY DEF Goes, D1, D2, S1, S2, C1, C2, C3, EvictLabels, Status, Candidates

\* The tasks of OMP-Main, KVFlow.stop, and the load of a layer.
LEMMA TaskSteps ==
  /\ Goes(PutTask, "put", <<>>)
  /\ Goes(G1, "guard", G2) /\ Goes(G2, "take_mutex", G3) /\ Goes(G3, "look", G4)
  /\ Goes(G4, "unguard", <<>>)
  /\ Goes(L1, "take_op", L2) /\ Goes(L2, "load", G4)
  /\ Goes(N1, "unguard", N2) /\ Goes(N2, "queue_retry", <<>>)
  /\ Goes(R1, "guard", R2) /\ Goes(R2, "take_mutex", R3) /\ Goes(R3, "look_again", G4)
  /\ Goes(M1, "take_op", M2) /\ Goes(M2, "load_again", G4)
  /\ Goes(X1, "take_op", X2) /\ Goes(X2, "sync", X3) /\ Goes(X3, "exit", <<>>)
  /\ Goes(F1, "py", F2) /\ Goes(F2, "take_op", F3) /\ Goes(F3, "sync", Py)
  /\ Goes(Unzip, "queue_get", Py) /\ Goes(Py, "py", <<>>)
  <1>1. /\ Goes(PutTask, "put", <<>>)
        /\ Goes(G1, "guard", G2) /\ Goes(G2, "take_mutex", G3) /\ Goes(G3, "look", G4)
        /\ Goes(G4, "unguard", <<>>)
    BY DEF Goes, PutTask, GetTask, G1, G2, G3, G4
  <1>2. /\ Goes(L1, "take_op", L2) /\ Goes(L2, "load", G4)
        /\ Goes(N1, "unguard", N2) /\ Goes(N2, "queue_retry", <<>>)
    BY DEF Goes, Miss, TryAgain, L1, L2, N1, N2, G4
  <1>3. /\ Goes(R1, "guard", R2) /\ Goes(R2, "take_mutex", R3) /\ Goes(R3, "look_again", G4)
        /\ Goes(M1, "take_op", M2) /\ Goes(M2, "load_again", G4)
    BY DEF Goes, RetryTask, MissAgain, R1, R2, R3, M1, M2, G4
  <1>4. Goes(X1, "take_op", X2) /\ Goes(X2, "sync", X3) /\ Goes(X3, "exit", <<>>)
    <2>1. X1 = <<"take_op", "sync", "exit">> BY Cat21 DEF X1, Stop, Sync
    <2> QED BY <2>1 DEF Goes, X2, X3
  <1>5. /\ Goes(F1, "py", F2) /\ Goes(F2, "take_op", F3) /\ Goes(F3, "sync", Py)
        /\ Goes(Unzip, "queue_get", Py) /\ Goes(Py, "py", <<>>)
    BY DEF Goes, F1, F2, F3, Unzip, Py
  <1> QED BY <1>1, <1>2, <1>3, <1>4, <1>5

\* The steps of a save.
Words == {"queue_put", "py", "submit", "take_op", "sync"}

LEMMA SaveWords ==
  /\ ZipAndFinish \in Seq(Words) /\ Len(ZipAndFinish) = 2 * NumLayers + 5
  /\ \A i \in 1..(2 * NumLayers) :
       ZipAndFinish[i] = IF i % 2 = 1 THEN "queue_put" ELSE "py"
  /\ ZipAndFinish[2 * NumLayers + 1] = "submit" /\ ZipAndFinish[2 * NumLayers + 2] = "py"
  /\ ZipAndFinish[2 * NumLayers + 3] = "take_op" /\ ZipAndFinish[2 * NumLayers + 4] = "sync"
  /\ ZipAndFinish[2 * NumLayers + 5] = "py"
  <1> DEFINE s == [i \in 1..2 * NumLayers |-> IF i % 2 = 1 THEN "queue_put" ELSE "py"]
  <1>1. NumLayers \in Nat BY StoreAssumption DEF NumLayers
  <1>2. s \in Seq(Words) /\ Len(s) = 2 * NumLayers BY <1>1 DEF Words
  <1>3. /\ PutFinish \in Seq(Words) /\ Len(PutFinish) = 5 /\ PutFinish[1] = "submit"
        /\ PutFinish[2] = "py" /\ PutFinish[3] = "take_op" /\ PutFinish[4] = "sync"
        /\ PutFinish[5] = "py"
    BY FinishWhole DEF Words
  <1>4. ZipAndFinish = s \o PutFinish BY DEF ZipAndFinish
  <1>5. \A i \in 1..2 * NumLayers : s[i] = IF i % 2 = 1 THEN "queue_put" ELSE "py"
    OBVIOUS
  <1> HIDE DEF s
  <1>6. PICK q : q = PutFinish OBVIOUS
  <1>7. /\ s \o q \in Seq(Words) /\ Len(s \o q) = Len(s) + Len(q)
        /\ \A i \in 1..(Len(s) + Len(q)) :
             (s \o q)[i] = IF i <= Len(s) THEN s[i] ELSE q[i - Len(s)]
    BY <1>2, <1>3, <1>6, ConcatProperties
  <1>8. Len(s \o q) = 2 * NumLayers + 5 BY <1>1, <1>2, <1>3, <1>6, <1>7
  <1>9. \A i \in 1..2 * NumLayers : (s \o q)[i] = s[i] BY <1>1, <1>2, <1>3, <1>6, <1>7
  <1>10. \A i \in 1..5 : (s \o q)[2 * NumLayers + i] = q[i]
    <2>0. Len(q) = 5 BY <1>3, <1>6, Zenon
    <2>1. PICK u : u = s \o q OBVIOUS
    <2>2. \A i \in 1..(Len(s) + Len(q)) : ~(i <= Len(s)) => u[i] = q[i - Len(s)]
      BY <1>7, <2>1
    <2>3. ASSUME NEW i \in 1..5 PROVE u[2 * NumLayers + i] = q[i]
      <3>1. PICK n : n = 2 * NumLayers + i OBVIOUS
      <3>2. n \in 1..(Len(s) + Len(q)) /\ ~(n <= Len(s)) /\ n - Len(s) = i BY <1>1, <1>2, <2>0, <3>1
      <3>3. u[n] = q[n - Len(s)] BY <2>2, <3>2, Zenon
      <3> QED BY <3>1, <3>2, <3>3
    <2> QED BY <2>1, <2>3
  <1>11. /\ (s \o q)[2 * NumLayers + 1] = "submit" /\ (s \o q)[2 * NumLayers + 2] = "py"
         /\ (s \o q)[2 * NumLayers + 3] = "take_op" /\ (s \o q)[2 * NumLayers + 4] = "sync"
         /\ (s \o q)[2 * NumLayers + 5] = "py"
    <2>1. 1 \in 1..5 /\ 2 \in 1..5 /\ 3 \in 1..5 /\ 4 \in 1..5 /\ 5 \in 1..5 OBVIOUS
    <2> QED BY <1>3, <1>6, <1>10, <2>1, Zenon
  <1> QED BY <1>4, <1>5, <1>6, <1>7, <1>8, <1>9, <1>11

\* What is left of a save after one more step.
LEMMA RestSteps ==
  ASSUME NEW k \in 1..(2 * NumLayers + 5)
  PROVE  /\ SaveRest(k) # <<>> /\ Head(SaveRest(k)) = ZipAndFinish[2 * NumLayers + 6 - k]
         /\ Len(SaveRest(k)) = k
         /\ Tail(SaveRest(k)) = SaveRest(k - 1)
         /\ k >= 5 => SaveRest(k)[k - 4] = "submit"
  <1>1. NumLayers \in Nat BY StoreAssumption DEF NumLayers
  <1>2. \A j \in 0..(2 * NumLayers + 5) : \A i \in 1..j :
          ZipAndFinish[2 * NumLayers + 5 - j + i] \in Words
    BY <1>1, SaveWords
  <1>3. \A j \in 0..(2 * NumLayers + 5) :
          /\ SaveRest(j) \in Seq(Words) /\ Len(SaveRest(j)) = j
          /\ \A i \in 1..j : SaveRest(j)[i] = ZipAndFinish[2 * NumLayers + 5 - j + i]
    <2> TAKE j \in 0..(2 * NumLayers + 5)
    <2>1. SaveRest(j) \in [1..j -> Words] BY <1>2 DEF SaveRest
    <2>2. j \in Nat BY <1>1
    <2>3. SaveRest(j) \in Seq(Words) /\ Len(SaveRest(j)) = j BY <2>1, <2>2
    <2> QED BY <2>3 DEF SaveRest
  <1>4. SaveRest(k) # <<>> /\ Head(SaveRest(k)) = SaveRest(k)[1] BY <1>1, <1>3
  <1>5. Tail(SaveRest(k)) = SaveRest(k - 1)
    <2>1. k - 1 \in 0..(2 * NumLayers + 5) /\ k \in 0..(2 * NumLayers + 5) BY <1>1
    <2> DEFINE s == SaveRest(k)
               t == SaveRest(k - 1)
    <2>2. s \in Seq(Words) /\ Len(s) = k /\ t \in Seq(Words) /\ Len(t) = k - 1 BY <1>3, <2>1
    <2>3. Tail(s) \in Seq(Words) /\ Len(Tail(s)) = k - 1 BY <1>4, <2>2
    <2>4. \A i \in 1..(k - 1) : Tail(s)[i] = t[i]
      <3> TAKE i \in 1..(k - 1)
      <3>1. Tail(s)[i] = s[i + 1] BY <1>4, <2>2
      <3>2. s[i + 1] = ZipAndFinish[2 * NumLayers + 5 - k + (i + 1)]
        <4>1. i + 1 \in 1..k OBVIOUS
        <4> QED BY <1>3, <2>1, <4>1
      <3>3. t[i] = ZipAndFinish[2 * NumLayers + 5 - (k - 1) + i] BY <1>3, <2>1
      <3>4. 2 * NumLayers + 5 - k + (i + 1) = 2 * NumLayers + 5 - (k - 1) + i BY <1>1
      <3> QED BY <3>1, <3>2, <3>3, <3>4
    <2> HIDE DEF s, t
    <2> QED BY <2>2, <2>3, <2>4 DEF s, t
  <1>6. SUFFICES ASSUME k >= 5 PROVE SaveRest(k)[k - 4] = "submit"
    <2>1. k \in 0..(2 * NumLayers + 5) /\ 1 \in 1..k BY <1>1
    <2>2. SaveRest(k)[1] = ZipAndFinish[2 * NumLayers + 5 - k + 1] BY <1>3, <2>1
    <2>3. 2 * NumLayers + 5 - k + 1 = 2 * NumLayers + 6 - k BY <1>1
    <2> QED BY <1>3, <1>4, <1>5, <2>1, <2>2, <2>3
  <1>7. k \in 0..(2 * NumLayers + 5) /\ k - 4 \in 1..k BY <1>1, <1>6
  <1>8. 2 * NumLayers + 5 - k + (k - 4) = 2 * NumLayers + 1 BY <1>1
  <1> QED BY <1>3, <1>7, <1>8, SaveWords

\* The programs of the saves, call by call.
LEMMA SaveSteps ==
  /\ PutRest(1) = ZipAndFinish
  /\ \A l \in Layers : Goes(PutRest(l), "queue_put", PyRest(l + 1))
  /\ \A l \in 2..(NumLayers + 1) : Goes(PyRest(l), "py", PutRest(l))
  /\ Goes(PutRest(NumLayers + 1), "submit", F1)
  <1>1. NumLayers \in Nat BY StoreAssumption DEF NumLayers
  <1>2. PutRest(1) = ZipAndFinish
    <2>1. 2 * (NumLayers + 1 - 1) + 5 = 2 * NumLayers + 5 BY <1>1
    <2>2. \A i \in 1..(2 * NumLayers + 5) :
            2 * NumLayers + 5 - (2 * NumLayers + 5) + i = i BY <1>1
    <2>3. SaveRest(2 * NumLayers + 5) = [i \in 1..(2 * NumLayers + 5) |-> ZipAndFinish[i]]
      BY <2>2 DEF SaveRest
    <2>4. ZipAndFinish = [i \in 1..(2 * NumLayers + 5) |-> ZipAndFinish[i]] BY SaveWords
    <2> QED BY <2>1, <2>3, <2>4 DEF PutRest
  <1>3. ASSUME NEW l \in Layers PROVE Goes(PutRest(l), "queue_put", PyRest(l + 1))
    <2> DEFINE k == 2 * (NumLayers + 1 - l) + 5
    <2>1. k \in 1..(2 * NumLayers + 5) /\ k - 1 = 2 * (NumLayers + 1 - (l + 1)) + 6
      BY <1>1 DEF Layers
    <2>2. /\ 2 * NumLayers + 6 - k \in 1..(2 * NumLayers)
          /\ 2 * NumLayers + 6 - k = 2 * (l - 1) + 1
      BY <1>1 DEF Layers
    <2>3. (2 * (l - 1) + 1) % 2 = 1 BY <1>1 DEF Layers
    <2>4. ZipAndFinish[2 * NumLayers + 6 - k] = "queue_put" BY <2>2, <2>3, SaveWords
    <2> HIDE DEF k
    <2>5. Goes(SaveRest(k), "queue_put", SaveRest(k - 1)) BY <2>1, <2>4, RestSteps DEF Goes
    <2> QED BY <2>1, <2>5 DEF k, PutRest, PyRest
  <1>4. ASSUME NEW l \in 2..(NumLayers + 1) PROVE Goes(PyRest(l), "py", PutRest(l))
    <2> DEFINE k == 2 * (NumLayers + 1 - l) + 6
    <2>1. k \in 1..(2 * NumLayers + 5) /\ k - 1 = 2 * (NumLayers + 1 - l) + 5 BY <1>1
    <2>2. /\ 2 * NumLayers + 6 - k \in 1..(2 * NumLayers)
          /\ 2 * NumLayers + 6 - k = 2 * (l - 1)
      BY <1>1
    <2>3. (2 * (l - 1)) % 2 = 0 BY <1>1
    <2>4. ZipAndFinish[2 * NumLayers + 6 - k] = "py" BY <2>2, <2>3, SaveWords
    <2> HIDE DEF k
    <2>5. Goes(SaveRest(k), "py", SaveRest(k - 1)) BY <2>1, <2>4, RestSteps DEF Goes
    <2> QED BY <2>1, <2>5 DEF k, PutRest, PyRest
  <1>5. Goes(PutRest(NumLayers + 1), "submit", F1)
    <2>1. 2 * (NumLayers + 1 - (NumLayers + 1)) + 5 = 5 BY <1>1
    <2>2. 5 \in 1..(2 * NumLayers + 5) BY <1>1
    <2>3. 2 * NumLayers + 6 - 5 = 2 * NumLayers + 1 /\ 5 - 1 = 4 BY <1>1
    <2>4. Goes(SaveRest(5), "submit", SaveRest(4)) BY <2>2, <2>3, RestSteps, SaveWords DEF Goes
    <2>5. SaveRest(4) = F1
      <3>1. /\ 2 * NumLayers + 5 - 4 + 1 = 2 * NumLayers + 2
            /\ 2 * NumLayers + 5 - 4 + 2 = 2 * NumLayers + 3
            /\ 2 * NumLayers + 5 - 4 + 3 = 2 * NumLayers + 4
            /\ 2 * NumLayers + 5 - 4 + 4 = 2 * NumLayers + 5
        BY <1>1
      <3>2. SaveRest(4) = [i \in 1..4 |-> ZipAndFinish[2 * NumLayers + 5 - 4 + i]]
        BY DEF SaveRest
      <3>3. /\ SaveRest(4)[1] = "py" /\ SaveRest(4)[2] = "take_op"
            /\ SaveRest(4)[3] = "sync" /\ SaveRest(4)[4] = "py"
        BY <3>1, <3>2, SaveWords
      <3>4. \A i \in 1..4 : i \in {1, 2, 3, 4} OBVIOUS
      <3>5. F1 = [i \in 1..4 |-> F1[i]] /\ F1[1] = "py" /\ F1[2] = "take_op" /\ F1[3] = "sync"
            /\ F1[4] = "py"
        BY DEF F1
      <3>6. \A i \in 1..4 : SaveRest(4)[i] = F1[i] BY <3>3, <3>4, <3>5
      <3>7. SaveRest(4) = [i \in 1..4 |-> SaveRest(4)[i]] BY <3>2
      <3> QED BY <3>5, <3>6, <3>7
    <2> QED BY <2>1, <2>4, <2>5 DEF PutRest
  <1> QED BY <1>2, <1>3, <1>4, <1>5

\* A save that has still to call put_finish, and a call that has not.
LEMMA SaveSubmits ==
  /\ \A l \in 1..(NumLayers + 1) : \E i \in 1..Len(PutRest(l)) : PutRest(l)[i] = "submit"
  /\ \A l \in 2..(NumLayers + 1) : \E i \in 1..Len(PyRest(l)) : PyRest(l)[i] = "submit"
  <1>1. NumLayers \in Nat BY StoreAssumption DEF NumLayers
  <1>2. ASSUME NEW k \in 5..(2 * NumLayers + 5)
        PROVE  \E i \in 1..Len(SaveRest(k)) : SaveRest(k)[i] = "submit"
    <2>1. k \in 1..(2 * NumLayers + 5) /\ k >= 5 /\ k - 4 \in 1..k BY <1>1
    <2> QED BY <2>1, RestSteps
  <1>3. \A l \in 1..(NumLayers + 1) : 2 * (NumLayers + 1 - l) + 5 \in 5..(2 * NumLayers + 5)
    BY <1>1
  <1>4. \A l \in 2..(NumLayers + 1) : 2 * (NumLayers + 1 - l) + 6 \in 5..(2 * NumLayers + 5)
    BY <1>1
  <1>5. \A l \in 1..(NumLayers + 1) : \E i \in 1..Len(PutRest(l)) : PutRest(l)[i] = "submit"
    BY <1>2, <1>3 DEF PutRest
  <1>6. \A l \in 2..(NumLayers + 1) : \E i \in 1..Len(PyRest(l)) : PyRest(l)[i] = "submit"
    BY <1>2, <1>4 DEF PyRest
  <1> QED BY <1>5, <1>6

\* Points of a handler with the same first step.
LEMMA HandlerApart ==
  /\ P1 # E2 /\ P1 # C1 /\ E2 # C1 /\ E7 # P5 /\ P6 # C3 /\ Py # C2
  <1>1. Tail(P1) = P2 /\ Tail(E2) = E3 /\ Tail(C1) = C2
    BY PersistSteps, EvictSteps, PlainSteps DEF Goes
  <1>4. P2[1] = "save" /\ E3[1] = "take_op" /\ C2[1] = "py" BY DEF P2, E3, C2
  <1>2. Len(P6) = 2 /\ Len(C3) = 1 /\ Len(Py) = 1 /\ Len(C2) = 2 BY DEF P6, C3, Py, C2
  <1>3. E7[2] = "unlink" /\ P5[2] = "drop_mutex" BY DEF E7, P5
  <1>5. P1 # E2 /\ P1 # C1 /\ E2 # C1 BY <1>1, <1>4
  <1>6. P6 # C3 /\ Py # C2 BY <1>2
  <1>7. E7 # P5 BY <1>3
  <1> QED BY <1>5, <1>6, <1>7

-----------------------------------------------------------------------------
(* The steps of a thread, by the step at the head of its program.          *)

\* The action that takes each step.
LEMMA Takes ==
  ASSUME NEW t, Step(t)
  PROVE  /\ todo[t] # <<>>
         /\ Head(todo[t]) \in {"take_gil", "take_mutex", "take_op"} => Lock(t)
         /\ Head(todo[t]) \in {"count", "sync", "drop_mutex", "py", "unguarded"} => Wait(t)
         /\ Head(todo[t]) \in {"submit", "mark_row", "remove_row"} => Submit(t)
         /\ Head(todo[t]) \in {"queue_put", "queue_get"} => Enqueue(t)
         /\ Head(todo[t]) = "put" => Put(t)
         /\ Head(todo[t]) \in {"guard", "unguard"} => Guard(t)
         /\ Head(todo[t]) \in {"look", "look_again"} => Look(t)
         /\ Head(todo[t]) \in {"load", "load_again"} => ReadFile(t) \/ NotFound(t)
         /\ Head(todo[t]) = "queue_retry" => Requeue(t)
         /\ Head(todo[t]) = "save" => WriteFile(t) \/ Saved(t)
         /\ Head(todo[t]) \in {"mark", "unlink", "evict"} => Mark(t)
         /\ Head(todo[t]) = "forget" => Forget(t)
         /\ Head(todo[t]) = "dropped" => Dropped(t)
         /\ Head(todo[t]) # "exit"
  <1>1. Lock(t) => todo[t] # <<>> /\ Head(todo[t]) \in {"take_gil", "take_mutex", "take_op"}
    BY DEF Lock, At, Locks, Take
  <1>2. Wait(t) => /\ todo[t] # <<>>
                   /\ Head(todo[t]) \in {"count", "sync", "drop_mutex", "py", "unguarded"}
    BY DEF Wait, At
  <1>3. Submit(t) => todo[t] # <<>> /\ Head(todo[t]) \in {"submit", "mark_row", "remove_row"}
    BY DEF Submit, At
  <1>4. Enqueue(t) => todo[t] # <<>> /\ Head(todo[t]) \in {"queue_put", "queue_get"}
    BY DEF Enqueue, At
  <1>5. Put(t) => todo[t] # <<>> /\ Head(todo[t]) = "put" BY DEF Put, At
  <1>6. Guard(t) => todo[t] # <<>> /\ Head(todo[t]) \in {"guard", "unguard"} BY DEF Guard, At
  <1>7. Look(t) => todo[t] # <<>> /\ Head(todo[t]) \in {"look", "look_again"} BY DEF Look, At
  <1>8. ReadFile(t) \/ NotFound(t) => todo[t] # <<>> /\ Head(todo[t]) \in {"load", "load_again"}
    BY DEF ReadFile, NotFound, Asks, At
  <1>14. Requeue(t) => todo[t] # <<>> /\ Head(todo[t]) = "queue_retry" BY DEF Requeue, At
  <1>9. WriteFile(t) \/ Saved(t) => todo[t] # <<>> /\ Head(todo[t]) = "save"
    BY DEF WriteFile, Saved, At
  <1>10. Mark(t) => todo[t] # <<>> /\ Head(todo[t]) \in {"mark", "unlink", "evict"}
    BY DEF Mark, At
  <1>11. Forget(t) => todo[t] # <<>> /\ Head(todo[t]) = "forget" BY DEF Forget, At
  <1>12. Dropped(t) => todo[t] # <<>> /\ Head(todo[t]) = "dropped" BY DEF Dropped, At
  <1>13. todo[t] # <<>>
    BY <1>1, <1>2, <1>3, <1>4, <1>5, <1>6, <1>7, <1>8, <1>9, <1>10, <1>11, <1>12, <1>14 DEF Step
  <1> QED
    BY <1>1, <1>2, <1>3, <1>4, <1>5, <1>6, <1>7, <1>8, <1>9, <1>10, <1>11, <1>12, <1>13, <1>14 DEF Step

\* What the steps on locks leave alone.
shared == <<memVars, diskVars, queue, tasks, dropping>>

\* Thread t goes on from p to q.
Moves(t, p, q) == todo[t] = p /\ Then(t, q)

LEMMA LockHeads ==
  ASSUME NEW t, NEW p, NEW q, todo[t] = p, Step(t)
  PROVE  /\ \A k \in Locks : Goes(p, Take[k], q) =>
              /\ Free(k) /\ holder' = [holder EXCEPT ![k] = t]
              /\ Moves(t, p, q) /\ UNCHANGED shared
         /\ Goes(p, "count", q) => Unlock("gil") /\ Moves(t, p, q) /\ UNCHANGED shared
         /\ Goes(p, "sync", q) =>
              queue = <<>> /\ Unlock("op") /\ Moves(t, p, q) /\ UNCHANGED shared
         /\ Goes(p, "drop_mutex", q) => Unlock("mutex") /\ Moves(t, p, q) /\ UNCHANGED shared
         /\ (\E s \in {"py", "unguarded", "guard", "unguard"} : Goes(p, s, q)) =>
              UNCHANGED holder /\ Moves(t, p, q) /\ UNCHANGED shared
  <1>1. ASSUME NEW k \in Locks, Goes(p, Take[k], q)
        PROVE  /\ Free(k) /\ holder' = [holder EXCEPT ![k] = t]
               /\ Moves(t, p, q) /\ UNCHANGED shared
    <2>1. Lock(t) BY <1>1, Takes DEF Goes, Locks, Take
    <2>2. \A j \in Locks : Take[j] = Take[k] => j = k BY DEF Locks, Take
    <2> QED BY <1>1, <2>1, <2>2 DEF Lock, At, Goes, Moves, Advance, shared
  <1>2. ASSUME Goes(p, "count", q)
        PROVE  Unlock("gil") /\ Moves(t, p, q) /\ UNCHANGED shared
    <2>1. Wait(t) BY <1>2, Takes DEF Goes
    <2> QED BY <1>2, <2>1 DEF Wait, At, Goes, Moves, Advance, shared
  <1>3. ASSUME Goes(p, "sync", q)
        PROVE  queue = <<>> /\ Unlock("op") /\ Moves(t, p, q) /\ UNCHANGED shared
    <2>1. Wait(t) BY <1>3, Takes DEF Goes
    <2> QED BY <1>3, <2>1 DEF Wait, At, Goes, Moves, Advance, shared
  <1>4. ASSUME Goes(p, "drop_mutex", q)
        PROVE  Unlock("mutex") /\ Moves(t, p, q) /\ UNCHANGED shared
    <2>1. Wait(t) BY <1>4, Takes DEF Goes
    <2> QED BY <1>4, <2>1 DEF Wait, At, Goes, Moves, Advance, shared
  <1>5. ASSUME NEW s \in {"py", "unguarded"}, Goes(p, s, q)
        PROVE  UNCHANGED holder /\ Moves(t, p, q) /\ UNCHANGED shared
    <2>1. Wait(t) BY <1>5, Takes DEF Goes
    <2> QED BY <1>5, <2>1 DEF Wait, At, Goes, Moves, Advance, shared
  <1>6. ASSUME NEW s \in {"guard", "unguard"}, Goes(p, s, q)
        PROVE  UNCHANGED holder /\ Moves(t, p, q) /\ UNCHANGED shared
    <2>1. Guard(t) BY <1>6, Takes DEF Goes
    <2> QED BY <1>6, <2>1 DEF Guard, At, Goes, Moves, Advance, shared
  <1> QED BY <1>1, <1>2, <1>3, <1>4, <1>5, <1>6

\* The three locks.
LEMMA TakeHeads ==
  ASSUME NEW t, NEW p, NEW q, todo[t] = p, Step(t)
  PROVE  /\ Goes(p, "take_gil", q) =>
              /\ Free("gil") /\ holder' = [holder EXCEPT !["gil"] = t]
              /\ Moves(t, p, q) /\ UNCHANGED shared
         /\ Goes(p, "take_mutex", q) =>
              /\ Free("mutex") /\ holder' = [holder EXCEPT !["mutex"] = t]
              /\ Moves(t, p, q) /\ UNCHANGED shared
         /\ Goes(p, "take_op", q) =>
              /\ Free("op") /\ holder' = [holder EXCEPT !["op"] = t]
              /\ Moves(t, p, q) /\ UNCHANGED shared
  <1>1. /\ Take["gil"] = "take_gil" /\ Take["mutex"] = "take_mutex" /\ Take["op"] = "take_op"
        /\ "gil" \in Locks /\ "mutex" \in Locks /\ "op" \in Locks
    BY DEF Take, Locks
  <1>2. \A k \in Locks : Goes(p, Take[k], q) =>
          /\ Free(k) /\ holder' = [holder EXCEPT ![k] = t]
          /\ Moves(t, p, q) /\ UNCHANGED shared
    BY LockHeads
  <1>3. Goes(p, Take["gil"], q) =>
          /\ Free("gil") /\ holder' = [holder EXCEPT !["gil"] = t]
          /\ Moves(t, p, q) /\ UNCHANGED shared
    BY <1>1, <1>2, Zenon
  <1>4. Goes(p, Take["mutex"], q) =>
          /\ Free("mutex") /\ holder' = [holder EXCEPT !["mutex"] = t]
          /\ Moves(t, p, q) /\ UNCHANGED shared
    BY <1>1, <1>2, Zenon
  <1>5. Goes(p, Take["op"], q) =>
          /\ Free("op") /\ holder' = [holder EXCEPT !["op"] = t]
          /\ Moves(t, p, q) /\ UNCHANGED shared
    BY <1>1, <1>2, Zenon
  <1> QED BY <1>1, <1>3, <1>4, <1>5

\* A task for OMP-Main, which puts or gets the layer.
Enqueues(t, q) ==
  /\ todo' = [todo EXCEPT ![t] = q] /\ on' = [on EXCEPT ![t].l = @ + 1]
  /\ UNCHANGED <<mem, unpersisted, rows, file, queue, holder, dropping>>
PutQueued(t) ==
  omp' = Append(omp, [put |-> TRUE, g |-> on[t].g, l |-> on[t].l]) /\ loads' = loads
GetQueued(t) == loads' = loads \cup {Work(on[t].g, on[t].l)} /\ omp' = omp

\* The steps that queue, write, remove or look something up.
LEMMA DataHeads ==
  ASSUME NEW t, NEW p, NEW q, todo[t] = p, Step(t)
  PROVE  /\ \A s \in {"mark_row", "remove_row"} : Goes(p, s, q) =>
              /\ holder' = [holder EXCEPT !["op"] = t]
              /\ queue' = Append(queue, [op |-> s, g |-> on[t].g]) /\ Moves(t, p, q)
              /\ UNCHANGED <<mem, unpersisted, rows, file, loads, omp, dropping>>
         /\ Goes(p, "submit", q) =>
              /\ queue' = Append(queue, [op |-> "submit", g |-> on[t].g]) /\ Moves(t, p, q)
              /\ UNCHANGED <<mem, unpersisted, rows, file, holder, loads, omp, dropping>>
         /\ Goes(p, "queue_put", q) => Enqueues(t, q) /\ PutQueued(t)
         /\ Goes(p, "queue_get", q) => Enqueues(t, q) /\ GetQueued(t)
         /\ Goes(p, "queue_retry", q) =>
              /\ omp' = Append(omp, [put |-> FALSE, g |-> on[t].g, l |-> on[t].l])
              /\ Moves(t, p, q)
              /\ UNCHANGED <<mem, unpersisted, rows, file, queue, holder, loads, dropping>>
         /\ Goes(p, "forget", q) =>
              /\ IF rows[on[t].g] = 1 THEN Moves(t, p, q) ELSE Moves(t, p, RemoveRow \o q)
              /\ queue = <<>> /\ Unlock("op") /\ UNCHANGED shared
         /\ Goes(p, "dropped", q) =>
              /\ dropping' = dropping \ {on[t].g} /\ Moves(t, p, q)
              /\ UNCHANGED <<mem, unpersisted, rows, file, queue, holder, loads, omp>>
  <1>1. ASSUME NEW s \in {"mark_row", "remove_row"}, Goes(p, s, q)
        PROVE  /\ holder' = [holder EXCEPT !["op"] = t]
               /\ queue' = Append(queue, [op |-> s, g |-> on[t].g]) /\ Moves(t, p, q)
               /\ UNCHANGED <<mem, unpersisted, rows, file, loads, omp, dropping>>
    <2>1. Submit(t) BY <1>1, Takes DEF Goes
    <2> QED BY <1>1, <2>1 DEF Submit, At, Goes, Moves, Advance, memVars, diskVars, tasks
  <1>2. ASSUME Goes(p, "submit", q)
        PROVE  /\ queue' = Append(queue, [op |-> "submit", g |-> on[t].g]) /\ Moves(t, p, q)
               /\ UNCHANGED <<mem, unpersisted, rows, file, holder, loads, omp, dropping>>
    <2>1. Submit(t) BY <1>2, Takes DEF Goes
    <2> QED BY <1>2, <2>1 DEF Submit, At, Goes, Moves, Advance, memVars, diskVars, tasks
  <1>3. ASSUME Goes(p, "queue_put", q) PROVE Enqueues(t, q) /\ PutQueued(t)
    <2>1. Enqueue(t) BY <1>3, Takes DEF Goes
    <2> QED BY <1>3, <2>1 DEF Enqueue, Enqueues, PutQueued, At, Goes, memVars, diskVars
  <1>6. ASSUME Goes(p, "queue_get", q) PROVE Enqueues(t, q) /\ GetQueued(t)
    <2>1. Enqueue(t) BY <1>6, Takes DEF Goes
    <2> QED BY <1>6, <2>1 DEF Enqueue, Enqueues, GetQueued, At, Goes, memVars, diskVars
  <1>7. ASSUME Goes(p, "queue_retry", q)
        PROVE  /\ omp' = Append(omp, [put |-> FALSE, g |-> on[t].g, l |-> on[t].l])
               /\ Moves(t, p, q)
               /\ UNCHANGED <<mem, unpersisted, rows, file, queue, holder, loads, dropping>>
    <2>1. Requeue(t) BY <1>7, Takes DEF Goes
    <2> QED BY <1>7, <2>1 DEF Requeue, Goes, Moves, Advance, memVars, diskVars
  <1>4. ASSUME Goes(p, "forget", q)
        PROVE  /\ IF rows[on[t].g] = 1 THEN Moves(t, p, q) ELSE Moves(t, p, RemoveRow \o q)
               /\ queue = <<>> /\ Unlock("op") /\ UNCHANGED shared
    <2>1. Forget(t) BY <1>4, Takes DEF Goes
    <2> QED BY <1>4, <2>1 DEF Forget, Goes, Moves, Advance, shared
  <1>5. ASSUME Goes(p, "dropped", q)
        PROVE  /\ dropping' = dropping \ {on[t].g} /\ Moves(t, p, q)
               /\ UNCHANGED <<mem, unpersisted, rows, file, queue, holder, loads, omp>>
    <2>1. Dropped(t) BY <1>5, Takes DEF Goes
    <2> QED BY <1>5, <2>1 DEF Dropped, Goes, Moves, Advance, memVars, diskVars, tasks
  <1> QED BY <1>1, <1>2, <1>3, <1>4, <1>5, <1>6, <1>7

\* A hit goes on to q, a miss to r.
Looks(t, p, q, r) ==
  /\ UNCHANGED shared
  /\ IF on[t].l \in mem[on[t].g]
     THEN Moves(t, p, q) /\ Unlock("mutex")
     ELSE Moves(t, p, r) /\ UNCHANGED holder

LEMMA MemHeads ==
  ASSUME NEW t, NEW p, NEW q, todo[t] = p, Step(t)
  PROVE  /\ Goes(p, "mark", q) =>
              /\ unpersisted' = unpersisted \ {on[t].g} /\ Moves(t, p, q)
              /\ UNCHANGED <<mem, rows, file, queue, holder, loads, omp, dropping>>
         /\ Goes(p, "unlink", q) =>
              /\ mem' = [mem EXCEPT ![on[t].g] = {}]
              /\ unpersisted' = unpersisted \ {on[t].g} /\ Moves(t, p, q) /\ Unlock("mutex")
              /\ UNCHANGED <<rows, file, queue, loads, omp, dropping>>
         /\ Goes(p, "evict", q) =>
              /\ mem' = [mem EXCEPT ![on[t].g] = {}] /\ Free("mutex")
              /\ unpersisted' = unpersisted \ {on[t].g} /\ Moves(t, p, q)
              /\ UNCHANGED <<rows, file, queue, holder, loads, omp, dropping>>
         /\ Goes(p, "put", q) =>
              /\ mem' = [mem EXCEPT ![on[t].g] = @ \cup {on[t].l}] /\ Free("mutex")
              /\ unpersisted' = unpersisted \cup {on[t].g} /\ Moves(t, p, q)
              /\ UNCHANGED <<rows, file, queue, holder, loads, omp, dropping>>
         /\ Goes(p, "look", q) => Looks(t, p, q, L1)
         /\ Goes(p, "look_again", q) => Looks(t, p, q, M1)
         /\ Goes(p, "load", q) \/ Goes(p, "load_again", q) =>
              \/ ReadFile(t) /\ Moves(t, p, q)
              \/ NotFound(t) /\ Goes(p, "load", q) /\ Moves(t, p, N1)
         /\ Goes(p, "save", q) =>
              \/ WriteFile(t)
              \/ /\ UNCHANGED shared /\ UNCHANGED holder
                 /\ \/ on[t].l > NumLayers /\ Moves(t, p, q)
                    \/ on[t].g \notin unpersisted /\ Moves(t, p, P6)
  <1>1. ASSUME NEW s \in {"mark", "unlink", "evict"}, Goes(p, s, q)
        PROVE  /\ unpersisted' = unpersisted \ {on[t].g} /\ Moves(t, p, q)
               /\ UNCHANGED <<rows, file, queue, loads, omp, dropping>>
               /\ s = "mark" => UNCHANGED <<mem, holder>>
               /\ s = "unlink" => mem' = [mem EXCEPT ![on[t].g] = {}] /\ Unlock("mutex")
               /\ s = "evict" => /\ mem' = [mem EXCEPT ![on[t].g] = {}] /\ Free("mutex")
                                 /\ UNCHANGED holder
    <2>1. Mark(t) BY <1>1, Takes DEF Goes
    <2> QED BY <1>1, <2>1 DEF Mark, At, Goes, Moves, Advance, diskVars, tasks
  <1>2. ASSUME Goes(p, "put", q)
        PROVE  /\ mem' = [mem EXCEPT ![on[t].g] = @ \cup {on[t].l}] /\ Free("mutex")
               /\ unpersisted' = unpersisted \cup {on[t].g} /\ Moves(t, p, q)
               /\ UNCHANGED <<rows, file, queue, holder, loads, omp, dropping>>
    <2>1. Put(t) BY <1>2, Takes DEF Goes
    <2> QED BY <1>2, <2>1 DEF Put, Goes, Moves, Advance, diskVars, tasks
  <1>3. ASSUME Goes(p, "look", q) PROVE Looks(t, p, q, L1)
    <2>1. Look(t) BY <1>3, Takes DEF Goes
    <2> QED BY <1>3, <2>1 DEF Look, Looks, At, Goes, Moves, Advance, shared, L1
  <1>6. ASSUME Goes(p, "look_again", q) PROVE Looks(t, p, q, M1)
    <2>1. Look(t) BY <1>6, Takes DEF Goes
    <2> QED BY <1>6, <2>1 DEF Look, Looks, At, Goes, Moves, Advance, shared, M1
  <1>4. ASSUME Goes(p, "load", q) \/ Goes(p, "load_again", q)
        PROVE  \/ ReadFile(t) /\ Moves(t, p, q)
               \/ NotFound(t) /\ Goes(p, "load", q) /\ Moves(t, p, N1)
    <2>1. ReadFile(t) \/ NotFound(t) BY <1>4, Takes DEF Goes
    <2>2. ReadFile(t) => Moves(t, p, q) BY <1>4 DEF ReadFile, Goes, Moves, Advance
    <2>3. NotFound(t) => Goes(p, "load", q) /\ Moves(t, p, N1)
      BY <1>4 DEF NotFound, At, Goes, Moves, N1
    <2> QED BY <2>1, <2>2, <2>3
  <1>5. ASSUME Goes(p, "save", q), ~WriteFile(t)
        PROVE  /\ UNCHANGED shared /\ UNCHANGED holder
               /\ \/ on[t].l > NumLayers /\ Moves(t, p, q)
                  \/ on[t].g \notin unpersisted /\ Moves(t, p, P6)
    <2>1. Saved(t) BY <1>5, Takes DEF Goes
    <2> QED BY <1>5, <2>1 DEF Saved, Goes, Moves, Advance, shared, P6
  <1> QED BY <1>1, <1>2, <1>3, <1>4, <1>5, <1>6

-----------------------------------------------------------------------------
(* The steps of a thread, by where it is.                                  *)

\* mutex_ stays with whoever has it.
SameMutex == holder' \in [Locks -> Threads \cup {Nobody}] /\ holder'["mutex"] = holder["mutex"]
TakeMutex(t) == Free("mutex") /\ holder' = [holder EXCEPT !["mutex"] = t]

\* A handler: steps that touch a lock only, waits for TZ-REC, the loops of
\* persist_groups, the row evict_groups removes, and what changes Mem.
HPlain(h) ==
  /\ UNCHANGED shared
  /\ \/ /\ SameMutex
        /\ \/ Moves(h, E1, E2) \/ Moves(h, E3, E4) \/ Moves(h, S1, S2) \/ Moves(h, S2, <<>>)
           \/ Moves(h, C2, C3) \/ Moves(h, Py, <<>>)
     \/ TakeMutex(h) /\ (Moves(h, P1, P2) \/ Moves(h, E2, E3) \/ Moves(h, C1, C2))
     \/ Unlock("mutex") /\ (Moves(h, P6, Py) \/ Moves(h, C3, <<>>))
HSync(h) ==
  /\ UNCHANGED shared /\ SameMutex /\ queue = <<>>
  /\ Moves(h, P5, P6) \/ Moves(h, E7, E8)
HSaved(h) ==
  /\ UNCHANGED shared /\ SameMutex
  /\ \/ on[h].l > NumLayers /\ Moves(h, P2, P3)
     \/ on[h].g \notin unpersisted /\ Moves(h, P2, P6)
HForget(h) ==
  /\ UNCHANGED shared /\ SameMutex
  /\ \/ rows[on[h].g] = 1 /\ Moves(h, E4, E8)
     \/ rows[on[h].g] # 1 /\ Moves(h, E4, E6)
HQueue(h) ==
  /\ UNCHANGED <<mem, unpersisted, rows, file, loads, omp, dropping>> /\ SameMutex
  /\ \/ queue' = Append(queue, [op |-> "mark_row", g |-> on[h].g]) /\ Moves(h, P4, P5)
     \/ queue' = Append(queue, [op |-> "remove_row", g |-> on[h].g]) /\ Moves(h, E6, E7)
HMark(h) ==
  /\ UNCHANGED <<mem, rows, file, queue, loads, omp, dropping>> /\ SameMutex
  /\ unpersisted' = unpersisted \ {on[h].g} /\ Moves(h, P3, P4)
HClear(h) ==
  /\ UNCHANGED <<rows, file, queue, loads, omp, dropping>>
  /\ mem' = [mem EXCEPT ![on[h].g] = {}] /\ unpersisted' = unpersisted \ {on[h].g}
  /\ \/ Unlock("mutex") /\ Moves(h, E8, Py)
     \/ Free("mutex") /\ SameMutex /\ Moves(h, D1, D2)
HDropped(h) ==
  /\ UNCHANGED <<mem, unpersisted, rows, file, queue, loads, omp>> /\ SameMutex
  /\ dropping' = dropping \ {on[h].g} /\ Moves(h, D2, <<>>)
HandlerMove(h) == \/ HPlain(h) \/ HSync(h) \/ HSaved(h) \/ HForget(h) \/ HQueue(h)
                  \/ HMark(h) \/ HClear(h) \/ HDropped(h) \/ (todo[h] = P2 /\ WriteFile(h))

\* Locks other than mutex_ change hands without mutex_ doing so.
LEMMA LockTypes ==
  ASSUME Types, NEW k \in {"gil", "op"}, NEW t \in Threads \cup {Nobody},
         holder' = [holder EXCEPT ![k] = t]
  PROVE  SameMutex
  BY DEF Types, DataTypes, ThreadTypes, SameMutex, Locks

\* Every step of a handler is one of these.
LEMMA HandlerSteps ==
  ASSUME Types, NEW h \in Handlers, HandlerForm(h), Step(h)
  PROVE  HandlerMove(h)
  <1>1. h \in Threads \cup {Nobody} /\ Nobody \in Threads \cup {Nobody} BY DEF Threads
  <1>2. UNCHANGED holder => SameMutex BY DEF SameMutex, Types, DataTypes, ThreadTypes
  <1>3. holder' = [holder EXCEPT !["op"] = h] => SameMutex BY <1>1, LockTypes
  <1>4. holder' = [holder EXCEPT !["gil"] = h] => SameMutex BY <1>1, LockTypes
  <1>5. Unlock("op") \/ Unlock("gil") => SameMutex BY <1>1, LockTypes DEF Unlock
  <1>7. CASE todo[h] = P1
    <2>1. Goes(P1, "take_mutex", P2) BY PersistSteps
    <2>2. /\ Free("mutex") /\ holder' = [holder EXCEPT !["mutex"] = h]
          /\ Moves(h, P1, P2) /\ UNCHANGED shared
      BY <1>7, <2>1, TakeHeads
    <2> QED BY <2>2 DEF HPlain, TakeMutex, HandlerMove
  <1>8. CASE todo[h] = P2
    BY <1>8, <1>2, MemHeads, PersistSteps DEF HSaved, HandlerMove
  <1>9. CASE todo[h] = P3
    <2>1. Goes(P3, "mark", P4) BY PersistSteps
    <2>2. /\ unpersisted' = unpersisted \ {on[h].g} /\ Moves(h, P3, P4)
          /\ UNCHANGED <<mem, rows, file, queue, holder, loads, omp, dropping>>
      BY <1>9, <2>1, MemHeads
    <2> QED BY <1>2, <2>2 DEF HMark, HandlerMove
  <1>10. CASE todo[h] = P4
    BY <1>10, <1>3, DataHeads, PersistSteps DEF HQueue, HandlerMove
  <1>11. CASE todo[h] = P5
    BY <1>11, <1>5, LockHeads, PersistSteps DEF HSync, HandlerMove
  <1>12. CASE todo[h] = P6
    BY <1>12, LockHeads, PersistSteps DEF HPlain, HandlerMove
  <1>13. CASE todo[h] = Py
    BY <1>13, <1>2, LockHeads, PersistSteps DEF HPlain, HandlerMove
  <1>14. CASE todo[h] = E1
    BY <1>14, <1>2, LockHeads, EvictSteps DEF HPlain, HandlerMove
  <1>15. CASE todo[h] = E2
    <2>1. Goes(E2, "take_mutex", E3) BY EvictSteps
    <2>2. /\ Free("mutex") /\ holder' = [holder EXCEPT !["mutex"] = h]
          /\ Moves(h, E2, E3) /\ UNCHANGED shared
      BY <1>15, <2>1, TakeHeads
    <2> QED BY <2>2 DEF HPlain, TakeMutex, HandlerMove
  <1>16. CASE todo[h] = E3
    <2>1. Goes(E3, "take_op", E4) BY EvictSteps
    <2>2. /\ Free("op") /\ holder' = [holder EXCEPT !["op"] = h]
          /\ Moves(h, E3, E4) /\ UNCHANGED shared
      BY <1>16, <2>1, TakeHeads
    <2> QED BY <1>3, <2>2 DEF HPlain, HandlerMove
  <1>18. CASE todo[h] = E4
    <2>1. Goes(E4, "forget", E8) BY EvictSteps
    <2>2. /\ IF rows[on[h].g] = 1 THEN Moves(h, E4, E8) ELSE Moves(h, E4, RemoveRow \o E8)
          /\ Unlock("op") /\ UNCHANGED shared
      BY <1>18, <2>1, DataHeads
    <2>3. RemoveRow \o E8 = E6 BY EvictSteps DEF Goes
    <2>4. HForget(h) BY <1>5, <2>2, <2>3 DEF HForget
    <2> QED BY <2>4 DEF HandlerMove
  <1>19. CASE todo[h] = E6
    BY <1>19, <1>3, DataHeads, EvictSteps DEF HQueue, HandlerMove
  <1>20. CASE todo[h] = E7
    BY <1>20, <1>5, LockHeads, EvictSteps DEF HSync, HandlerMove
  <1>21. CASE todo[h] = E8
    <2>1. Goes(E8, "unlink", Py) BY EvictSteps
    <2>2. /\ mem' = [mem EXCEPT ![on[h].g] = {}]
          /\ unpersisted' = unpersisted \ {on[h].g} /\ Moves(h, E8, Py) /\ Unlock("mutex")
          /\ UNCHANGED <<rows, file, queue, loads, omp, dropping>>
      BY <1>21, <2>1, MemHeads
    <2> QED BY <2>2 DEF HClear, HandlerMove
  <1>22. CASE todo[h] = D1
    <2>1. Goes(D1, "evict", D2) BY PlainSteps
    <2>2. /\ mem' = [mem EXCEPT ![on[h].g] = {}] /\ Free("mutex")
          /\ unpersisted' = unpersisted \ {on[h].g} /\ Moves(h, D1, D2)
          /\ UNCHANGED <<rows, file, queue, holder, loads, omp, dropping>>
      BY <1>22, <2>1, MemHeads
    <2> QED BY <1>2, <2>2 DEF HClear, HandlerMove
  <1>23. CASE todo[h] = D2
    <2>1. Goes(D2, "dropped", <<>>) BY PlainSteps
    <2>2. /\ dropping' = dropping \ {on[h].g} /\ Moves(h, D2, <<>>)
          /\ UNCHANGED <<mem, unpersisted, rows, file, queue, holder, loads, omp>>
      BY <1>23, <2>1, DataHeads
    <2> QED BY <1>2, <2>2 DEF HDropped, HandlerMove
  <1>24. CASE todo[h] = S1
    <2>1. Goes(S1, "take_gil", S2) BY PlainSteps
    <2>2. /\ Free("gil") /\ holder' = [holder EXCEPT !["gil"] = h]
          /\ Moves(h, S1, S2) /\ UNCHANGED shared
      BY <1>24, <2>1, TakeHeads
    <2> QED BY <1>4, <2>2 DEF HPlain, HandlerMove
  <1>25. CASE todo[h] = S2
    BY <1>25, <1>5, LockHeads, PlainSteps DEF HPlain, HandlerMove
  <1>26. CASE todo[h] = C1
    <2>1. Goes(C1, "take_mutex", C2) BY PlainSteps
    <2>2. /\ Free("mutex") /\ holder' = [holder EXCEPT !["mutex"] = h]
          /\ Moves(h, C1, C2) /\ UNCHANGED shared
      BY <1>26, <2>1, TakeHeads
    <2> QED BY <2>2 DEF HPlain, TakeMutex, HandlerMove
  <1>27. CASE todo[h] = C2
    BY <1>27, <1>2, LockHeads, PlainSteps DEF HPlain, HandlerMove
  <1>28. CASE todo[h] = C3
    BY <1>28, LockHeads, PlainSteps DEF HPlain, HandlerMove
  <1>29. CASE todo[h] = <<>>
    BY <1>29, Takes DEF HPlain, HandlerMove
  <1> QED
    BY <1>7, <1>8, <1>9, <1>10, <1>11, <1>12, <1>13, <1>14, <1>15, <1>16, <1>18, <1>19, <1>20, <1>21, <1>22, <1>23, <1>24, <1>25, <1>26, <1>27, <1>28, <1>29
    DEF HandlerForm, PersistPts, EvictPts, DropPts, PlainPts

\* The worker's own thread: nothing but locks, a wait for the Record, a task for
\* OMP-Main, put_finish.
MPlain ==
  /\ UNCHANGED shared /\ SameMutex
  /\ \/ Moves(Main, X1, X2) \/ Moves(Main, X2, X3) \/ Moves(Main, S1, S2) \/ Moves(Main, S2, <<>>)
     \/ Moves(Main, F1, F2) \/ Moves(Main, F2, F3) \/ (queue = <<>> /\ Moves(Main, F3, Py))
     \/ Moves(Main, Py, <<>>)
     \/ /\ on[Main].l \in 2..(NumLayers + 1)
        /\ Moves(Main, PyRest(on[Main].l), PutRest(on[Main].l))
MTask ==
  /\ on' = [on EXCEPT ![Main].l = @ + 1] /\ on[Main].l \in Layers
  /\ UNCHANGED <<mem, unpersisted, rows, file, queue, holder, dropping>>
MPut ==
  /\ todo[Main] = PutRest(on[Main].l) /\ todo' = [todo EXCEPT ![Main] = PyRest(on[Main].l + 1)]
  /\ MTask /\ PutQueued(Main)
MGet == todo[Main] = Unzip /\ todo' = [todo EXCEPT ![Main] = Py] /\ MTask /\ GetQueued(Main)
MSubmit ==
  /\ queue' = Append(queue, [op |-> "submit", g |-> on[Main].g])
  /\ on[Main].l = NumLayers + 1 /\ Moves(Main, PutRest(NumLayers + 1), F1)
  /\ UNCHANGED <<mem, unpersisted, rows, file, holder, loads, omp, dropping>>

\* The points at which the worker's thread works for no group.
IdlePts == {X1, X2, S1, S2}

\* Every step of the worker's own thread is one of these.
LEMMA MainSteps ==
  ASSUME Types, MainForm, Step(Main)
  PROVE  /\ on[Main].g \in Groups \/ todo[Main] \in IdlePts
         /\ MPlain \/ MPut \/ MGet \/ MSubmit
  <1>1. Main \in Threads \cup {Nobody} /\ Nobody \in Threads \cup {Nobody} BY DEF Threads
  <1>2. UNCHANGED holder => SameMutex BY DEF SameMutex, Types, DataTypes, ThreadTypes
  <1>3. \A k \in {"op", "gil"} : holder' = [holder EXCEPT ![k] = Main] => SameMutex
    BY <1>1, LockTypes
  <1>4. Unlock("op") \/ Unlock("gil") => SameMutex BY <1>1, LockTypes DEF Unlock
  <1>5. todo[Main] # <<>> /\ Head(todo[Main]) # "exit" BY Takes
  <1>6. todo[Main] # X3 BY <1>5, TaskSteps DEF Goes
  <1>7. CASE todo[Main] = X1
    <2>1. Goes(X1, "take_op", X2) BY TaskSteps
    <2>2. MPlain BY <1>3, <1>7, <2>1, TakeHeads DEF MPlain
    <2> QED BY <1>7, <2>2 DEF IdlePts
  <1>8. CASE todo[Main] = X2
    <2>1. Goes(X2, "sync", X3) BY TaskSteps
    <2>2. MPlain BY <1>4, <1>8, <2>1, LockHeads DEF MPlain
    <2> QED BY <1>8, <2>2 DEF IdlePts
  <1>13. CASE todo[Main] = S1
    <2>1. Goes(S1, "take_gil", S2) BY PlainSteps
    <2>2. MPlain BY <1>3, <1>13, <2>1, TakeHeads DEF MPlain
    <2> QED BY <1>13, <2>2 DEF IdlePts
  <1>14. CASE todo[Main] = S2
    <2>1. Goes(S2, "count", <<>>) BY PlainSteps
    <2>2. MPlain BY <1>4, <1>14, <2>1, LockHeads DEF MPlain
    <2> QED BY <1>14, <2>2 DEF IdlePts
  <1>15. CASE todo[Main] = F1 /\ on[Main].g \in Groups
    <2>1. Goes(F1, "py", F2) BY TaskSteps
    <2>2. MPlain BY <1>2, <1>15, <2>1, LockHeads DEF MPlain
    <2> QED BY <1>15, <2>2
  <1>16. CASE todo[Main] = F2 /\ on[Main].g \in Groups
    <2>1. Goes(F2, "take_op", F3) BY TaskSteps
    <2>2. MPlain BY <1>3, <1>16, <2>1, TakeHeads DEF MPlain
    <2> QED BY <1>16, <2>2
  <1>17. CASE todo[Main] = F3 /\ on[Main].g \in Groups
    <2>1. Goes(F3, "sync", Py) BY TaskSteps
    <2>2. MPlain BY <1>4, <1>17, <2>1, LockHeads DEF MPlain
    <2> QED BY <1>17, <2>2
  <1>9. CASE todo[Main] = Py /\ on[Main].g \in Groups
    <2>1. Goes(Py, "py", <<>>) BY TaskSteps
    <2>2. MPlain BY <1>2, <1>9, <2>1, LockHeads DEF MPlain
    <2> QED BY <1>9, <2>2
  <1>10. CASE todo[Main] = Unzip /\ on[Main].g \in Groups /\ on[Main].l \in Layers
    <2>1. Goes(Unzip, "queue_get", Py) BY TaskSteps
    <2>2. Enqueues(Main, Py) /\ GetQueued(Main) BY <1>10, <2>1, DataHeads
    <2>3. MGet BY <1>10, <2>2 DEF MGet, MTask, Enqueues
    <2> QED BY <1>10, <2>3
  <1>11. CASE /\ on[Main].g \in Groups /\ on[Main].l \in 2..(NumLayers + 1)
              /\ todo[Main] = PyRest(on[Main].l)
    <2> DEFINE p == PyRest(on[Main].l)
               q == PutRest(on[Main].l)
    <2>1. Goes(p, "py", q) BY <1>11, SaveSteps
    <2>2. todo[Main] = p BY <1>11
    <2> HIDE DEF p, q
    <2>3. UNCHANGED holder /\ Moves(Main, p, q) /\ UNCHANGED shared BY <2>1, <2>2, LockHeads
    <2>4. MPlain BY <1>2, <1>11, <2>3 DEF MPlain, p, q
    <2> QED BY <1>11, <2>4
  <1>12. CASE /\ on[Main].g \in Groups /\ on[Main].l \in 1..(NumLayers + 1)
              /\ todo[Main] = PutRest(on[Main].l)
    <2>1. NumLayers \in Nat BY StoreAssumption DEF NumLayers
    <2>2. CASE on[Main].l \in Layers
      <3> DEFINE p == PutRest(on[Main].l)
                 q == PyRest(on[Main].l + 1)
      <3>1. Goes(p, "queue_put", q) BY <2>2, SaveSteps
      <3>2. todo[Main] = p BY <1>12
      <3> HIDE DEF p, q
      <3>4. Enqueues(Main, q) /\ PutQueued(Main) BY <3>1, <3>2, DataHeads
      <3>5. MPut BY <2>2, <3>2, <3>4 DEF MPut, MTask, Enqueues, p, q
      <3> QED BY <1>12, <3>5
    <2>3. CASE on[Main].l = NumLayers + 1
      <3>1. Goes(PutRest(NumLayers + 1), "submit", F1) BY SaveSteps
      <3>2. todo[Main] = PutRest(NumLayers + 1) BY <1>12, <2>3
      <3>3. MSubmit BY <2>3, <3>1, <3>2, DataHeads DEF MSubmit
      <3> QED BY <1>12, <3>3
    <2> QED BY <1>12, <2>1, <2>2, <2>3 DEF Layers
  <1> QED
    BY <1>5, <1>6, <1>7, <1>8, <1>9, <1>10, <1>11, <1>12, <1>13, <1>14, <1>15, <1>16, <1>17
    DEF MainForm, StopPts, FlushPts

\* OMP-Main: nothing but locks and the guard, a miss, a put, a file read, a load
\* that is tried again.
OPlain ==
  /\ UNCHANGED shared
  /\ \/ /\ SameMutex
        /\ \/ Moves(Omp, G1, G2) \/ Moves(Omp, G4, <<>>) \/ Moves(Omp, L1, L2)
           \/ Moves(Omp, R1, R2) \/ Moves(Omp, M1, M2) \/ Moves(Omp, N1, N2)
     \/ TakeMutex(Omp) /\ (Moves(Omp, G2, G3) \/ Moves(Omp, R2, R3))
     \/ Unlock("mutex") /\ (Moves(Omp, G3, G4) \/ Moves(Omp, R3, G4))
OMiss ==
  /\ UNCHANGED shared /\ SameMutex /\ on[Omp].l \notin mem[on[Omp].g]
  /\ Moves(Omp, G3, L1) \/ Moves(Omp, R3, M1)
OPut ==
  /\ mem' = [mem EXCEPT ![on[Omp].g] = @ \cup {on[Omp].l}] /\ Free("mutex")
  /\ unpersisted' = unpersisted \cup {on[Omp].g} /\ Moves(Omp, PutTask, <<>>)
  /\ UNCHANGED <<rows, file, queue, holder, loads, omp, dropping>>
OLoad == ReadFile(Omp) /\ (Moves(Omp, L2, G4) \/ Moves(Omp, M2, G4))
ONot == NotFound(Omp) /\ Moves(Omp, L2, N1)
ORetry ==
  /\ omp' = Append(omp, [put |-> FALSE, g |-> on[Omp].g, l |-> on[Omp].l])
  /\ Moves(Omp, N2, <<>>)
  /\ UNCHANGED <<mem, unpersisted, rows, file, queue, holder, loads, dropping>>

\* Every step of OMP-Main is one of these.
LEMMA OmpSteps ==
  ASSUME Types, OmpForm, Step(Omp)
  PROVE  /\ on[Omp].g \in Groups /\ on[Omp].l \in Layers
         /\ OPlain \/ OMiss \/ OPut \/ OLoad \/ ONot \/ ORetry
  <1>1. Omp \in Threads \cup {Nobody} /\ Nobody \in Threads \cup {Nobody} BY DEF Threads
  <1>2. UNCHANGED holder => SameMutex BY DEF SameMutex, Types, DataTypes, ThreadTypes
  <1>3. holder' = [holder EXCEPT !["op"] = Omp] => SameMutex BY <1>1, LockTypes
  <1>5. todo[Omp] # <<>> BY Takes
  <1>6. /\ on[Omp].g \in Groups /\ on[Omp].l \in Layers
        /\ todo[Omp] \in {G1, G2, G3, G4, L1, L2, N1, N2, R1, R2, R3, M1, M2, PutTask}
    BY <1>5 DEF OmpForm, GetPts, MissPts
  <1>7. CASE todo[Omp] = G1
    <2>1. Goes(G1, "guard", G2) BY TaskSteps
    <2> QED BY <1>2, <1>6, <1>7, <2>1, LockHeads DEF OPlain
  <1>8. CASE todo[Omp] = G2
    <2>1. Goes(G2, "take_mutex", G3) BY TaskSteps
    <2> QED BY <1>6, <1>8, <2>1, TakeHeads DEF OPlain, TakeMutex
  <1>9. CASE todo[Omp] = G3
    <2>1. Goes(G3, "look", G4) BY TaskSteps
    <2>2. Looks(Omp, G3, G4, L1) BY <1>9, <2>1, MemHeads
    <2> QED BY <1>2, <1>6, <2>2 DEF OPlain, OMiss, Looks
  <1>10. CASE todo[Omp] = G4
    <2>1. Goes(G4, "unguard", <<>>) BY TaskSteps
    <2> QED BY <1>2, <1>6, <1>10, <2>1, LockHeads DEF OPlain
  <1>11. CASE todo[Omp] = L1
    <2>1. Goes(L1, "take_op", L2) BY TaskSteps
    <2> QED BY <1>3, <1>6, <1>11, <2>1, TakeHeads DEF OPlain
  <1>12. CASE todo[Omp] = L2
    <2>1. Goes(L2, "load", G4) BY TaskSteps
    <2> QED BY <1>6, <1>12, <2>1, MemHeads DEF OLoad, ONot
  <1>13. CASE todo[Omp] = N1
    <2>1. Goes(N1, "unguard", N2) BY TaskSteps
    <2> QED BY <1>2, <1>6, <1>13, <2>1, LockHeads DEF OPlain
  <1>14. CASE todo[Omp] = N2
    <2>1. Goes(N2, "queue_retry", <<>>) BY TaskSteps
    <2> QED BY <1>6, <1>14, <2>1, DataHeads DEF ORetry
  <1>15. CASE todo[Omp] = R1
    <2>1. Goes(R1, "guard", R2) BY TaskSteps
    <2> QED BY <1>2, <1>6, <1>15, <2>1, LockHeads DEF OPlain
  <1>16. CASE todo[Omp] = R2
    <2>1. Goes(R2, "take_mutex", R3) BY TaskSteps
    <2> QED BY <1>6, <1>16, <2>1, TakeHeads DEF OPlain, TakeMutex
  <1>17. CASE todo[Omp] = R3
    <2>1. Goes(R3, "look_again", G4) BY TaskSteps
    <2>2. Looks(Omp, R3, G4, M1) BY <1>17, <2>1, MemHeads
    <2> QED BY <1>2, <1>6, <2>2 DEF OPlain, OMiss, Looks
  <1>18. CASE todo[Omp] = M1
    <2>1. Goes(M1, "take_op", M2) BY TaskSteps
    <2> QED BY <1>3, <1>6, <1>18, <2>1, TakeHeads DEF OPlain
  <1>19. CASE todo[Omp] = M2
    <2>1. Goes(M2, "load_again", G4) BY TaskSteps
    <2>2. ~Goes(M2, "load", G4) BY <2>1 DEF Goes
    <2> QED BY <1>6, <1>19, <2>1, <2>2, MemHeads DEF OLoad
  <1>20. CASE todo[Omp] = PutTask
    <2>1. Goes(PutTask, "put", <<>>) BY TaskSteps
    <2> QED BY <1>6, <1>20, <2>1, MemHeads DEF OPut
  <1> QED BY <1>6, <1>7, <1>8, <1>9, <1>10, <1>11, <1>12, <1>13, <1>14, <1>15, <1>16, <1>17,
             <1>18, <1>19, <1>20

-----------------------------------------------------------------------------
(* Where the threads are: Forms is inductive by itself.                    *)

\* The first step of every point of a handler's programs.
LEMMA HandlerHeads ==
  /\ P1 # <<>> /\ P2 # <<>> /\ P3 # <<>> /\ P4 # <<>> /\ P5 # <<>> /\ P6 # <<>> /\ Py # <<>>
  /\ E1 # <<>> /\ E2 # <<>> /\ E3 # <<>> /\ E4 # <<>> /\ E6 # <<>> /\ E7 # <<>>
  /\ E8 # <<>> /\ D1 # <<>> /\ D2 # <<>> /\ S1 # <<>> /\ S2 # <<>> /\ C1 # <<>> /\ C2 # <<>>
  /\ C3 # <<>>
  /\ Head(P1) = "take_mutex" /\ Head(P2) = "save" /\ Head(P3) = "mark"
  /\ Head(P4) = "mark_row" /\ Head(P5) = "sync" /\ Head(P6) = "drop_mutex" /\ Head(Py) = "py"
  /\ Head(E1) = "unguarded" /\ Head(E2) = "take_mutex" /\ Head(E3) = "take_op"
  /\ Head(E4) = "forget" /\ Head(E6) = "remove_row" /\ Head(E7) = "sync"
  /\ Head(E8) = "unlink" /\ Head(D1) = "evict" /\ Head(D2) = "dropped"
  /\ Head(S1) = "take_gil" /\ Head(S2) = "count"
  /\ Head(C1) = "take_mutex" /\ Head(C2) = "py" /\ Head(C3) = "drop_mutex"
  BY PersistSteps, EvictSteps, PlainSteps DEF Goes

\* Outside mutex_.
LEMMA NotMutex ==
  \A p \in {<<>>, P1, Py, E1, E2, D1, D2, S1, S2, C1} : p \notin MutexPts
  BY HandlerHeads, HandlerApart DEF MutexPts

\* What a move does to the thread that moves and to the others.
Others(t) == \A u \in Threads : u # t => todo'[u] = todo[u] /\ on'[u] = on[u]

LEMMA MovesFacts ==
  ASSUME Types, NEW t \in Threads, NEW p, NEW q, Moves(t, p, q)
  PROVE  /\ todo' = [u \in Threads |-> todo'[u]] /\ on' \in [Threads -> Works] /\ Others(t)
         /\ todo[t] = p /\ todo'[t] = q /\ on'[t] = IF q = <<>> THEN NoWork ELSE on[t]
  <1>1. NoWork \in Works BY DEF NoWork, Works
  <1>2. todo' = [u \in Threads |-> IF u = t THEN q ELSE todo[u]] BY DEF Types, DataTypes, ThreadTypes, Moves, Then
  <1>3. on' = [u \in Threads |-> IF u = t /\ q = <<>> THEN NoWork ELSE on[u]]
    <2>1. on = [u \in Threads |-> on[u]] BY DEF Types, DataTypes, ThreadTypes
    <2> QED BY <2>1 DEF Moves, Then
  <1> QED BY <1>1, <1>2, <1>3 DEF Others, Moves, Types, DataTypes, ThreadTypes

\* The same for a call that starts.
LEMMA EnterFacts ==
  ASSUME Types, NEW t \in Threads, NEW w \in Works, NEW q, Enter(t, w, q)
  PROVE  /\ Types' /\ Others(t)
         /\ todo[t] = <<>> /\ todo'[t] = q /\ on'[t] = w /\ UNCHANGED <<shared, holder>>
  <1>1. UNCHANGED <<shared, holder>> /\ todo[t] = <<>> BY DEF Enter, shared
  <1>2. todo' = [u \in Threads |-> IF u = t THEN q ELSE todo[u]] BY DEF Types, DataTypes, ThreadTypes, Enter
  <1>3. on' = [u \in Threads |-> IF u = t THEN w ELSE on[u]]
    <2>1. on = [u \in Threads |-> on[u]] BY DEF Types, DataTypes, ThreadTypes
    <2> QED BY <2>1 DEF Enter
  <1>4. todo' = [u \in Threads |-> todo'[u]] /\ on' \in [Threads -> Works]
    BY <1>2, <1>3 DEF Types, DataTypes, ThreadTypes
  <1>5. Types'
    <2>1. /\ mem' = mem /\ unpersisted' = unpersisted /\ rows' = rows /\ file' = file
          /\ queue' = queue /\ holder' = holder /\ loads' = loads /\ omp' = omp /\ dropping' = dropping
      BY <1>1 DEF shared, memVars, diskVars, tasks
    <2> QED BY <1>4, <2>1 DEF Types, DataTypes, ThreadTypes
  <1> QED BY <1>1, <1>2, <1>3, <1>5 DEF Others

\* A step of one thread: its own place and mutex_ are all there is to show.
LEMMA FormsKeep ==
  ASSUME Forms, Types', NEW t \in Threads, Others(t),
         t \in Handlers => HandlerForm(t)', t = Main => MainForm', t = Omp => OmpForm',
         InMutex(t)' => holder'["mutex"] = t,
         \A u \in Threads : u # t /\ holder["mutex"] = u => holder'["mutex"] = u
  PROVE  Forms'
  <1>1. Main # Omp /\ Main \notin Handlers /\ Omp \notin Handlers BY StoreAssumption
  <1>2. \A h \in Handlers : HandlerForm(h)'
    <2> SUFFICES ASSUME NEW h \in Handlers PROVE HandlerForm(h)'
      OBVIOUS
    <2>1. CASE h = t BY <2>1
    <2>2. CASE h # t
      <3>1. todo'[h] = todo[h] /\ on'[h] = on[h] BY <2>2 DEF Others, Threads
      <3>2. HandlerForm(h) BY DEF Forms
      <3> QED BY <3>1, <3>2 DEF HandlerForm
    <2> QED BY <2>1, <2>2
  <1>3. MainForm'
    <2>1. CASE t = Main BY <2>1
    <2>2. CASE t # Main
      <3>1. todo'[Main] = todo[Main] /\ on'[Main] = on[Main] BY <2>2 DEF Others, Threads
      <3>2. MainForm BY DEF Forms
      <3> QED BY <3>1, <3>2 DEF MainForm
    <2> QED BY <2>1, <2>2
  <1>4. OmpForm'
    <2>1. CASE t = Omp BY <2>1
    <2>2. CASE t # Omp
      <3>1. todo'[Omp] = todo[Omp] /\ on'[Omp] = on[Omp] BY <2>2 DEF Others, Threads
      <3>2. OmpForm BY DEF Forms
      <3> QED BY <3>1, <3>2 DEF OmpForm
    <2> QED BY <2>1, <2>2
  <1>5. Mutex'
    <2> SUFFICES ASSUME NEW u \in Threads, InMutex(u)' PROVE holder'["mutex"] = u
      BY DEF Mutex
    <2>1. CASE u = t BY <2>1
    <2>2. CASE u # t
      <3>1. todo'[u] = todo[u] BY <2>2 DEF Others
      <3>2. InMutex(u) BY <3>1 DEF InMutex
      <3>3. holder["mutex"] = u BY <3>2 DEF Forms, Mutex
      <3> QED BY <2>2, <3>3
    <2> QED BY <2>1, <2>2
  <1> QED BY <1>2, <1>3, <1>4, <1>5 DEF Forms

\* The kinds of points are disjoint.
LEMMA KindsApart ==
  /\ \A p \in PersistPts \cup EvictPts \cup {Py} : p \notin PlainPts \cup DropPts
  /\ \A p \in DropPts : p \notin PlainPts
  BY HandlerHeads, HandlerApart DEF PersistPts, EvictPts, PlainPts, DropPts

\* Types after a step on a lock.
LEMMA LockKeepsTypes ==
  ASSUME Types, NEW t \in Threads,
         SameMutex \/ TakeMutex(t) \/ Unlock("mutex") \/ UnlockBoth
  PROVE  /\ holder' \in [Locks -> Threads \cup {Nobody}]
         /\ UNCHANGED shared => DataTypes'
  <1>1. holder \in [Locks -> Threads \cup {Nobody}] BY DEF Types, DataTypes
  <1>2. holder' \in [Locks -> Threads \cup {Nobody}]
    BY <1>1 DEF SameMutex, TakeMutex, Unlock, UnlockBoth, Locks
  <1>3. UNCHANGED shared => DataTypes'
    <2> HAVE UNCHANGED shared
    <2>1. /\ mem' = mem /\ unpersisted' = unpersisted /\ rows' = rows /\ file' = file
          /\ queue' = queue /\ loads' = loads /\ omp' = omp /\ dropping' = dropping
      BY DEF shared, memVars, diskVars, tasks
    <2> QED BY <1>2, <2>1 DEF Types, DataTypes
  <1> QED BY <1>2, <1>3

\* mutex_ and the threads that do not move.
LEMMA MutexKeeps ==
  ASSUME Forms, NEW t \in Threads,
         SameMutex \/ TakeMutex(t) \/ ((Unlock("mutex") \/ UnlockBoth) /\ InMutex(t))
  PROVE  \A u \in Threads : u # t /\ holder["mutex"] = u => holder'["mutex"] = u
  <1>1. Nobody \notin Threads BY StoreAssumption DEF Threads
  <1>2. InMutex(t) => holder["mutex"] = t BY DEF Forms, Mutex
  <1> QED BY <1>1, <1>2 DEF SameMutex, TakeMutex, Free

\* A move of a handler inside a call, or to its end.
WorkPts == PersistPts \cup EvictPts \cup {Py}

LEMMA HandlerKeeps ==
  ASSUME Forms, NEW h \in Handlers, NEW p, NEW q, Moves(h, p, q), DataTypes',
         \/ q = <<>>
         \/ p \in WorkPts /\ q \in WorkPts
         \/ p \in DropPts /\ q \in DropPts
         \/ p \in PlainPts /\ q \in PlainPts,
         \/ SameMutex /\ (q \in MutexPts => p \in MutexPts)
         \/ TakeMutex(h)
         \/ Unlock("mutex") /\ p \in MutexPts /\ q \notin MutexPts
  PROVE  Forms'
  <1>1. h \in Threads /\ h # Main /\ h # Omp BY StoreAssumption DEF Threads
  <1>2. Types BY DEF Forms
  <1>3. /\ ThreadTypes' /\ Others(h) /\ todo[h] = p
        /\ todo'[h] = q /\ on'[h] = IF q = <<>> THEN NoWork ELSE on[h]
    BY <1>1, <1>2, MovesFacts DEF ThreadTypes
  <1>4. Types' BY <1>3 DEF Types
  <1>5. HandlerForm(h)'
    <2>1. HandlerForm(h) BY DEF Forms
    <2>2. <<>> \in PlainPts BY DEF PlainPts
    <2>3. CASE q = <<>> BY <1>3, <2>2, <2>3 DEF HandlerForm
    <2>4. CASE q # <<>> /\ p \in WorkPts /\ q \in WorkPts
      BY <1>3, <2>1, <2>4, KindsApart DEF HandlerForm, WorkPts
    <2>5. CASE q # <<>> /\ p \in DropPts /\ q \in DropPts
      BY <1>3, <2>1, <2>5, KindsApart DEF HandlerForm
    <2>6. CASE q # <<>> /\ p \in PlainPts /\ q \in PlainPts
      BY <1>3, <2>1, <2>6, KindsApart DEF HandlerForm
    <2> QED BY <2>3, <2>4, <2>5, <2>6
  <1>6. InMutex(h)' => holder'["mutex"] = h
    <2>1. InMutex(h)' => q \in MutexPts BY <1>1, <1>3 DEF InMutex
    <2>2. p \in MutexPts => holder["mutex"] = h BY <1>1, <1>3 DEF Forms, Mutex, InMutex
    <2>3. TakeMutex(h) => holder'["mutex"] = h BY <1>2 DEF TakeMutex, Types, DataTypes, Locks
    <2> QED BY <2>1, <2>2, <2>3 DEF SameMutex
  <1>7. \A u \in Threads : u # h /\ holder["mutex"] = u => holder'["mutex"] = u
    BY <1>1, <1>3, MutexKeeps DEF InMutex
  <1> QED BY <1>1, <1>3, <1>4, <1>5, <1>6, <1>7, FormsKeep

\* Which points are where.
LEMMA PointSets ==
  /\ {P1, P2, P3, P4, P5, P6, Py, E1, E2, E3, E4, E6, E7, E8} \subseteq WorkPts
  /\ {D1, D2} \subseteq DropPts /\ {<<>>, S1, S2, C1, C2, C3} \subseteq PlainPts
  /\ {P2, P3, P4, P5, P6, E3, E4, E6, E7, E8, C2, C3} \subseteq MutexPts
  BY DEF WorkPts, PersistPts, EvictPts, DropPts, PlainPts, MutexPts

\* What a handler writes to a file.
LEMMA WriteFacts ==
  ASSUME Types, NEW h \in Threads, WriteFile(h), on[h].g \in Groups, on[h].l \in Nat \ {0}
  PROVE  /\ on[h].g \in unpersisted /\ on[h].l \in Layers
         /\ FileOf[on[h].g][on[h].l] \in DOMAIN file
         /\ file' = [file EXCEPT ![FileOf[on[h].g][on[h].l]] =
                      IF on[h].l \notin mem[on[h].g] THEN @ ELSE IF @ = "cut" THEN "full" ELSE "cut"]
         /\ \/ UNCHANGED on
            \/ on' = [on EXCEPT ![h].l = @ + 1]
         /\ UNCHANGED <<mem, unpersisted, rows, queue, holder, todo, loads, omp, dropping>>
         /\ Types'
  <1> DEFINE g == on[h].g
             l == on[h].l
  <1>0. NumLayers \in Nat BY StoreAssumption DEF NumLayers
  <1>1. g \in unpersisted /\ l <= NumLayers BY DEF WriteFile
  <1>2. l \in Layers BY <1>0, <1>1 DEF Layers
  <1>3. file' = [file EXCEPT ![FileOf[g][l]] =
                  IF l \notin mem[g] THEN @ ELSE IF @ = "cut" THEN "full" ELSE "cut"]
    BY DEF WriteFile
  <1>4. UNCHANGED on \/ on' = [on EXCEPT ![h].l = @ + 1] BY DEF WriteFile
  <1>5. UNCHANGED <<mem, unpersisted, rows, queue, holder, todo, loads, omp, dropping>>
    BY DEF WriteFile, memVars, tasks
  <1>6. FileOf[g][l] \in Files /\ DOMAIN file = Files
    <2>1. g \in Groups BY <1>1 DEF Types, DataTypes
    <2> QED BY <1>2, <2>1 DEF Types, DataTypes, Files
  <1>7. file' \in [Files -> {"none", "cut", "full"}]
    BY <1>3, <1>6 DEF Types, DataTypes
  <1>8. on' \in [Threads -> Works]
    <2>1. on \in [Threads -> Works] BY DEF Types, ThreadTypes
    <2>2. [on[h] EXCEPT !.l = @ + 1] \in Works BY <2>1 DEF Works
    <2>3. on' = [on EXCEPT ![h].l = @ + 1] => on' = [on EXCEPT ![h] = [on[h] EXCEPT !.l = @ + 1]]
      OBVIOUS
    <2> QED BY <1>4, <2>1, <2>2, <2>3
  <1>9. Types' BY <1>5, <1>7, <1>8 DEF Types, DataTypes, ThreadTypes
  <1> QED BY <1>1, <1>2, <1>3, <1>4, <1>5, <1>6, <1>9

\* A transaction, a task, a group leaves the types alone.
LEMMA DataKeepsTypes ==
  ASSUME Types, holder' \in [Locks -> Threads \cup {Nobody}],
         UNCHANGED mem \/ mem' \in [Groups -> SUBSET Layers],
         UNCHANGED unpersisted \/ unpersisted' \in SUBSET Groups,
         UNCHANGED rows \/ rows' \in [Groups -> {0, 1, NoRow}],
         UNCHANGED queue \/ queue' \in Seq(Transactions),
         UNCHANGED loads \/ loads' \in SUBSET [g : Groups, l : Layers],
         UNCHANGED omp \/ omp' \in Seq(Tasks),
         UNCHANGED dropping \/ dropping' \in SUBSET Groups,
         UNCHANGED file
  PROVE  DataTypes'
  BY DEF Types, DataTypes

LEMMA QueueTypes ==
  ASSUME Types, NEW o \in Ops, NEW g \in Groups, queue' = Append(queue, [op |-> o, g |-> g])
  PROVE  queue' \in Seq(Transactions)
  <1>1. [op |-> o, g |-> g] \in Transactions BY DEF Transactions
  <1>2. queue \in Seq(Transactions) BY DEF Types, DataTypes
  <1> QED BY <1>1, <1>2

\* Every step of a handler keeps the threads in their places.
LEMMA HandlerForms ==
  ASSUME Forms, NEW h \in Handlers, HandlerMove(h)
  PROVE  Forms'
  <1>1. h \in Threads /\ Types /\ HandlerForm(h) BY DEF Forms, Threads
  <1>2. todo[h] \in WorkPts \cup DropPts => on[h].g \in Groups
    BY <1>1, KindsApart DEF HandlerForm, WorkPts
  <1>3. CASE HPlain(h)
    <2>1. DataTypes' BY <1>1, <1>3, LockKeepsTypes DEF HPlain
    <2>2. CASE SameMutex /\ (Moves(h, E1, E2) \/ Moves(h, E3, E4))
      BY <2>1, <2>2, HandlerKeeps, PointSets, NotMutex
    <2>3. CASE SameMutex /\ (Moves(h, S1, S2) \/ Moves(h, C2, C3))
      BY <2>1, <2>3, HandlerKeeps, PointSets, NotMutex
    <2>4. CASE SameMutex /\ (Moves(h, S2, <<>>) \/ Moves(h, Py, <<>>))
      BY <2>1, <2>4, HandlerKeeps, NotMutex
    <2>5. CASE TakeMutex(h) /\ (Moves(h, P1, P2) \/ Moves(h, E2, E3) \/ Moves(h, C1, C2))
      BY <2>1, <2>5, HandlerKeeps, PointSets
    <2>6. CASE Unlock("mutex") /\ (Moves(h, P6, Py) \/ Moves(h, C3, <<>>))
      BY <2>1, <2>6, HandlerKeeps, PointSets, NotMutex
    <2> QED BY <1>3, <2>2, <2>3, <2>4, <2>5, <2>6 DEF HPlain
  <1>4. CASE HSync(h) \/ HSaved(h) \/ HForget(h)
    <2>1. DataTypes' /\ SameMutex
      BY <1>1, <1>4, LockKeepsTypes DEF HSync, HSaved, HForget
    <2>2. CASE Moves(h, P5, P6) \/ Moves(h, P2, P3) \/ Moves(h, P2, P6)
      BY <2>1, <2>2, HandlerKeeps, PointSets
    <2>3. CASE Moves(h, E7, E8)
      BY <2>1, <2>3, HandlerKeeps, PointSets
    <2>4. CASE Moves(h, E4, E8) \/ Moves(h, E4, E6)
      BY <2>1, <2>4, HandlerKeeps, PointSets
    <2> QED BY <1>4, <2>2, <2>3, <2>4 DEF HSync, HSaved, HForget
  <1>5. CASE HQueue(h)
    <2>1. todo[h] \in WorkPts BY <1>5, PointSets DEF HQueue, Moves
    <2>2. "mark_row" \in Ops /\ "remove_row" \in Ops BY DEF Ops
    <2>3. queue' \in Seq(Transactions)
      BY <1>1, <1>2, <1>5, <2>1, <2>2, QueueTypes DEF HQueue
    <2>4. DataTypes' /\ SameMutex BY <1>1, <1>5, <2>3, DataKeepsTypes DEF HQueue, SameMutex
    <2> QED BY <1>5, <2>4, HandlerKeeps, PointSets DEF HQueue
  <1>6. CASE HMark(h)
    <2>1. unpersisted' \in SUBSET Groups BY <1>1, <1>6 DEF HMark, Types, DataTypes
    <2>2. DataTypes' /\ SameMutex BY <1>1, <1>6, <2>1, DataKeepsTypes DEF HMark, SameMutex
    <2> QED BY <1>6, <2>2, HandlerKeeps, PointSets DEF HMark
  <1>7. CASE HClear(h)
    <2>1. unpersisted' \in SUBSET Groups /\ mem' \in [Groups -> SUBSET Layers]
      BY <1>1, <1>7 DEF HClear, Types, DataTypes
    <2>2. holder' \in [Locks -> Threads \cup {Nobody}]
      BY <1>1, <1>7, LockKeepsTypes DEF HClear
    <2>3. DataTypes' BY <1>1, <1>7, <2>1, <2>2, DataKeepsTypes DEF HClear
    <2>4. CASE Unlock("mutex") /\ Moves(h, E8, Py)
      BY <2>3, <2>4, HandlerKeeps, PointSets, NotMutex
    <2>5. CASE SameMutex /\ Moves(h, D1, D2)
      BY <2>3, <2>5, HandlerKeeps, PointSets, NotMutex
    <2> QED BY <1>7, <2>4, <2>5 DEF HClear
  <1>8. CASE HDropped(h)
    <2>1. dropping' \in SUBSET Groups BY <1>1, <1>8 DEF HDropped, Types, DataTypes
    <2>2. DataTypes' /\ SameMutex BY <1>1, <1>8, <2>1, DataKeepsTypes DEF HDropped, SameMutex
    <2> QED BY <1>8, <2>2, HandlerKeeps, NotMutex DEF HDropped
  <1>9. CASE todo[h] = P2 /\ WriteFile(h)
    <2>1. on[h].g \in Groups /\ on[h].l \in 1..(NumLayers + 1) /\ P2 \in WorkPts /\ P2 \in MutexPts
      BY <1>1, <1>9, KindsApart, PointSets DEF HandlerForm, WorkPts
    <2>2. NumLayers \in Nat BY StoreAssumption DEF NumLayers
    <2>8. on[h].l \in Nat \ {0} BY <2>1, <2>2
    <2>3. /\ on[h].l \in Layers /\ Types' /\ todo' = todo /\ holder' = holder
          /\ UNCHANGED on \/ on' = [on EXCEPT ![h].l = @ + 1]
      <3>1. WriteFile(h) BY <1>9
      <3> QED BY <1>1, <2>1, <2>8, <3>1, WriteFacts
    <2>4. /\ Others(h) /\ on'[h].g \in Groups /\ on'[h].l \in 1..(NumLayers + 1)
      <3>1. on \in [Threads -> Works] BY <1>1 DEF Types, ThreadTypes
      <3>2. CASE on' = on BY <2>1, <2>3, <3>2 DEF Others
      <3>3. CASE on' = [on EXCEPT ![h].l = @ + 1]
        <4>1. \A u \in Threads : u # h => on'[u] = on[u] BY <3>1, <3>3
        <4>2. on'[h] = [on[h] EXCEPT !.l = @ + 1] BY <1>1, <3>1, <3>3
        <4>3. on'[h].g = on[h].g /\ on'[h].l = on[h].l + 1 BY <1>1, <3>1, <4>2 DEF Works
        <4> QED BY <2>1, <2>2, <2>3, <4>1, <4>3 DEF Others, Layers
      <3> QED BY <2>3, <3>2, <3>3
    <2>5. HandlerForm(h)' BY <1>9, <2>1, <2>3, <2>4 DEF HandlerForm, WorkPts
    <2>6. holder["mutex"] = h BY <1>1, <1>9, <2>1 DEF Forms, Mutex, InMutex
    <2>7. h # Main /\ h # Omp BY StoreAssumption
    <2> QED BY <1>1, <2>3, <2>4, <2>5, <2>6, <2>7, FormsKeep
  <1> QED BY <1>3, <1>4, <1>5, <1>6, <1>7, <1>8, <1>9 DEF HandlerMove

\* The first steps of the other two threads' points.
LEMMA MainHeads ==
  /\ X1 # <<>> /\ X2 # <<>> /\ X3 # <<>> /\ Unzip # <<>> /\ Py # <<>>
  /\ S1 # <<>> /\ S2 # <<>> /\ F1 # <<>> /\ F2 # <<>> /\ F3 # <<>>
  /\ Head(X1) = "take_op" /\ Head(X2) = "sync" /\ Head(X3) = "exit"
  /\ Head(S1) = "take_gil" /\ Head(S2) = "count"
  /\ Head(F1) = "py" /\ Head(F2) = "take_op" /\ Head(F3) = "sync"
  /\ Head(Unzip) = "queue_get" /\ Head(Py) = "py"
  /\ \A l \in 1..(NumLayers + 1) :
       PutRest(l) # <<>> /\ Head(PutRest(l)) \in {"queue_put", "submit"}
  /\ \A l \in 2..(NumLayers + 1) : PyRest(l) # <<>> /\ Head(PyRest(l)) = "py"
  <1>1. NumLayers \in Nat BY StoreAssumption DEF NumLayers
  <1>2. \A l \in 1..(NumLayers + 1) : l \in Layers \/ l = NumLayers + 1 BY <1>1 DEF Layers
  <1>3. \A l \in 1..(NumLayers + 1) :
          PutRest(l) # <<>> /\ Head(PutRest(l)) \in {"queue_put", "submit"}
    BY <1>2, SaveSteps DEF Goes
  <1>4. \A l \in 2..(NumLayers + 1) : PyRest(l) # <<>> /\ Head(PyRest(l)) = "py"
    BY SaveSteps DEF Goes
  <1> QED BY <1>3, <1>4, TaskSteps, PlainSteps DEF Goes

\* The worker's thread flushes after put_finish, and at the end.
LEMMA FlushApart ==
  /\ \A p \in FlushPts : p \notin StopPts /\ p # Py
  /\ Py \notin StopPts
  <1>1. /\ Tail(F1) = F2 /\ Tail(F2) = F3 /\ Tail(F3) = Py /\ Tail(X1) = X2 /\ Tail(X2) = X3
        /\ Tail(Py) = <<>>
    BY TaskSteps DEF Goes
  <1>2. F3 # X2 BY <1>1, MainHeads
  <1>3. F2 # X1 BY <1>1, <1>2
  <1>4. F1 # Py BY <1>1, MainHeads
  <1> QED BY <1>2, <1>3, <1>4, MainHeads DEF FlushPts, StopPts

LEMMA OmpHeads ==
  /\ PutTask # <<>> /\ G1 # <<>> /\ G2 # <<>> /\ G3 # <<>> /\ G4 # <<>>
  /\ L1 # <<>> /\ L2 # <<>> /\ N1 # <<>> /\ N2 # <<>>
  /\ R1 # <<>> /\ R2 # <<>> /\ R3 # <<>> /\ M1 # <<>> /\ M2 # <<>>
  /\ Head(PutTask) = "put" /\ Head(G1) = "guard" /\ Head(G2) = "take_mutex"
  /\ Head(G3) = "look" /\ Head(G4) = "unguard"
  /\ Head(L1) = "take_op" /\ Head(L2) = "load" /\ Head(N1) = "unguard" /\ Head(N2) = "queue_retry"
  /\ Head(R1) = "guard" /\ Head(R2) = "take_mutex" /\ Head(R3) = "look_again"
  /\ Head(M1) = "take_op" /\ Head(M2) = "load_again"
  BY TaskSteps DEF Goes

\* Every step of the worker's own thread keeps the threads in their places.
LEMMA MainForms ==
  ASSUME Forms, Step(Main)
  PROVE  Forms'
  <1>1. /\ Main \in Threads /\ Main # Omp /\ Main \notin Handlers /\ Types /\ MainForm
    BY StoreAssumption DEF Forms, Threads
  <1>2. ~InMutex(Main)' BY <1>1 DEF InMutex
  <1>3. NumLayers \in Nat BY StoreAssumption DEF NumLayers
  <1>4. SUFFICES Types' /\ Others(Main) /\ MainForm'
                 /\ \A u \in Threads : u # Main /\ holder["mutex"] = u => holder'["mutex"] = u
    BY <1>1, <1>2, FormsKeep
  <1>5. on[Main].g \in Groups \/ todo[Main] \in IdlePts BY <1>1, MainSteps
  <1>6. CASE MPlain
    <2>1. DataTypes' BY <1>1, <1>6, LockKeepsTypes DEF MPlain
    <2>2. \A u \in Threads : u # Main /\ holder["mutex"] = u => holder'["mutex"] = u
      BY <1>6 DEF MPlain, SameMutex
    <2>3. ASSUME NEW p, NEW q, Moves(Main, p, q)
          PROVE  /\ Types' /\ Others(Main) /\ todo[Main] = p /\ todo'[Main] = q
                 /\ on'[Main] = IF q = <<>> THEN NoWork ELSE on[Main]
      BY <1>1, <2>1, <2>3, MovesFacts DEF Types, ThreadTypes
    <2>4. CASE Moves(Main, X1, X2) \/ Moves(Main, X2, X3) \/ Moves(Main, S1, S2)
      <3>1. todo[Main] \in {X1, X2, S1} BY <2>4 DEF Moves
      <3>2. on[Main] = NoWork
        <4>1. todo[Main] \notin FlushPts \cup {Py} BY <3>1, FlushApart DEF StopPts
        <4> QED BY <1>1, <3>1, <4>1, MainHeads DEF MainForm
      <3>3. on'[Main] = NoWork /\ todo'[Main] \in StopPts BY <2>3, <2>4, <3>2 DEF StopPts
      <3> QED BY <2>2, <2>3, <2>4, <3>3 DEF MainForm
    <2>5. CASE Moves(Main, Py, <<>>) \/ Moves(Main, S2, <<>>)
      <3>1. on'[Main] = NoWork /\ todo'[Main] \in StopPts BY <2>3, <2>5 DEF StopPts
      <3> QED BY <2>2, <2>3, <2>5, <3>1 DEF MainForm
    <2>7. CASE Moves(Main, F1, F2) \/ Moves(Main, F2, F3) \/ Moves(Main, F3, Py)
      <3>1. todo[Main] \in FlushPts BY <2>7 DEF Moves, FlushPts
      <3>2. on[Main].g \in Groups BY <1>5, <3>1, FlushApart DEF IdlePts, StopPts
      <3>3. on'[Main] = on[Main] /\ todo'[Main] \in FlushPts \cup {Py}
        BY <2>3, <2>7, MainHeads DEF FlushPts
      <3> QED BY <2>2, <2>3, <2>7, <3>2, <3>3 DEF MainForm
    <2>6. CASE /\ on[Main].l \in 2..(NumLayers + 1)
               /\ Moves(Main, PyRest(on[Main].l), PutRest(on[Main].l))
      <3>1. PICK l \in 2..(NumLayers + 1) : l = on[Main].l BY <2>6
      <3>2. l \in 1..(NumLayers + 1) BY <1>3
      <3>3. PutRest(l) # <<>> /\ PyRest(l) # <<>> /\ Head(PyRest(l)) = "py" BY <3>2, MainHeads
      <3>4. Moves(Main, PyRest(l), PutRest(l)) BY <2>6, <3>1
      <3>5. Types' /\ Others(Main) /\ todo[Main] = PyRest(l) /\ todo'[Main] = PutRest(l)
            /\ on'[Main] = on[Main]
        BY <2>3, <3>3, <3>4
      <3>6. todo[Main] \notin IdlePts BY <3>3, <3>5, MainHeads DEF IdlePts
      <3> QED BY <1>5, <2>2, <3>1, <3>2, <3>5, <3>6 DEF MainForm
    <2> QED BY <1>6, <2>4, <2>5, <2>6, <2>7 DEF MPlain
  <1>7. ASSUME NEW q, MTask, todo' = [todo EXCEPT ![Main] = q], todo[Main] \notin IdlePts,
               PutQueued(Main) \/ GetQueued(Main)
        PROVE  /\ Types' /\ Others(Main) /\ todo'[Main] = q /\ on'[Main].g \in Groups
               /\ on'[Main].l = on[Main].l + 1
               /\ \A u \in Threads : u # Main /\ holder["mutex"] = u => holder'["mutex"] = u
    <2>1. on \in [Threads -> Works] /\ on[Main].g \in Groups /\ on[Main].l \in Layers
          /\ todo = [t \in Threads |-> todo[t]]
      BY <1>1, <1>5, <1>7 DEF Types, ThreadTypes, MTask
    <2>2. on' = [on EXCEPT ![Main] = [on[Main] EXCEPT !.l = @ + 1]] BY <1>7 DEF MTask
    <2>3. /\ [on[Main] EXCEPT !.l = @ + 1] \in Works
          /\ [on[Main] EXCEPT !.l = @ + 1].g = on[Main].g
          /\ [on[Main] EXCEPT !.l = @ + 1].l = on[Main].l + 1
      BY <1>1, <1>3, <2>1 DEF Works, Layers
    <2>4. /\ on' \in [Threads -> Works] /\ on'[Main] = [on[Main] EXCEPT !.l = @ + 1]
          /\ \A u \in Threads : u # Main => on'[u] = on[u]
      BY <1>1, <2>1, <2>2, <2>3
    <2>5. /\ todo' = [t \in Threads |-> IF t = Main THEN q ELSE todo[t]] BY <1>7, <2>1
    <2>6. Others(Main) /\ ThreadTypes' /\ todo'[Main] = q
      BY <1>1, <2>4, <2>5 DEF Others, ThreadTypes
    <2>7. UNCHANGED omp \/ omp' \in Seq(Tasks)
      <3>1. [put |-> TRUE, g |-> on[Main].g, l |-> on[Main].l] \in Tasks BY <2>1 DEF Tasks
      <3>2. omp \in Seq(Tasks) BY <1>1 DEF Types, DataTypes
      <3> QED BY <1>7, <3>1, <3>2 DEF PutQueued, GetQueued
    <2>10. UNCHANGED loads \/ loads' \in SUBSET [g : Groups, l : Layers]
      <3>1. Work(on[Main].g, on[Main].l) \in [g : Groups, l : Layers] BY <2>1 DEF Work
      <3>2. loads \in SUBSET [g : Groups, l : Layers] BY <1>1 DEF Types, DataTypes
      <3> QED BY <1>7, <3>1, <3>2 DEF PutQueued, GetQueued
    <2>8. holder' \in [Locks -> Threads \cup {Nobody}] /\ holder' = holder
      BY <1>1, <1>7 DEF MTask, Types, DataTypes
    <2>9. DataTypes' BY <1>1, <1>7, <2>7, <2>8, <2>10, DataKeepsTypes DEF MTask
    <2> QED BY <2>1, <2>3, <2>4, <2>6, <2>8, <2>9 DEF Types
  <1>8. CASE MPut
    <2>1. on[Main].l \in Layers BY <1>8 DEF MPut, MTask
    <2>2. on[Main].l \in 1..(NumLayers + 1) /\ on[Main].l + 1 \in 2..(NumLayers + 1)
      BY <1>3, <2>1 DEF Layers
    <2>3. todo[Main] \notin IdlePts BY <1>8, <2>2, MainHeads DEF MPut, IdlePts
    <2>4. /\ Types' /\ Others(Main) /\ todo'[Main] = PyRest(on[Main].l + 1)
          /\ on'[Main].g \in Groups /\ on'[Main].l = on[Main].l + 1
          /\ \A u \in Threads : u # Main /\ holder["mutex"] = u => holder'["mutex"] = u
      BY <1>7, <1>8, <2>3 DEF MPut
    <2> QED BY <2>2, <2>4 DEF MainForm
  <1>9. CASE MGet
    <2>1. todo[Main] \notin IdlePts BY <1>9, MainHeads DEF MGet, IdlePts
    <2>2. /\ Types' /\ Others(Main) /\ todo'[Main] = Py /\ on'[Main].g \in Groups
          /\ \A u \in Threads : u # Main /\ holder["mutex"] = u => holder'["mutex"] = u
      BY <1>7, <1>9, <2>1 DEF MGet
    <2> QED BY <2>2 DEF MainForm
  <1>10. CASE MSubmit
    <2>1. NumLayers + 1 \in 1..(NumLayers + 1) BY <1>3
    <2>2. todo[Main] \notin IdlePts BY <1>10, <2>1, MainHeads DEF MSubmit, Moves, IdlePts
    <2>3. queue' \in Seq(Transactions)
      BY <1>1, <1>5, <1>10, <2>2, QueueTypes DEF MSubmit, Ops
    <2>4. holder' \in [Locks -> Threads \cup {Nobody}] /\ holder' = holder
      BY <1>1, <1>10 DEF MSubmit, Types, DataTypes
    <2>5. DataTypes' BY <1>1, <1>10, <2>3, <2>4, DataKeepsTypes DEF MSubmit
    <2>6. /\ ThreadTypes' /\ Others(Main) /\ todo'[Main] = F1 /\ on'[Main] = on[Main]
      BY <1>1, <1>10, MovesFacts, MainHeads DEF MSubmit, ThreadTypes
    <2> QED BY <1>5, <2>2, <2>4, <2>5, <2>6 DEF MainForm, Types, FlushPts
  <1> QED BY <1>1, <1>6, <1>8, <1>9, <1>10, MainSteps

\* OMP-Main's points outside mutex_.
LEMMA OmpOutside ==
  \A p \in {<<>>, PutTask, G1, G2, G4, R1, R2, N1, N2} : p \notin LookPts
  BY OmpHeads DEF LookPts, MissPts

\* What a load of a file does.
LEMMA LoadFacts ==
  ASSUME Types, on[Omp].g \in Groups, on[Omp].l \in Layers, ReadFile(Omp)
  PROVE  /\ queue = <<>> /\ rows[on[Omp].g] = 1 /\ file[FileOf[on[Omp].g][on[Omp].l]] = "full"
         /\ mem' = [mem EXCEPT ![on[Omp].g] = @ \cup {on[Omp].l}]
         /\ unpersisted' = unpersisted \ {on[Omp].g} /\ UnlockBoth
         /\ UNCHANGED <<rows, file, queue, loads, omp, dropping>>
         /\ mem' \in [Groups -> SUBSET Layers] /\ unpersisted' \in SUBSET Groups
  <1>1. UNCHANGED <<rows, file, queue, loads, omp, dropping>> BY DEF ReadFile, diskVars, tasks
  <1>2. /\ queue = <<>> /\ rows[on[Omp].g] = 1 /\ file[FileOf[on[Omp].g][on[Omp].l]] = "full"
        /\ mem' = [mem EXCEPT ![on[Omp].g] = @ \cup {on[Omp].l}]
        /\ unpersisted' = unpersisted \ {on[Omp].g} /\ UnlockBoth
    BY DEF ReadFile, Asks, Complete
  <1>4. mem \in [Groups -> SUBSET Layers] /\ unpersisted \in SUBSET Groups
    BY DEF Types, DataTypes
  <1>5. mem' \in [Groups -> SUBSET Layers] /\ unpersisted' \in SUBSET Groups
    BY <1>2, <1>4
  <1> QED BY <1>1, <1>2, <1>5

\* What a load that finds nothing does.
LEMMA NotFacts ==
  ASSUME NotFound(Omp)
  PROVE  /\ queue = <<>> /\ rows[on[Omp].g] # 1 /\ UnlockBoth
         /\ UNCHANGED shared
  BY DEF NotFound, Asks, shared

\* Every step of OMP-Main keeps the threads in their places.
LEMMA OmpForms ==
  ASSUME Forms, Step(Omp)
  PROVE  Forms'
  <1>1. Omp \in Threads /\ Main # Omp /\ Omp \notin Handlers /\ Types /\ OmpForm
    BY StoreAssumption DEF Forms, Threads
  <1>2. on[Omp].g \in Groups /\ on[Omp].l \in Layers BY <1>1, OmpSteps
  <1>3. ASSUME NEW p, NEW q, Moves(Omp, p, q), DataTypes', q \in GetPts \cup {<<>>},
               \/ SameMutex /\ (q \in LookPts => p \in LookPts)
               \/ TakeMutex(Omp)
               \/ (Unlock("mutex") \/ UnlockBoth) /\ p \in LookPts /\ q \notin LookPts
        PROVE  Forms'
    <2>1. /\ ThreadTypes' /\ Others(Omp) /\ todo[Omp] = p
          /\ todo'[Omp] = q /\ on'[Omp] = IF q = <<>> THEN NoWork ELSE on[Omp]
      BY <1>1, <1>3, MovesFacts DEF ThreadTypes
    <2>2. Types' BY <1>3, <2>1 DEF Types
    <2>3. OmpForm' BY <1>2, <1>3, <2>1 DEF OmpForm
    <2>4. InMutex(Omp)' => holder'["mutex"] = Omp
      <3>1. InMutex(Omp)' => q \in LookPts BY <1>1, <2>1 DEF InMutex
      <3>2. p \in LookPts => holder["mutex"] = Omp
        BY <1>1, <2>1 DEF Forms, Mutex, InMutex
      <3>3. TakeMutex(Omp) => holder'["mutex"] = Omp
        BY <1>1 DEF TakeMutex, Types, DataTypes, Locks
      <3> QED BY <1>3, <3>1, <3>2, <3>3 DEF SameMutex
    <2>5. \A u \in Threads : u # Omp /\ holder["mutex"] = u => holder'["mutex"] = u
      BY <1>1, <1>3, <2>1, MutexKeeps DEF InMutex
    <2> QED BY <1>1, <2>1, <2>2, <2>3, <2>4, <2>5, FormsKeep
  <1>4. /\ {G1, G2, G3, G4, L1, L2, N1, N2, R1, R2, R3, M1, M2} \subseteq GetPts
        /\ {G3, R3, L1, L2, M1, M2} \subseteq LookPts
    BY DEF GetPts, MissPts, LookPts
  <1>5. CASE OPlain
    <2>1. DataTypes' BY <1>1, <1>5, LockKeepsTypes DEF OPlain
    <2>2. CASE SameMutex /\ (Moves(Omp, G1, G2) \/ Moves(Omp, G4, <<>>))
      BY <1>3, <1>4, <2>1, <2>2, OmpOutside
    <2>6. CASE SameMutex /\ (Moves(Omp, R1, R2) \/ Moves(Omp, N1, N2))
      BY <1>3, <1>4, <2>1, <2>6, OmpOutside
    <2>3. CASE SameMutex /\ (Moves(Omp, L1, L2) \/ Moves(Omp, M1, M2))
      BY <1>3, <1>4, <2>1, <2>3
    <2>4. CASE TakeMutex(Omp) /\ (Moves(Omp, G2, G3) \/ Moves(Omp, R2, R3))
      BY <1>3, <1>4, <2>1, <2>4
    <2>5. CASE Unlock("mutex") /\ (Moves(Omp, G3, G4) \/ Moves(Omp, R3, G4))
      BY <1>3, <1>4, <2>1, <2>5, OmpOutside
    <2> QED BY <1>5, <2>2, <2>3, <2>4, <2>5, <2>6 DEF OPlain
  <1>6. CASE OMiss
    <2>1. DataTypes' BY <1>1, <1>6, LockKeepsTypes DEF OMiss
    <2> QED BY <1>3, <1>4, <1>6, <2>1 DEF OMiss
  <1>7. CASE OPut
    <2>1. SameMutex BY <1>1, <1>7 DEF OPut, SameMutex, Types, DataTypes
    <2>2. mem \in [Groups -> SUBSET Layers] /\ unpersisted \in SUBSET Groups
      BY <1>1 DEF Types, DataTypes
    <2>3. mem' \in [Groups -> SUBSET Layers] /\ unpersisted' \in SUBSET Groups
      BY <1>2, <1>7, <2>2 DEF OPut
    <2>4. DataTypes' BY <1>1, <1>7, <2>1, <2>3, DataKeepsTypes DEF OPut, SameMutex
    <2> QED BY <1>3, <1>7, <2>1, <2>4, OmpOutside DEF OPut
  <1>8. CASE OLoad
    <2>1. /\ UnlockBoth /\ UNCHANGED <<rows, file, queue, loads, omp, dropping>>
          /\ mem' \in [Groups -> SUBSET Layers] /\ unpersisted' \in SUBSET Groups
      BY <1>1, <1>2, <1>8, LoadFacts DEF OLoad
    <2>2. holder' \in [Locks -> Threads \cup {Nobody}] BY <1>1, <2>1, LockKeepsTypes
    <2>3. DataTypes' BY <1>1, <2>1, <2>2, DataKeepsTypes
    <2>4. Moves(Omp, L2, G4) \/ Moves(Omp, M2, G4) BY <1>8 DEF OLoad
    <2> QED BY <1>3, <1>4, <2>1, <2>3, <2>4, OmpOutside
  <1>9. CASE ONot
    <2>1. UnlockBoth /\ UNCHANGED shared /\ Moves(Omp, L2, N1) BY <1>9, NotFacts DEF ONot
    <2>2. DataTypes' BY <1>1, <2>1, LockKeepsTypes
    <2> QED BY <1>3, <1>4, <2>1, <2>2, OmpOutside
  <1>10. CASE ORetry
    <2>1. [put |-> FALSE, g |-> on[Omp].g, l |-> on[Omp].l] \in Tasks BY <1>2 DEF Tasks
    <2>2. omp \in Seq(Tasks) BY <1>1 DEF Types, DataTypes
    <2>3. omp' \in Seq(Tasks) BY <1>10, <2>1, <2>2 DEF ORetry
    <2>4. SameMutex BY <1>1, <1>10 DEF ORetry, SameMutex, Types, DataTypes
    <2>5. DataTypes' BY <1>1, <1>10, <2>3, <2>4, DataKeepsTypes DEF ORetry, SameMutex
    <2> QED BY <1>3, <1>10, <2>4, <2>5, OmpOutside DEF ORetry
  <1> QED BY <1>1, <1>5, <1>6, <1>7, <1>8, <1>9, <1>10, OmpSteps

\* A call that starts keeps the others in their places.
LEMMA CallForms ==
  /\ \A g \in Groups : Forms /\ Save(g) => Forms'
  /\ \A g \in Groups : \A l \in Layers : Forms /\ Load(g, l) => Forms'
  /\ Forms /\ StopCall => Forms'
  /\ \A t \in Threads : Forms /\ ReadStatus(t) => Forms'
  /\ \A h \in Handlers : \A g \in Groups : Forms /\ Handle(h, g) => Forms'
  /\ \A h \in Handlers : Forms /\ ListCandidates(h) => Forms'
  <1>1. Main # Omp /\ Main \notin Handlers /\ Omp \notin Handlers /\ Main \in Threads
        /\ Handlers \subseteq Threads /\ NumLayers \in Nat
    BY StoreAssumption DEF Threads, NumLayers
  <1>2. /\ NoWork \in Works
        /\ \A g \in Groups : \A l \in Nat :
             Work(g, l) \in Works /\ Work(g, l).g = g /\ Work(g, l).l = l
    BY DEF NoWork, Work, Works
  <1>3. ASSUME Forms, NEW t \in Threads, t # Omp, NEW w \in Works, NEW q, Enter(t, w, q),
               t \in Handlers => q \notin MutexPts,
               t \in Handlers => HandlerForm(t)', t = Main => MainForm'
        PROVE  Forms'
    <2>1. /\ Types' /\ Others(t) /\ todo'[t] = q /\ holder' = holder
      BY <1>3, EnterFacts DEF Forms
    <2>2. ~InMutex(t)' BY <1>3, <2>1 DEF InMutex
    <2> QED BY <1>3, <2>1, <2>2, FormsKeep
  <1>4. ASSUME Forms, NEW t \in Threads, NEW w \in Works, NEW q, Enter(t, w, q)
        PROVE  todo'[t] = q /\ on'[t] = w
    BY <1>4, EnterFacts DEF Forms
  <1>5. ASSUME NEW g \in Groups, Forms, Save(g) PROVE Forms'
    <2>1. Enter(Main, Work(g, 1), PutRest(1)) BY <1>5, SaveSteps DEF Save
    <2>2. 1 \in 1..(NumLayers + 1) /\ 1 \in Nat BY <1>1
    <2>3. MainForm' BY <1>1, <1>2, <1>4, <1>5, <2>1, <2>2 DEF MainForm
    <2> QED BY <1>1, <1>2, <1>3, <1>5, <2>1, <2>2, <2>3
  <1>6. ASSUME NEW g \in Groups, NEW l \in Layers, Forms, Load(g, l) PROVE Forms'
    <2>1. Enter(Main, Work(g, l), Unzip) BY <1>6 DEF Load
    <2>2. l \in Nat BY <1>1 DEF Layers
    <2>3. MainForm' BY <1>1, <1>2, <1>4, <1>6, <2>1, <2>2 DEF MainForm
    <2> QED BY <1>1, <1>2, <1>3, <1>6, <2>1, <2>2, <2>3
  <1>7. ASSUME Forms, StopCall PROVE Forms'
    <2>1. Enter(Main, NoWork, X1) BY <1>7 DEF StopCall, X1
    <2>2. MainForm' BY <1>1, <1>2, <1>4, <1>7, <2>1 DEF MainForm, StopPts
    <2> QED BY <1>1, <1>2, <1>3, <1>7, <2>1, <2>2
  <1>12. ASSUME Forms, Enter(Main, NoWork, S1) PROVE Forms'
    <2>2. MainForm' BY <1>1, <1>2, <1>4, <1>12 DEF MainForm, StopPts
    <2> QED BY <1>1, <1>2, <1>3, <1>12, <2>2
  <1>8. ASSUME NEW h \in Handlers, Forms, Enter(h, NoWork, S1) \/ Enter(h, NoWork, C1) PROVE Forms'
    <2>1. HandlerForm(h)' BY <1>1, <1>2, <1>4, <1>8 DEF HandlerForm, PlainPts
    <2> QED BY <1>1, <1>2, <1>3, <1>8, <2>1, NotMutex
  <1>9. ASSUME NEW h \in Handlers, NEW g \in Groups, Forms,
               Enter(h, Work(g, 1), P1) \/ Enter(h, Work(g, 1), E1)
        PROVE  Forms'
    <2>1. 1 \in 1..(NumLayers + 1) /\ 1 \in Nat BY <1>1
    <2>2. HandlerForm(h)'
      BY <1>1, <1>2, <1>4, <1>9, <2>1 DEF HandlerForm, PersistPts, EvictPts
    <2> QED BY <1>1, <1>2, <1>3, <1>9, <2>1, <2>2, NotMutex
  <1>10. ASSUME NEW h \in Handlers, NEW g \in Groups, Forms, Enter(h, Work(g, 0), D1)
         PROVE  Forms'
    <2>1. 0 \in Nat OBVIOUS
    <2>2. HandlerForm(h)' BY <1>1, <1>2, <1>4, <1>10, <2>1 DEF HandlerForm, DropPts
    <2> QED BY <1>1, <1>2, <1>3, <1>10, <2>1, <2>2, NotMutex
  <1>11. ASSUME NEW h \in Handlers, NEW g \in Groups, Forms, Handle(h, g) PROVE Forms'
    BY <1>9, <1>10, <1>11 DEF Handle, P1, E1, D1
  <1>13. ASSUME NEW t \in Threads, Forms, ReadStatus(t) PROVE Forms'
    <2>1. t # Omp /\ Enter(t, NoWork, S1) BY <1>13 DEF ReadStatus, S1
    <2>2. t = Main \/ t \in Handlers BY <2>1 DEF Threads
    <2> QED BY <1>8, <1>12, <1>13, <2>1, <2>2
  <1> QED BY <1>5, <1>6, <1>7, <1>8, <1>11, <1>13 DEF ListCandidates, C1

\* OMP-Main's next task.
LEMMA ServeFacts ==
  ASSUME Types, Serve
  PROVE  /\ todo[Omp] = <<>> /\ Others(Omp) /\ Types'
         /\ UNCHANGED <<mem, unpersisted, rows, file, queue, holder, dropping>>
         /\ \/ /\ todo'[Omp] = G1 /\ on'[Omp] \in loads
               /\ loads' = loads \ {on'[Omp]} /\ omp' = omp
            \/ /\ loads = {} /\ loads' = {} /\ Head(omp) \in Tasks /\ omp # <<>> /\ omp' = Tail(omp)
               /\ todo'[Omp] = (IF Head(omp).put THEN PutTask ELSE R1)
               /\ on'[Omp] = Work(Head(omp).g, Head(omp).l)
  <1>1. Omp \in Threads BY DEF Threads
  <1>2. NumLayers \in Nat BY StoreAssumption DEF NumLayers
  <1>3. /\ todo[Omp] = <<>>
        /\ UNCHANGED <<mem, unpersisted, rows, file, queue, holder, dropping>>
    BY DEF Serve, memVars, diskVars
  <1>4. ASSUME NEW w \in Works, NEW q, todo' = [todo EXCEPT ![Omp] = q],
               on' = [on EXCEPT ![Omp] = w]
        PROVE  todo'[Omp] = q /\ on'[Omp] = w /\ Others(Omp) /\ ThreadTypes'
    <2>1. todo = [t \in Threads |-> todo[t]] /\ on \in [Threads -> Works]
      BY DEF Types, ThreadTypes
    <2>2. /\ on' \in [Threads -> Works] /\ on'[Omp] = w
          /\ \A u \in Threads : u # Omp => on'[u] = on[u]
      BY <1>1, <1>4, <2>1
    <2>3. /\ todo' = [t \in Threads |-> todo'[t]] /\ todo'[Omp] = q
          /\ \A u \in Threads : u # Omp => todo'[u] = todo[u]
      BY <1>1, <1>4, <2>1
    <2> QED BY <2>2, <2>3 DEF Others, ThreadTypes
  <1>5. CASE \E w \in loads :
               /\ todo' = [todo EXCEPT ![Omp] = GetTask] /\ on' = [on EXCEPT ![Omp] = w]
               /\ loads' = loads \ {w} /\ UNCHANGED omp
    <2>1. PICK w \in loads :
               /\ todo' = [todo EXCEPT ![Omp] = GetTask] /\ on' = [on EXCEPT ![Omp] = w]
               /\ loads' = loads \ {w} /\ UNCHANGED omp
      BY <1>5
    <2>2. loads \in SUBSET [g : Groups, l : Layers] BY DEF Types, DataTypes
    <2>3. w \in Works BY <1>2, <2>2 DEF Works, Layers
    <2>4. todo'[Omp] = G1 /\ on'[Omp] = w /\ Others(Omp) /\ ThreadTypes'
      BY <1>4, <2>1, <2>3 DEF G1
    <2>5. loads' \in SUBSET [g : Groups, l : Layers] BY <2>1, <2>2
    <2>6. DataTypes' BY <1>3, <2>1, <2>5, DataKeepsTypes DEF Types, DataTypes
    <2> QED BY <1>3, <2>1, <2>4, <2>6 DEF Types
  <1>6. CASE /\ loads = {} /\ omp # <<>>
             /\ todo' = [todo EXCEPT ![Omp] = IF Head(omp).put THEN PutTask ELSE RetryTask]
             /\ on' = [on EXCEPT ![Omp] = Work(Head(omp).g, Head(omp).l)]
             /\ omp' = Tail(omp) /\ UNCHANGED loads
    <2>1. omp \in Seq(Tasks) BY DEF Types, DataTypes
    <2>2. Head(omp) \in Tasks /\ Tail(omp) \in Seq(Tasks) BY <1>6, <2>1
    <2>3. PICK w : w = Work(Head(omp).g, Head(omp).l) OBVIOUS
    <2>4. w \in Works
      <3>1. Head(omp).g \in Groups /\ Head(omp).l \in Layers BY <2>2 DEF Tasks
      <3> QED BY <1>2, <2>3, <3>1 DEF Work, Works, Layers
    <2>5. PICK q : q = IF Head(omp).put THEN PutTask ELSE RetryTask OBVIOUS
    <2>6. todo' = [todo EXCEPT ![Omp] = q] /\ on' = [on EXCEPT ![Omp] = w]
      BY <1>6, <2>3, <2>5, Zenon
    <2>7. todo'[Omp] = q /\ on'[Omp] = w /\ Others(Omp) /\ ThreadTypes' BY <1>4, <2>4, <2>6
    <2>8. DataTypes' BY <1>3, <1>6, <2>2, DataKeepsTypes DEF Types, DataTypes
    <2> QED BY <1>3, <1>6, <2>2, <2>3, <2>5, <2>7, <2>8 DEF Types, R1
  <1> QED BY <1>5, <1>6 DEF Serve

\* TZ-REC's next transaction.
LEMMA CommitFacts ==
  ASSUME Types, Commit
  PROVE  /\ Head(queue) \in Transactions /\ queue # <<>> /\ queue' = Tail(queue)
         /\ \A g \in Groups : g # Head(queue).g => rows'[g] = rows[g]
         /\ Head(queue).op = "submit" => rows'[Head(queue).g] = 0
         /\ Head(queue).op = "mark_row" =>
              rows'[Head(queue).g] = IF rows[Head(queue).g] = NoRow THEN NoRow ELSE 1
         /\ Head(queue).op = "remove_row" => rows'[Head(queue).g] = NoRow
         /\ DataTypes'
         /\ UNCHANGED <<mem, unpersisted, file, holder, todo, on, loads, omp, dropping>>
  <1>1. queue # <<>> /\ queue \in Seq(Transactions) BY DEF Commit, Types, DataTypes
  <1>2. Head(queue) \in Transactions /\ Tail(queue) \in Seq(Transactions) BY <1>1
  <1>3. PICK q : q = Head(queue) OBVIOUS
  <1>4. q.g \in Groups /\ q.op \in Ops BY <1>2, <1>3 DEF Transactions
  <1>5. rows' = [rows EXCEPT ![q.g] =
                 CASE q.op = "submit" -> Inserted(q.g)
                   [] q.op = "mark_row" -> IF rows[q.g] = NoRow THEN NoRow ELSE 1
                   [] q.op = "remove_row" -> NoRow]
    BY <1>3 DEF Commit
  <1>6. /\ queue' = Tail(queue)
        /\ UNCHANGED <<mem, unpersisted, file, holder, todo, on, loads, omp, dropping>>
    BY DEF Commit, memVars, tasks
  <1>7. rows \in [Groups -> {0, 1, NoRow}] BY DEF Types, DataTypes
  <1>8. \A g \in Groups : g # q.g => rows'[g] = rows[g] BY <1>5, <1>7
  <1>9. CASE q.op = "submit"
    <2>1. rows' = [rows EXCEPT ![q.g] = 0] BY <1>5, <1>9 DEF Inserted
    <2>2. rows'[q.g] = 0 /\ rows' \in [Groups -> {0, 1, NoRow}] BY <1>4, <1>7, <2>1
    <2>3. DataTypes' BY <1>2, <1>6, <2>2, DataKeepsTypes DEF Types, DataTypes
    <2> QED BY <1>1, <1>2, <1>3, <1>6, <1>8, <1>9, <2>2, <2>3
  <1>10. CASE q.op = "mark_row"
    <2>1. rows' = [rows EXCEPT ![q.g] = IF rows[q.g] = NoRow THEN NoRow ELSE 1]
      BY <1>5, <1>10
    <2>2. /\ rows'[q.g] = IF rows[q.g] = NoRow THEN NoRow ELSE 1
          /\ rows' \in [Groups -> {0, 1, NoRow}]
      BY <1>4, <1>7, <2>1
    <2>3. DataTypes' BY <1>2, <1>6, <2>2, DataKeepsTypes DEF Types, DataTypes
    <2> QED BY <1>1, <1>2, <1>3, <1>6, <1>8, <1>10, <2>2, <2>3
  <1>11. CASE q.op = "remove_row"
    <2>1. rows' = [rows EXCEPT ![q.g] = NoRow] BY <1>5, <1>11
    <2>2. rows'[q.g] = NoRow /\ rows' \in [Groups -> {0, 1, NoRow}] BY <1>4, <1>7, <2>1
    <2>3. DataTypes' BY <1>2, <1>6, <2>2, DataKeepsTypes DEF Types, DataTypes
    <2> QED BY <1>1, <1>2, <1>3, <1>6, <1>8, <1>11, <2>2, <2>3
  <1> QED BY <1>4, <1>9, <1>10, <1>11 DEF Ops

\* A run starts, or starts again.
LEMMA FreshForms ==
  ASSUME DataTypes, todo = [t \in Threads |-> <<>>], on = [t \in Threads |-> NoWork]
  PROVE  Forms
  <1>1. NoWork \in Works BY DEF NoWork, Works
  <1>2. Types BY <1>1 DEF Types, ThreadTypes
  <1>3. \A t \in Threads : todo[t] = <<>> /\ on[t] = NoWork OBVIOUS
  <1>4. Handlers \subseteq Threads /\ Main \in Threads /\ Omp \in Threads BY DEF Threads
  <1>5. \A h \in Handlers : HandlerForm(h) BY <1>3, <1>4 DEF HandlerForm, PlainPts
  <1>6. MainForm /\ OmpForm BY <1>3, <1>4 DEF MainForm, StopPts, OmpForm
  <1>7. Mutex BY <1>3, NotMutex, OmpOutside DEF Mutex, InMutex
  <1> QED BY <1>2, <1>5, <1>6, <1>7 DEF Forms

LEMMA InitForms == Init => Forms
  <1> SUFFICES ASSUME Init PROVE Forms
    OBVIOUS
  <1>1. DataTypes BY DEF Init, DataTypes
  <1> QED BY <1>1, FreshForms DEF Init

LEMMA RebornForms ==
  ASSUME Forms, Reborn
  PROVE  Forms'
  <1>1. Types BY DEF Forms
  <1>2. rows' \in [Groups -> {0, 1, NoRow}] BY <1>1 DEF Reborn, Cleaned, Types, DataTypes
  <1>3. /\ mem' \in [Groups -> SUBSET Layers] /\ unpersisted' \in SUBSET Groups
        /\ queue' \in Seq(Transactions) /\ omp' \in Seq(Tasks) /\ dropping' \in SUBSET Groups
        /\ loads' \in SUBSET [g : Groups, l : Layers]
        /\ holder' \in [Locks -> Threads \cup {Nobody}] /\ file' = file
    BY DEF Reborn
  <1>4. DataTypes' BY <1>1, <1>2, <1>3, DataKeepsTypes
  <1>5. todo' = [t \in Threads |-> <<>>] /\ on' = [t \in Threads |-> NoWork] BY DEF Reborn
  <1>6. Types' /\ (\A t \in Threads : todo'[t] = <<>> /\ on'[t] = NoWork)
    <2>1. NoWork \in Works BY DEF NoWork, Works
    <2> QED BY <1>4, <1>5, <2>1 DEF Types, ThreadTypes
  <1>7. Handlers \subseteq Threads /\ Main \in Threads /\ Omp \in Threads BY DEF Threads
  <1>8. (\A h \in Handlers : HandlerForm(h))' BY <1>6, <1>7 DEF HandlerForm, PlainPts
  <1>9. MainForm' /\ OmpForm' BY <1>6, <1>7 DEF MainForm, StopPts, OmpForm
  <1>10. Mutex' BY <1>6, NotMutex, OmpOutside DEF Mutex, InMutex
  <1> QED BY <1>6, <1>8, <1>9, <1>10 DEF Forms

\* TZ-REC and the scheduler do not move a thread.
LEMMA StillForms ==
  ASSUME Forms, DataTypes', UNCHANGED <<todo, on, holder>>
  PROVE  Forms'
  BY DEF Forms, Types, ThreadTypes, HandlerForm, MainForm, OmpForm, Mutex, InMutex

\* The scheduler.
LEMMA EvictsFacts ==
  ASSUME Types, NEW g \in Groups, SchedulerEvicts(g)
  PROVE  /\ rows[g] # NoRow /\ ~Busy(g) /\ dropping' = dropping \cup {g}
         /\ rows'[g] = (IF rows[g] = 1 THEN 1 ELSE NoRow)
         /\ \A x \in Groups : x # g => rows'[x] = rows[x]
         /\ DataTypes'
         /\ UNCHANGED <<mem, unpersisted, file, queue, holder, todo, on, loads, omp>>
  <1>1. rows \in [Groups -> {0, 1, NoRow}] /\ dropping \in SUBSET Groups BY DEF Types, DataTypes
  <1>2. /\ rows[g] # NoRow /\ ~Busy(g) /\ dropping' = dropping \cup {g}
        /\ rows' = [rows EXCEPT ![g] = IF rows[g] = 1 THEN 1 ELSE NoRow]
        /\ UNCHANGED <<mem, unpersisted, file, queue, holder, todo, on, loads, omp>>
    BY DEF SchedulerEvicts, Has, memVars, tasks
  <1>3. /\ rows'[g] = (IF rows[g] = 1 THEN 1 ELSE NoRow)
        /\ \A x \in Groups : x # g => rows'[x] = rows[x]
        /\ rows' \in [Groups -> {0, 1, NoRow}] /\ dropping' \in SUBSET Groups
    BY <1>1, <1>2
  <1>4. DataTypes' BY <1>2, <1>3, DataKeepsTypes DEF Types, DataTypes
  <1> QED BY <1>2, <1>3, <1>4

\* The first part of the invariant.
LEMMA FormsStep ==
  ASSUME Forms, [NextWithCandidates]_vars
  PROVE  Forms'
  <1>0. Types BY DEF Forms
  <1>1. ASSUME NEW h \in Handlers, Step(h) PROVE Forms'
    <2>1. HandlerForm(h) BY DEF Forms
    <2> QED BY <1>0, <1>1, <2>1, HandlerSteps, HandlerForms
  <1>2. ASSUME NEW t \in Threads, Step(t) PROVE Forms'
    BY <1>1, <1>2, MainForms, OmpForms DEF Threads
  <1>3. ASSUME Serve PROVE Forms'
    <2>1. /\ Others(Omp) /\ Types' /\ holder' = holder
          /\ todo'[Omp] \in {G1, R1, PutTask}
          /\ on'[Omp].g \in Groups /\ on'[Omp].l \in Layers
      BY <1>0, <1>3, ServeFacts DEF Tasks, Work, Types, DataTypes
    <2>2. OmpForm' BY <2>1 DEF OmpForm, GetPts
    <2>3. Omp \in Threads /\ Omp # Main /\ Omp \notin Handlers BY StoreAssumption DEF Threads
    <2>4. ~InMutex(Omp)' BY <2>1, <2>3, OmpOutside DEF InMutex
    <2> QED BY <2>1, <2>2, <2>3, <2>4, FormsKeep
  <1>4. ASSUME Commit PROVE Forms' BY <1>0, <1>4, CommitFacts, StillForms
  <1>5. ASSUME NEW g \in Groups, SchedulerEvicts(g) PROVE Forms'
    BY <1>0, <1>5, EvictsFacts, StillForms
  <1>6. ASSUME Crash \/ Exit \/ \E t \in Threads : Abort(t) PROVE Forms'
    BY <1>6, RebornForms DEF Crash, Exit, Abort
  <1>7. ASSUME UNCHANGED vars PROVE Forms'
    <2>1. /\ mem' = mem /\ unpersisted' = unpersisted /\ rows' = rows /\ file' = file
          /\ queue' = queue /\ loads' = loads /\ omp' = omp /\ dropping' = dropping /\ holder' = holder
          /\ todo' = todo /\ on' = on
      BY <1>7 DEF vars, memVars, diskVars, tasks
    <2>2. DataTypes' BY <1>0, <2>1 DEF Types, DataTypes
    <2> QED BY <2>1, <2>2, StillForms
  <1> QED BY <1>2, <1>3, <1>4, <1>5, <1>6, <1>7, CallForms DEF NextWithCandidates, Next

-----------------------------------------------------------------------------
(* The names of the files.                                                 *)

LEMMA SeqBasics ==
  ASSUME NEW C, NEW s \in Seq(C)
  PROVE  Len(s) \in Nat /\ DOMAIN s = 1..Len(s) /\ \A i \in 1..Len(s) : s[i] \in C
  BY LenProperties, ElementOfSeq

\* The characters before and after position i.
LEMMA Around ==
  ASSUME NEW C, NEW s \in Seq(C), NEW i \in 1..Len(s)
  PROVE  /\ Before(s, i) \in Seq(C) /\ Len(Before(s, i)) = i - 1
         /\ \A j \in 1..(i - 1) : Before(s, i)[j] = s[j]
         /\ After(s, i) \in Seq(C) /\ Len(After(s, i)) = Len(s) - i
         /\ \A j \in 1..(Len(s) - i) : After(s, i)[j] = s[i + j]
  <1>1. Len(s) \in Nat /\ \A j \in 1..Len(s) : s[j] \in C BY SeqBasics
  <1>2. \A j \in 1..(i - 1) : s[j] \in C BY <1>1
  <1>3. /\ SubSeq(s, 1, i - 1) \in Seq(C)
        /\ Len(SubSeq(s, 1, i - 1)) = IF 1 <= i - 1 THEN i - 1 - 1 + 1 ELSE 0
        /\ \A j \in 1..(i - 1 - 1 + 1) : SubSeq(s, 1, i - 1)[j] = s[1 + j - 1]
    BY <1>1, <1>2, SubSeqProperties
  <1>4. \A j \in (i + 1)..Len(s) : s[j] \in C BY <1>1
  <1>5. /\ SubSeq(s, i + 1, Len(s)) \in Seq(C)
        /\ Len(SubSeq(s, i + 1, Len(s))) = IF i + 1 <= Len(s) THEN Len(s) - (i + 1) + 1 ELSE 0
        /\ \A j \in 1..(Len(s) - (i + 1) + 1) : SubSeq(s, i + 1, Len(s))[j] = s[i + 1 + j - 1]
    BY <1>1, <1>4, SubSeqProperties
  <1>6. /\ i - 1 - 1 + 1 = i - 1 /\ \A j \in 1..(i - 1) : 1 + j - 1 = j
        /\ Len(s) - (i + 1) + 1 = Len(s) - i
        /\ \A j \in 1..(Len(s) - i) : i + 1 + j - 1 = i + j
    BY <1>1
  <1>7. /\ Before(s, i) \in Seq(C) /\ Len(Before(s, i)) = i - 1
        /\ \A j \in 1..(i - 1) : Before(s, i)[j] = s[j]
    BY <1>1, <1>3, <1>6 DEF Before
  <1>8. /\ After(s, i) \in Seq(C) /\ Len(After(s, i)) = Len(s) - i
        /\ \A j \in 1..(Len(s) - i) : After(s, i)[j] = s[i + j]
    <2>1. Len(After(s, i)) = Len(s) - i BY <1>1, <1>5 DEF After
    <2>2. After(s, i) \in Seq(C) BY <1>5 DEF After
    <2>3. \A j \in 1..(Len(s) - i) : After(s, i)[j] = s[i + j]
      <3> SUFFICES ASSUME NEW j \in 1..(Len(s) - i) PROVE After(s, i)[j] = s[i + j] OBVIOUS
      <3>1. j \in 1..(Len(s) - (i + 1) + 1) /\ i + 1 + j - 1 = i + j BY <1>6
      <3>2. After(s, i)[j] = s[i + 1 + j - 1] BY <1>5, <3>1 DEF After
      <3> QED BY <3>1, <3>2
    <2> QED BY <2>1, <2>2, <2>3
  <1> QED BY <1>7, <1>8

\* A valid group key has one separator, with a chunk id behind it.
LEMMA KeyParts ==
  ASSUME NEW C, NEW g \in Seq(C), ParseGroupKey(g) # Invalid
  PROVE  \E a \in 1..Len(g) : /\ SeparatorsOf(g) = {a} /\ a < Len(g)
                              /\ ParseGroupKey(g) = <<Before(g, a), After(g, a)>>
  <1> DEFINE seps == SeparatorsOf(g)
             at == CHOOSE i \in seps : TRUE
  <1>1. /\ Cardinality(seps) = 1 /\ ValidLabelComponent(After(g, at))
        /\ ParseGroupKey(g) = <<Before(g, at), After(g, at)>>
    BY DEF ParseGroupKey
  <1>2. Len(g) \in Nat /\ DOMAIN g = 1..Len(g) BY SeqBasics
  <1>3. seps \subseteq 1..Len(g) /\ IsFiniteSet(seps)
    <2>1. seps \subseteq 1..Len(g) BY <1>2 DEF SeparatorsOf
    <2>2. IsFiniteSet(1..Len(g)) BY <1>2, FS_Interval
    <2> QED BY <2>1, <2>2, FS_Subset
  <1>4. PICK a : seps = {a} BY <1>1, <1>3, FS_Singleton
  <1>5. at = a BY <1>4
  <1>6. a \in 1..Len(g) BY <1>3, <1>4
  <1>7. After(g, a) # <<>> BY <1>1, <1>5 DEF ValidLabelComponent
  <1>8. Len(After(g, a)) = Len(g) - a /\ After(g, a) \in Seq(C) BY <1>6, Around
  <1>9. Len(After(g, a)) # 0 BY <1>7, <1>8
  <1>10. a < Len(g)
    <2>1. Len(g) - a # 0 BY <1>8, <1>9, Zenon
    <2>2. PICK n \in Nat : n = Len(g) BY <1>2
    <2>3. a \in 1..n /\ n - a # 0 BY <1>6, <2>1, <2>2
    <2>4. a < n BY <2>3
    <2> QED BY <2>2, <2>4
  <1>11. ParseGroupKey(g) = <<Before(g, a), After(g, a)>> BY <1>1, <1>5
  <1> QED BY <1>4, <1>6, <1>10, <1>11

\* The full label of a group key and a tensor key: its last separator is the one
\* between them, so parsing gives both back.
LEMMA LabelParts ==
  ASSUME NEW C, ":" \in C, NEW g \in Seq(C), ParseGroupKey(g) # Invalid,
         NEW t \in Seq(C), ValidLabelComponent(t)
  PROVE  ParseFullLabel(MakeFullLabel(g, t)) = <<g, t>>
  <1> DEFINE full == g \o <<":">> \o t
             seps == SeparatorsOf(full)
             last == CHOOSE i \in seps : \A j \in seps : j <= i
  <1>1. MakeFullLabel(g, t) = full BY DEF MakeFullLabel, LabelSep
  <1>2. /\ Len(g) \in Nat /\ DOMAIN g = 1..Len(g)
        /\ Len(t) \in Nat /\ DOMAIN t = 1..Len(t)
    BY SeqBasics
  <1>3. <<":">> \in Seq(C) /\ Len(<<":">>) = 1 /\ <<":">>[1] = ":" OBVIOUS
  <1>4. PICK a \in 1..Len(g) : SeparatorsOf(g) = {a} BY KeyParts
  <1>5. PICK u \in Seq(C) : /\ u = g \o <<":">> /\ Len(u) = Len(g) + 1
                            /\ \A i \in 1..(Len(g) + 1) : u[i] = IF i <= Len(g) THEN g[i] ELSE ":"
    <2>1. /\ g \o <<":">> \in Seq(C) /\ Len(g \o <<":">>) = Len(g) + Len(<<":">>)
          /\ \A i \in 1..(Len(g) + Len(<<":">>)) :
               (g \o <<":">>)[i] = IF i <= Len(g) THEN g[i] ELSE <<":">>[i - Len(g)]
      BY <1>3, ConcatProperties
    <2>2. \A i \in 1..(Len(g) + 1) : i <= Len(g) \/ i - Len(g) = 1 BY <1>2
    <2> QED BY <1>2, <1>3, <2>1, <2>2
  <1>6. PICK f \in Seq(C) : /\ f = full /\ Len(f) = Len(g) + 1 + Len(t)
                            /\ \A i \in 1..Len(f) : f[i] = IF i <= Len(g) + 1 THEN u[i] ELSE t[i - (Len(g) + 1)]
    <2>1. /\ u \o t \in Seq(C) /\ Len(u \o t) = Len(u) + Len(t)
          /\ \A i \in 1..(Len(u) + Len(t)) : (u \o t)[i] = IF i <= Len(u) THEN u[i] ELSE t[i - Len(u)]
      BY ConcatProperties
    <2>2. Len(u) = Len(g) + 1 /\ full = u \o t BY <1>5
    <2>3. Len(u \o t) = Len(g) + 1 + Len(t) BY <2>1, <2>2
    <2>4. \A i \in 1..Len(u \o t) :
            (u \o t)[i] = IF i <= Len(g) + 1 THEN u[i] ELSE t[i - (Len(g) + 1)]
      BY <2>1, <2>2
    <2> QED BY <2>1, <2>2, <2>3, <2>4, Zenon
  <1>7. PICK n \in 1..Len(f) : n = Len(g) + 1 BY <1>2, <1>6
  <1>8. f[n] = ":" /\ \A i \in 1..Len(g) : f[i] = g[i]
    BY <1>2, <1>5, <1>6, <1>7
  <1>9. \A i \in 1..Len(t) : f[n + i] = t[i]
    BY <1>2, <1>6, <1>7
  <1>10. SeparatorsOf(f) = {a, n} /\ a # n
    <2>1. DOMAIN f = 1..Len(f) BY SeqBasics
    <2>2. \A i \in 1..Len(g) : g[i] = ":" <=> i = a BY <1>2, <1>4 DEF SeparatorsOf, LabelSep
    <2>3. \A i \in 1..Len(t) : t[i] # ":" BY <1>2 DEF ValidLabelComponent
    <2>4. \A i \in 1..Len(f) : i \in 1..Len(g) \/ i = n \/ (i - n \in 1..Len(t) /\ i = n + (i - n))
      BY <1>2, <1>6, <1>7
    <2>5. \A i \in 1..Len(f) : f[i] = ":" <=> i = a \/ i = n
      <3> SUFFICES ASSUME NEW i \in 1..Len(f) PROVE f[i] = ":" <=> i = a \/ i = n OBVIOUS
      <3>1. CASE i \in 1..Len(g) BY <1>2, <1>7, <1>8, <2>2, <3>1
      <3>2. CASE i = n BY <1>8, <3>2
      <3>3. CASE i - n \in 1..Len(t)
        <4>1. PICK j \in 1..Len(t) : j = i - n BY <3>3
        <4>2. i = n + j BY <4>1, <2>4, <1>2, <1>7
        <4>3. f[i] # ":" BY <4>2, <1>9, <2>3
        <4>4. i # n /\ i # a BY <1>2, <1>4, <1>7, <4>2
        <4> QED BY <4>3, <4>4
      <3> QED BY <2>4, <3>1, <3>2, <3>3
    <2>6. a \in 1..Len(f) /\ a # n BY <1>2, <1>4, <1>6, <1>7
    <2> QED BY <2>1, <2>5, <2>6 DEF SeparatorsOf, LabelSep
  <1>11. Cardinality(SeparatorsOf(f)) > 1
    <2>1. IsFiniteSet({a}) /\ Cardinality({a}) = 1 BY FS_Singleton
    <2>4. n \notin {a} BY <1>10
    <2>2. Cardinality({a} \cup {n}) = Cardinality({a}) + 1 BY <2>4, <2>1, FS_AddElement
    <2>3. {a} \cup {n} = {a, n} OBVIOUS
    <2> QED BY <1>10, <2>1, <2>2, <2>3
  <1>12. last = n
    <2>1. a \in Int /\ n \in Int /\ a <= n BY <1>2, <1>4, <1>6, <1>7
    <2>2. seps = {a, n} BY <1>6, <1>10
    <2>3. \A j \in {a, n} : j <= n BY <2>1
    <2>4. \A i \in {a, n} : (\A j \in {a, n} : j <= i) => i = n BY <2>1
    <2>5. (CHOOSE i \in {a, n} : \A j \in {a, n} : j <= i) = n BY <2>3, <2>4
    <2> QED BY <2>2, <2>5
  <1>13. Before(f, n) = g
    <2>1. /\ Before(f, n) \in Seq(C) /\ Len(Before(f, n)) = n - 1
          /\ \A j \in 1..(n - 1) : Before(f, n)[j] = f[j]
      BY Around
    <2>2. n - 1 = Len(g) BY <1>2, <1>7
    <2>3. \A j \in 1..Len(Before(f, n)) : Before(f, n)[j] = g[j] BY <1>8, <2>1, <2>2
    <2> QED BY <2>1, <2>2, <2>3, SeqEqual
  <1>14. After(f, n) = t
    <2>1. /\ After(f, n) \in Seq(C) /\ Len(After(f, n)) = Len(f) - n
          /\ \A j \in 1..(Len(f) - n) : After(f, n)[j] = f[n + j]
      BY Around
    <2>2. Len(f) - n = Len(t) BY <1>2, <1>6, <1>7
    <2>3. \A j \in 1..Len(After(f, n)) : After(f, n)[j] = t[j] BY <1>9, <2>1, <2>2
    <2> QED BY <2>1, <2>2, <2>3, SeqEqual
  <1>15. ParseFullLabel(f) = <<Before(f, n), After(f, n)>>
    BY <1>6, <1>11, <1>12, <1>13, <1>14 DEF ParseFullLabel
  <1> QED BY <1>1, <1>6, <1>13, <1>14, <1>15

\* The i-th piece holds the characters 2i-1 and, if there is one, 2i.
LEMMA PieceFacts ==
  ASSUME NEW C, NEW s \in Seq(C), NEW i \in 1..((Len(s) + 1) \div 2)
  PROVE  /\ Pieces(s)[i] \in Seq(C)
         /\ Len(Pieces(s)[i]) = IF 2 * i > Len(s) THEN 1 ELSE 2
         /\ Pieces(s)[i][1] = s[2 * i - 1]
         /\ 2 * i <= Len(s) => Pieces(s)[i][2] = s[2 * i]
  <1> DEFINE to == IF 2 * i > Len(s) THEN Len(s) ELSE 2 * i
  <1>1. Len(s) \in Nat /\ \A j \in 1..Len(s) : s[j] \in C BY SeqBasics
  <1>2. Pieces(s)[i] = SubSeq(s, 2 * i - 1, to) BY DEF Pieces
  <1>3. PICK m \in Int : m = 2 * i - 1 BY <1>1
  <1>4. PICK n \in Int : n = to BY <1>1
  <1>5. 1 <= m /\ m <= n /\ n <= Len(s) BY <1>1, <1>3, <1>4
  <1>6. \A j \in m..n : s[j] \in C BY <1>1, <1>5
  <1>7. /\ SubSeq(s, m, n) \in Seq(C)
        /\ Len(SubSeq(s, m, n)) = IF m <= n THEN n - m + 1 ELSE 0
        /\ \A j \in 1..(n - m + 1) : SubSeq(s, m, n)[j] = s[m + j - 1]
    BY <1>6, SubSeqProperties
  <1>8. n - m + 1 = IF 2 * i > Len(s) THEN 1 ELSE 2 BY <1>1, <1>3, <1>4, <1>5
  <1>9. m + 1 - 1 = m /\ m + 2 - 1 = 2 * i BY <1>3
  <1>10. SubSeq(s, m, n)[1] = s[m] BY <1>5, <1>7, <1>9
  <1>11. 2 * i <= Len(s) => SubSeq(s, m, n)[2] = s[2 * i]
    <2> SUFFICES ASSUME 2 * i <= Len(s) PROVE SubSeq(s, m, n)[2] = s[2 * i] OBVIOUS
    <2>1. 2 \in 1..(n - m + 1) BY <1>1, <1>8
    <2> QED BY <1>7, <1>9, <2>1
  <1> HIDE DEF to
  <1> QED BY <1>2, <1>3, <1>4, <1>5, <1>7, <1>8, <1>10, <1>11

\* Cutting a chunk id in pieces loses nothing.
LEMMA PiecesDiffer ==
  ASSUME NEW C, NEW s \in Seq(C), NEW t \in Seq(C), Pieces(s) = Pieces(t)
  PROVE  s = t
  <1>1. Len(s) \in Nat /\ Len(t) \in Nat BY SeqBasics
  <1>2. PICK k \in Nat : k = (Len(s) + 1) \div 2 BY <1>1
  <1>3. k = (Len(t) + 1) \div 2
    <2>1. PICK n \in Nat : n = (Len(t) + 1) \div 2 BY <1>1
    <2>2. DOMAIN Pieces(s) = 1..k BY <1>2 DEF Pieces
    <2>3. DOMAIN Pieces(t) = 1..n BY <2>1 DEF Pieces
    <2>4. 1..k = 1..n BY <2>2, <2>3
    <2>5. k \in 1..k \/ k = 0 OBVIOUS
    <2>6. n \in 1..n \/ n = 0 OBVIOUS
    <2>7. k <= n /\ n <= k BY <2>4, <2>5, <2>6
    <2> QED BY <2>1, <2>7
  <1>4. Len(s) = Len(t)
    <2>1. CASE k = 0 BY <1>1, <1>2, <1>3, <2>1
    <2>2. CASE k # 0
      <3>1. k \in 1..k BY <2>2
      <3>2. Len(Pieces(s)[k]) = IF 2 * k > Len(s) THEN 1 ELSE 2 BY <1>2, <3>1, PieceFacts
      <3>3. Len(Pieces(t)[k]) = IF 2 * k > Len(t) THEN 1 ELSE 2 BY <1>3, <3>1, PieceFacts
      <3>4. 2 * k > Len(s) <=> 2 * k > Len(t) BY <3>2, <3>3
      <3> QED BY <1>1, <1>2, <1>3, <3>4
    <2> QED BY <2>1, <2>2
  <1>5. \A j \in 1..Len(s) : s[j] = t[j]
    <2> SUFFICES ASSUME NEW j \in 1..Len(s) PROVE s[j] = t[j] OBVIOUS
    <2>1. PICK i \in Nat : i = (j + 1) \div 2 BY <1>1
    <2>2. i \in 1..k BY <1>1, <1>2, <2>1
    <2>3. Pieces(s)[i][1] = s[2 * i - 1] /\ (2 * i <= Len(s) => Pieces(s)[i][2] = s[2 * i])
      BY <1>2, <2>2, PieceFacts
    <2>4. Pieces(t)[i][1] = t[2 * i - 1] /\ (2 * i <= Len(t) => Pieces(t)[i][2] = t[2 * i])
      BY <1>3, <2>2, PieceFacts
    <2>5. j = 2 * i - 1 \/ (j = 2 * i /\ 2 * i <= Len(s)) BY <1>1, <2>1
    <2>6. CASE j = 2 * i - 1 BY <2>3, <2>4, <2>6
    <2>7. CASE j = 2 * i /\ 2 * i <= Len(s) BY <1>4, <2>3, <2>4, <2>7
    <2> QED BY <2>5, <2>6, <2>7
  <1> QED BY <1>4, <1>5, SeqEqual

LEMMA OneElement ==
  ASSUME NEW D, NEW d \in D
  PROVE  \E x \in Seq(D) : x = <<d>> /\ Len(x) = 1 /\ x[1] = d
  <1>1. <<d>> \in Seq(D) /\ Len(<<d>>) = 1 /\ <<d>>[1] = d OBVIOUS
  <1> QED BY <1>1

\* z is x followed by y.
IsJoin(z, x, y) ==
  /\ z = x \o y /\ Len(z) = Len(x) + Len(y)
  /\ \A i \in 1..(Len(x) + Len(y)) : z[i] = IF i <= Len(x) THEN x[i] ELSE y[i - Len(x)]

LEMMA Joined ==
  ASSUME NEW D, NEW x \in Seq(D), NEW y \in Seq(D)
  PROVE  \E z \in Seq(D) : IsJoin(z, x, y)
  <1>1. /\ x \o y \in Seq(D) /\ Len(x \o y) = Len(x) + Len(y)
        /\ \A i \in 1..(Len(x) + Len(y)) :
             (x \o y)[i] = IF i <= Len(x) THEN x[i] ELSE y[i - Len(x)]
    BY ConcatProperties
  <1>2. IsJoin(x \o y, x, y) BY <1>1, Zenon DEF IsJoin
  <1> QED BY <1>1, <1>2

\* The path of label L, the k pieces of chunk id K, and tensor key t.
IsPath(path, L, K, k, t) ==
  /\ k = (Len(K) + 1) \div 2 /\ path = <<L>> \o Pieces(K) \o <<t>>
  /\ Len(path) = k + 2 /\ path[1] = L /\ path[k + 2] = t
  /\ \A i \in 1..k : path[1 + i] = Pieces(K)[i]

LEMMA PathFacts ==
  ASSUME NEW C, NEW L \in Seq(C), NEW K \in Seq(C), NEW t \in Seq(C)
  PROVE  \E k \in Nat : \E path \in Seq(Seq(C)) : IsPath(path, L, K, k, t)
  <1>0. PICK k \in Nat : k = (Len(K) + 1) \div 2
    <2>1. Len(K) \in Nat BY SeqBasics
    <2>2. (Len(K) + 1) \div 2 \in Nat BY <2>1
    <2> QED BY <2>2
  <1> DEFINE D == Seq(C)
  <1>1. PICK p \in Seq(D) : p = Pieces(K) /\ Len(p) = k
    <2>1. \A i \in 1..k : Pieces(K)[i] \in Seq(C) BY <1>0, PieceFacts
    <2>2. Pieces(K) = [i \in 1..k |-> Pieces(K)[i]] BY <1>0 DEF Pieces
    <2>3. [i \in 1..k |-> Pieces(K)[i]] \in Seq(D)
          /\ Len([i \in 1..k |-> Pieces(K)[i]]) = k
      BY <2>1
    <2> QED BY <2>2, <2>3
  <1> HIDE DEF D
  <1>2. L \in D /\ t \in D BY DEF D
  <1>3. PICK x \in Seq(D) : x = <<L>> /\ Len(x) = 1 /\ x[1] = L BY <1>2, OneElement
  <1>4. PICK y \in Seq(D) : y = <<t>> /\ Len(y) = 1 /\ y[1] = t BY <1>2, OneElement
  <1>5. PICK u \in Seq(D) : IsJoin(u, x, p) BY Joined
  <1>6. PICK v \in Seq(D) : IsJoin(v, u, y) BY Joined
  <1>12. Len(u) = 1 + k /\ \A i \in 1..(1 + k) : u[i] = IF i <= 1 THEN x[i] ELSE p[i - 1]
    BY <1>1, <1>3, <1>5 DEF IsJoin
  <1>13. /\ Len(v) = 1 + k + 1
         /\ \A i \in 1..(1 + k + 1) : v[i] = IF i <= 1 + k THEN u[i] ELSE y[i - (1 + k)]
    BY <1>4, <1>6, <1>12 DEF IsJoin
  <1>7. v = <<L>> \o Pieces(K) \o <<t>> BY <1>1, <1>3, <1>4, <1>5, <1>6 DEF IsJoin
  <1>8. v[1] = L BY <1>3, <1>12, <1>13
  <1>9. v[k + 2] = t
    <2>5. k + 2 \in 1..(1 + k + 1) OBVIOUS
    <2>1. PICK n \in 1..(1 + k + 1) : n = k + 2 BY <2>5, Zenon
    <2>2. ~(n <= 1 + k) /\ n - (1 + k) = 1 BY <2>1
    <2>3. v[n] = y[n - (1 + k)] BY <1>13, <2>2, Zenon
    <2>4. v[n] = y[1] BY <2>2, <2>3
    <2> QED BY <1>4, <2>1, <2>4
  <1>10. \A i \in 1..k : v[1 + i] = p[i]
    <2> SUFFICES ASSUME NEW i \in 1..k PROVE v[1 + i] = p[i] OBVIOUS
    <2>1. 1 + i \in 1..(1 + k) /\ 1 + i \in 1..(1 + k + 1) /\ ~(1 + i <= 1) /\ 1 + i <= 1 + k
          /\ 1 + i - 1 = i OBVIOUS
    <2> QED BY <1>12, <1>13, <2>1
  <1>11. 1 + k + 1 = k + 2 OBVIOUS
  <1>14. /\ v \in Seq(Seq(C)) /\ Len(v) = k + 2
         /\ \A i \in 1..k : v[1 + i] = Pieces(K)[i]
    BY <1>1, <1>10, <1>11, <1>13 DEF D
  <1>15. IsPath(v, L, K, k, t) BY <1>0, <1>7, <1>8, <1>9, <1>14, Zenon DEF IsPath
  <1> QED BY <1>14, <1>15

\* A group key is its label, the separator and its chunk id.
LEMMA KeysDiffer ==
  ASSUME NEW C, NEW g \in Seq(C), ParseGroupKey(g) # Invalid,
         NEW h \in Seq(C), ParseGroupKey(h) # Invalid, ParseGroupKey(g) = ParseGroupKey(h)
  PROVE  g = h
  <1>1. Len(g) \in Nat /\ Len(h) \in Nat BY SeqBasics
  <1>2. PICK a \in 1..Len(g) : SeparatorsOf(g) = {a} /\ ParseGroupKey(g) = <<Before(g, a), After(g, a)>>
    BY KeyParts
  <1>3. PICK b \in 1..Len(h) : SeparatorsOf(h) = {b} /\ ParseGroupKey(h) = <<Before(h, b), After(h, b)>>
    BY KeyParts
  <1>4. Before(g, a) = Before(h, b) /\ After(g, a) = After(h, b)
    <2>1. <<Before(g, a), After(g, a)>> = <<Before(h, b), After(h, b)>> BY <1>2, <1>3
    <2> HIDE DEF Before, After
    <2> QED BY <2>1
  <1>5. /\ Len(Before(g, a)) = a - 1 /\ Len(After(g, a)) = Len(g) - a
        /\ \A j \in 1..(a - 1) : Before(g, a)[j] = g[j]
        /\ \A j \in 1..(Len(g) - a) : After(g, a)[j] = g[a + j]
    BY Around
  <1>6. /\ Len(Before(h, b)) = b - 1 /\ Len(After(h, b)) = Len(h) - b
        /\ \A j \in 1..(b - 1) : Before(h, b)[j] = h[j]
        /\ \A j \in 1..(Len(h) - b) : After(h, b)[j] = h[b + j]
    BY Around
  <1>7. a = b /\ Len(g) = Len(h) BY <1>1, <1>2, <1>3, <1>4, <1>5, <1>6
  <1>8. g[a] = ":" /\ h[a] = ":" BY <1>2, <1>3, <1>7 DEF SeparatorsOf, LabelSep
  <1>9. \A j \in 1..Len(g) : g[j] = h[j]
    <2> SUFFICES ASSUME NEW j \in 1..Len(g) PROVE g[j] = h[j] OBVIOUS
    <2>1. CASE j < a
      <3>1. j \in 1..(a - 1) BY <1>1, <2>1
      <3> QED BY <1>4, <1>5, <1>6, <1>7, <3>1
    <2>2. CASE j = a BY <1>8, <2>2
    <2>3. CASE j > a
      <3>1. PICK i \in 1..(Len(g) - a) : j = a + i
        <4>1. j - a \in 1..(Len(g) - a) /\ j = a + (j - a) BY <1>1, <2>3
        <4> QED BY <4>1
      <3> QED BY <1>4, <1>5, <1>6, <1>7, <3>1
    <2> QED BY <1>1, <2>1, <2>2, <2>3
  <1> QED BY <1>7, <1>9, SeqEqual

\* The path p stands for label L, the k pieces of chunk id K, and tensor key t.
PathStands(p, L, K, k, t) ==
  /\ k = (Len(K) + 1) \div 2
  /\ DOMAIN p = 1..(k + 2)
  /\ p[1] = L /\ p[k + 2] = t \o <<".", "b", "i", "n">>
  /\ \A i \in 1..k : p[1 + i] = Pieces(K)[i]

\* What FilePath gives for a full label made from a group key and a tensor key.
LEMMA FileFacts ==
  ASSUME NEW C, {":", ".", "b", "i", "n"} \subseteq C,
         NEW g \in Seq(C), ParseGroupKey(g) # Invalid,
         NEW t \in Seq(C), ValidLabelComponent(t)
  PROVE  \E L \in Seq(C) : \E K \in Seq(C) : \E k \in Nat :
           ParseGroupKey(g) = <<L, K>> /\ PathStands(FilePath(MakeFullLabel(g, t)), L, K, k, t)
  <1>1. PICK a \in 1..Len(g) : ParseGroupKey(g) = <<Before(g, a), After(g, a)>> BY KeyParts
  <1>2. PICK L \in Seq(C) : L = Before(g, a) BY Around
  <1>3. PICK K \in Seq(C) : K = After(g, a) BY Around
  <1>5. PICK k \in Nat, path \in Seq(Seq(C)) : IsPath(path, L, K, k, t) BY PathFacts
  <1>4. /\ k = (Len(K) + 1) \div 2 /\ path = <<L>> \o Pieces(K) \o <<t>>
        /\ Len(path) = k + 2 /\ path[1] = L /\ path[k + 2] = t
        /\ \A i \in 1..k : path[1 + i] = Pieces(K)[i]
    BY <1>5 DEF IsPath
  <1>7. GetPathFromLabel(MakeFullLabel(g, t)) = path
    <2>1. ParseFullLabel(MakeFullLabel(g, t)) = <<g, t>> BY LabelParts
    <2>2. PICK w : w = MakeFullLabel(g, t) OBVIOUS
    <2>3. ParseFullLabel(w)[1] = g /\ ParseFullLabel(w)[2] = t BY <2>1, <2>2
    <2>4. ParseGroupKey(g)[1] = L /\ ParseGroupKey(g)[2] = K BY <1>1, <1>2, <1>3
    <2>5. GetPathFromLabel(w) = <<L>> \o Pieces(K) \o <<t>> BY <2>3, <2>4, Zenon DEF GetPathFromLabel
    <2>6. path = <<L>> \o Pieces(K) \o <<t>> BY <1>4
    <2> QED BY <2>2, <2>5, <2>6, Zenon
  <1>8. FilePath(MakeFullLabel(g, t)) = [path EXCEPT ![k + 2] = t \o <<".", "b", "i", "n">>]
    BY <1>4, <1>7 DEF FilePath
  <1>10. PICK p : p = FilePath(MakeFullLabel(g, t)) OBVIOUS
  <1>9. DOMAIN path = 1..(k + 2) BY <1>4, SeqBasics
  <1>11. /\ DOMAIN p = 1..(k + 2) /\ p[k + 2] = t \o <<".", "b", "i", "n">>
         /\ \A i \in 1..(k + 1) : p[i] = path[i]
    <2>1. k + 2 \in 1..(k + 2) /\ \A i \in 1..(k + 1) : i \in 1..(k + 2) /\ i # k + 2 OBVIOUS
    <2> QED BY <1>8, <1>9, <1>10, <2>1
  <1>12. p[1] = L /\ \A i \in 1..k : p[1 + i] = Pieces(K)[i]
    <2>1. 1 \in 1..(k + 1) /\ \A i \in 1..k : 1 + i \in 1..(k + 1) OBVIOUS
    <2> QED BY <1>4, <1>11, <2>1
  <1>13. ParseGroupKey(g) = <<L, K>> BY <1>1, <1>2, <1>3
  <1>14. PathStands(p, L, K, k, t) BY <1>4, <1>11, <1>12 DEF PathStands
  <1> QED BY <1>10, <1>13, <1>14

\* Two entries share a file only if they have the same group and the same tensor key.
LEMMA NamesDiffer ==
  ASSUME NEW C, {":", ".", "b", "i", "n"} \subseteq C,
         NEW g \in Seq(C), ParseGroupKey(g) # Invalid,
         NEW t \in Seq(C), ValidLabelComponent(t),
         NEW h \in Seq(C), ParseGroupKey(h) # Invalid,
         NEW u \in Seq(C), ValidLabelComponent(u),
         FilePath(MakeFullLabel(g, t)) = FilePath(MakeFullLabel(h, u))
  PROVE  g = h /\ t = u
  <1> DEFINE bin == <<".", "b", "i", "n">>
  <1>1. PICK p : p = FilePath(MakeFullLabel(g, t)) /\ p = FilePath(MakeFullLabel(h, u)) OBVIOUS
  <1>2. PICK L \in Seq(C), K \in Seq(C), k \in Nat :
          ParseGroupKey(g) = <<L, K>> /\ PathStands(p, L, K, k, t)
    BY <1>1, FileFacts
  <1>3. /\ ParseGroupKey(g) = <<L, K>> /\ k = (Len(K) + 1) \div 2
        /\ DOMAIN p = 1..(k + 2) /\ p[1] = L /\ p[k + 2] = t \o bin
        /\ \A i \in 1..k : p[1 + i] = Pieces(K)[i]
    BY <1>2 DEF PathStands
  <1>4. PICK M \in Seq(C), N \in Seq(C), n \in Nat :
          ParseGroupKey(h) = <<M, N>> /\ PathStands(p, M, N, n, u)
    BY <1>1, FileFacts
  <1>5. /\ ParseGroupKey(h) = <<M, N>> /\ n = (Len(N) + 1) \div 2
        /\ DOMAIN p = 1..(n + 2) /\ p[1] = M /\ p[n + 2] = u \o bin
        /\ \A i \in 1..n : p[1 + i] = Pieces(N)[i]
    BY <1>4 DEF PathStands
  <1>6. k = n
    <2>1. 1..(k + 2) = 1..(n + 2) BY <1>3, <1>5
    <2>2. k + 2 \in 1..(k + 2) /\ n + 2 \in 1..(n + 2) OBVIOUS
    <2>3. k + 2 <= n + 2 /\ n + 2 <= k + 2 BY <2>1, <2>2
    <2> QED BY <2>3
  <1>7. Pieces(K) = Pieces(N)
    <2>1. \A i \in 1..k : Pieces(K)[i] = Pieces(N)[i] BY <1>3, <1>5, <1>6
    <2>2. Pieces(K) = [i \in 1..k |-> Pieces(K)[i]] BY <1>3 DEF Pieces
    <2>3. Pieces(N) = [i \in 1..k |-> Pieces(N)[i]] BY <1>5, <1>6 DEF Pieces
    <2> QED BY <2>1, <2>2, <2>3
  <1>8. K = N BY <1>7, PiecesDiffer
  <1>9. g = h
    <2>1. ParseGroupKey(g) = ParseGroupKey(h) BY <1>3, <1>5, <1>8
    <2> QED BY <2>1, KeysDiffer
  <1>10. t = u
    <2>1. bin \in Seq(C) OBVIOUS
    <2>2. t \o bin = u \o bin BY <1>3, <1>5, <1>6
    <2> HIDE DEF bin
    <2> QED BY <2>1, <2>2, ConcatSimplifications
  <1> QED BY <1>9, <1>10

\* Two entries never share a file: what one writes, truncates or removes is its own.
THEOREM FilesDiffer ==
  \A g, h \in Groups : \A k, l \in Layers : FileOf[g][k] = FileOf[h][l] => g = h /\ k = l
  <1> SUFFICES ASSUME NEW g \in Groups, NEW h \in Groups, NEW k \in Layers, NEW l \in Layers,
                      FileOf[g][k] = FileOf[h][l]
               PROVE  g = h /\ k = l
    OBVIOUS
  <1>1. PICK C : C = STRING \cup {":", ".", "b", "i", "n"} OBVIOUS
  <1>2. {":", ".", "b", "i", "n"} \subseteq C /\ STRING \subseteq C BY <1>1
  <1>3. TensorKeys \in Seq(Seq(STRING)) BY StoreAssumption
  <1>4. DOMAIN TensorKeys = Layers BY <1>3, SeqBasics DEF Layers, NumLayers
  <1>5. \A i \in Layers : TensorKeys[i] \in Seq(C) /\ ValidLabelComponent(TensorKeys[i])
    <2>1. \A i \in Layers : TensorKeys[i] \in Seq(STRING) BY <1>3, SeqBasics DEF Layers, NumLayers
    <2>2. \A s \in Seq(STRING) : s \in Seq(C) BY <1>2, SeqMonotonic
    <2> QED BY <1>4, <2>1, <2>2, StoreAssumption
  <1>6. \A i \in Groups : i \in Seq(C) /\ ParseGroupKey(i) # Invalid
    <2>1. \A s \in Seq(STRING) : s \in Seq(C) BY <1>2, SeqMonotonic
    <2> QED BY <2>1, StoreAssumption
  <1>7. PICK t : t = TensorKeys[k] OBVIOUS
  <1>8. PICK u : u = TensorKeys[l] OBVIOUS
  <1>9. FilePath(MakeFullLabel(g, t)) = FilePath(MakeFullLabel(h, u)) BY <1>7, <1>8 DEF FileOf
  <1>10. /\ g \in Seq(C) /\ ParseGroupKey(g) # Invalid /\ t \in Seq(C) /\ ValidLabelComponent(t)
         /\ h \in Seq(C) /\ ParseGroupKey(h) # Invalid /\ u \in Seq(C) /\ ValidLabelComponent(u)
    BY <1>5, <1>6, <1>7, <1>8
  <1>11. g = h /\ t = u BY <1>2, <1>9, <1>10, NamesDiffer
  <1>12. k = l BY <1>4, <1>7, <1>8, <1>11, StoreAssumption
  <1> QED BY <1>11, <1>12

-----------------------------------------------------------------------------
(* What is under way for a group.                                          *)

\* The end of the worker's programs holds no put_finish.
LEMMA NoSubmit ==
  \A p \in {<<>>, X1, X2, X3, S1, S2, F1, F2, F3, Unzip, Py} :
    \A i \in 1..Len(p) : p[i] # "submit"
  <1>1. X1 = <<"take_op", "sync", "exit">> BY Cat21 DEF X1, Stop, Sync
  <1>2. \A i \in 1..Len(X1) : X1[i] # "submit" BY <1>1
  <1>3. \A p \in {<<>>, X2, X3, S1, S2, F1, F2, F3, Unzip, Py} :
          \A i \in 1..Len(p) : p[i] # "submit"
    BY DEF X2, X3, S1, S2, F1, F2, F3, Status, Unzip, Py
  <1> QED BY <1>2, <1>3

\* Whatever is under way for a group makes it busy; put_finish is called before
\* the worker's thread waits for the Record.
LEMMA BusyFacts ==
  ASSUME NEW g \in Groups
  PROVE  /\ ToSubmit(g) => Busy(g)
         /\ \A l \in Layers : Pend(g, l) => Busy(g)
         /\ Flushing(g) => Busy(g)
         /\ ToSubmit(g) => todo[Main] \notin FlushPts
  <1>1. ToSubmit(g) => Busy(g) BY DEF ToSubmit, Busy
  <1>2. ASSUME NEW l \in Layers, Pend(g, l) PROVE Busy(g)
    BY <1>1, <1>2 DEF Pend, Coming, PutOn, Busy, Work
  <1>3. Flushing(g) => Busy(g) BY DEF Flushing, Busy
  <1>4. ToSubmit(g) => todo[Main] \notin FlushPts BY NoSubmit DEF ToSubmit, FlushPts
  <1> QED BY <1>1, <1>2, <1>3, <1>4

\* A sequence that grows or loses its head.
LEMMA SeqGrows ==
  ASSUME NEW S, NEW s \in Seq(S), NEW e \in S
  PROVE  /\ Len(Append(s, e)) = Len(s) + 1 /\ Append(s, e)[Len(s) + 1] = e
         /\ \A i \in 1..Len(s) : Append(s, e)[i] = s[i]
         /\ \A i \in 1..(Len(s) + 1) : i \in 1..Len(s) \/ i = Len(s) + 1
         /\ 1..Len(s) \subseteq 1..(Len(s) + 1) /\ Len(s) + 1 \in 1..(Len(s) + 1)
  <1>1. Len(s) \in Nat OBVIOUS
  <1>2. \A i \in 1..(Len(s) + 1) : i \in 1..Len(s) \/ i = Len(s) + 1 BY <1>1
  <1>3. 1..Len(s) \subseteq 1..(Len(s) + 1) /\ Len(s) + 1 \in 1..(Len(s) + 1) BY <1>1
  <1>4. /\ Len(Append(s, e)) = Len(s) + 1 /\ Append(s, e)[Len(s) + 1] = e
        /\ \A i \in 1..Len(s) : Append(s, e)[i] = s[i]
    OBVIOUS
  <1> QED BY <1>2, <1>3, <1>4

LEMMA SeqShrinks ==
  ASSUME NEW S, NEW s \in Seq(S), s # <<>>
  PROVE  /\ \A i \in 1..Len(s) : (i = 1 /\ s[i] = Head(s)) \/
              \E j \in 1..Len(Tail(s)) : Tail(s)[j] = s[i]
         /\ \A j \in 1..Len(Tail(s)) : \E i \in 1..Len(s) : s[i] = Tail(s)[j]
         /\ 1 \in 1..Len(s) /\ s[1] = Head(s)
  <1>1. Len(s) \in Nat /\ Len(s) >= 1 /\ Len(Tail(s)) = Len(s) - 1 /\ Head(s) = s[1] OBVIOUS
  <1>2. \A j \in 1..Len(Tail(s)) : Tail(s)[j] = s[j + 1] /\ j + 1 \in 1..Len(s) BY <1>1
  <1>3. ASSUME NEW i \in 1..Len(s), i # 1
        PROVE  \E j \in 1..Len(Tail(s)) : Tail(s)[j] = s[i]
    <2>1. i - 1 \in 1..Len(Tail(s)) /\ (i - 1) + 1 = i BY <1>1, <1>3
    <2> QED BY <1>2, <2>1
  <1> QED BY <1>1, <1>2, <1>3

\* TZ-REC's queue with one transaction more or less.
LEMMA QueuedGrows ==
  ASSUME Types, NEW o \in Ops, NEW g \in Groups, queue' = Append(queue, [op |-> o, g |-> g])
  PROVE  \A p \in Ops : \A x \in Groups :
           Queued(p, x)' <=> Queued(p, x) \/ (p = o /\ x = g)
  <1> TAKE p \in Ops
  <1> TAKE x \in Groups
  <1>1. PICK e : e = [op |-> o, g |-> g] OBVIOUS
  <1>2. e \in Transactions /\ e.op = o /\ e.g = g BY <1>1 DEF Transactions
  <1>3. queue \in Seq(Transactions) BY DEF Types, DataTypes
  <1>4. /\ Len(queue') = Len(queue) + 1 /\ queue'[Len(queue) + 1] = e
        /\ \A i \in 1..Len(queue) : queue'[i] = queue[i]
        /\ \A i \in 1..(Len(queue) + 1) : i \in 1..Len(queue) \/ i = Len(queue) + 1
        /\ 1..Len(queue) \subseteq 1..(Len(queue) + 1)
        /\ Len(queue) + 1 \in 1..(Len(queue) + 1)
    BY <1>1, <1>2, <1>3, SeqGrows
  <1>5. ASSUME Queued(p, x)' PROVE Queued(p, x) \/ (p = o /\ x = g)
    <2>1. PICK i \in 1..(Len(queue) + 1) : queue'[i].op = p /\ queue'[i].g = x
      BY <1>4, <1>5 DEF Queued
    <2> QED BY <1>2, <1>4, <2>1 DEF Queued
  <1>6. ASSUME Queued(p, x) PROVE Queued(p, x)'
    <2>1. PICK i \in 1..Len(queue) : queue[i].op = p /\ queue[i].g = x
      BY <1>6 DEF Queued
    <2>2. i \in 1..Len(queue') /\ queue'[i] = queue[i] BY <1>4
    <2> QED BY <2>1, <2>2 DEF Queued
  <1>7. ASSUME p = o /\ x = g PROVE Queued(p, x)'
    <2>1. Len(queue) + 1 \in 1..Len(queue') BY <1>4
    <2>2. queue'[Len(queue) + 1].op = p /\ queue'[Len(queue) + 1].g = x BY <1>2, <1>4, <1>7
    <2> QED BY <2>1, <2>2 DEF Queued
  <1> QED BY <1>5, <1>6, <1>7

LEMMA QueuedShrinks ==
  ASSUME Types, queue # <<>>, queue' = Tail(queue)
  PROVE  \A p \in Ops : \A x \in Groups :
           Queued(p, x) <=> Queued(p, x)' \/ (Head(queue).op = p /\ Head(queue).g = x)
  <1> TAKE p \in Ops
  <1> TAKE x \in Groups
  <1>1. queue \in Seq(Transactions) BY DEF Types, DataTypes
  <1>2. /\ \A i \in 1..Len(queue) : (i = 1 /\ queue[i] = Head(queue)) \/
             \E j \in 1..Len(queue') : queue'[j] = queue[i]
        /\ \A j \in 1..Len(queue') : \E i \in 1..Len(queue) : queue[i] = queue'[j]
        /\ 1 \in 1..Len(queue) /\ queue[1] = Head(queue)
    BY <1>1, SeqShrinks
  <1>3. ASSUME Queued(p, x) PROVE Queued(p, x)' \/ (Head(queue).op = p /\ Head(queue).g = x)
    <2>1. PICK i \in 1..Len(queue) : queue[i].op = p /\ queue[i].g = x BY <1>3 DEF Queued
    <2> QED BY <1>2, <2>1 DEF Queued
  <1>4. ASSUME Queued(p, x)' PROVE Queued(p, x)
    <2>1. PICK j \in 1..Len(queue') : queue'[j].op = p /\ queue'[j].g = x BY <1>4 DEF Queued
    <2> QED BY <1>2, <2>1 DEF Queued
  <1>5. ASSUME Head(queue).op = p /\ Head(queue).g = x PROVE Queued(p, x)
    BY <1>2, <1>5 DEF Queued
  <1> QED BY <1>3, <1>4, <1>5

\* The same for OMP-Main's queue.
OmpBusy(g) == \E i \in 1..Len(omp) : omp[i].g = g

LEMMA OmpGrows ==
  ASSUME Types, NEW b \in BOOLEAN, NEW g \in Groups, NEW l \in Layers,
         omp' = Append(omp, [put |-> b, g |-> g, l |-> l])
  PROVE  /\ \A x \in Groups : \A k \in Layers :
              PutOn(x, k)' <=> PutOn(x, k) \/ (b /\ x = g /\ k = l)
         /\ \A x \in Groups : OmpBusy(x)' <=> OmpBusy(x) \/ x = g
  <1>1. PICK e : e = [put |-> b, g |-> g, l |-> l] OBVIOUS
  <1>2. e \in Tasks /\ e.put = b /\ e.g = g /\ e.l = l BY <1>1 DEF Tasks
  <1>3. omp \in Seq(Tasks) BY DEF Types, DataTypes
  <1>4. /\ Len(omp') = Len(omp) + 1 /\ omp'[Len(omp) + 1] = e
        /\ \A i \in 1..Len(omp) : omp'[i] = omp[i]
        /\ \A i \in 1..(Len(omp) + 1) : i \in 1..Len(omp) \/ i = Len(omp) + 1
        /\ 1..Len(omp) \subseteq 1..(Len(omp) + 1)
        /\ Len(omp) + 1 \in 1..(Len(omp) + 1)
    BY <1>1, <1>2, <1>3, SeqGrows
  <1>5. /\ \A i \in 1..Len(omp') : omp'[i] = e \/ \E j \in 1..Len(omp) : omp[j] = omp'[i]
        /\ \A j \in 1..Len(omp) : \E i \in 1..Len(omp') : omp'[i] = omp[j]
        /\ \E i \in 1..Len(omp') : omp'[i] = e
    BY <1>4
  <1>6. \A x \in Groups : \A k \in Layers :
          PutOn(x, k)' <=> PutOn(x, k) \/ (b /\ x = g /\ k = l)
    BY <1>2, <1>5 DEF PutOn
  <1>8. \A x \in Groups : OmpBusy(x)' <=> OmpBusy(x) \/ x = g
    BY <1>2, <1>5 DEF OmpBusy
  <1> QED BY <1>6, <1>8

LEMMA OmpShrinks ==
  ASSUME Types, omp # <<>>, omp' = Tail(omp), NEW e, e = Head(omp)
  PROVE  /\ \A x \in Groups : \A k \in Layers :
              PutOn(x, k) <=> PutOn(x, k)' \/ (e.put /\ x = e.g /\ k = e.l)
         /\ \A x \in Groups : OmpBusy(x) <=> OmpBusy(x)' \/ x = e.g
  <1>1. omp \in Seq(Tasks) BY DEF Types, DataTypes
  <1>2. /\ \A i \in 1..Len(omp) : (i = 1 /\ omp[i] = Head(omp)) \/
             \E j \in 1..Len(omp') : omp'[j] = omp[i]
        /\ \A j \in 1..Len(omp') : \E i \in 1..Len(omp) : omp[i] = omp'[j]
        /\ 1 \in 1..Len(omp) /\ omp[1] = Head(omp)
    BY <1>1, SeqShrinks
  <1>5. /\ \A i \in 1..Len(omp) : omp[i] = e \/ \E j \in 1..Len(omp') : omp'[j] = omp[i]
        /\ \A j \in 1..Len(omp') : \E i \in 1..Len(omp) : omp[i] = omp'[j]
        /\ \E i \in 1..Len(omp) : omp[i] = e
    BY <1>2
  <1>6. \A x \in Groups : \A k \in Layers :
          PutOn(x, k) <=> PutOn(x, k)' \/ (e.put /\ x = e.g /\ k = e.l)
    <2> SUFFICES ASSUME NEW x \in Groups, NEW k \in Layers
                 PROVE  PutOn(x, k) <=> PutOn(x, k)' \/ (e.put /\ x = e.g /\ k = e.l)
      OBVIOUS
    <2>1. ASSUME PutOn(x, k) PROVE PutOn(x, k)' \/ (e.put /\ x = e.g /\ k = e.l)
      <3>1. PICK i \in 1..Len(omp) : omp[i].put /\ omp[i].g = x /\ omp[i].l = k
        BY <2>1 DEF PutOn
      <3>2. CASE omp[i] = e BY <3>1, <3>2
      <3>3. CASE \E j \in 1..Len(omp') : omp'[j] = omp[i]
        <4>1. PICK j \in 1..Len(omp') : omp'[j] = omp[i] BY <3>3
        <4>2. omp'[j].put /\ omp'[j].g = x /\ omp'[j].l = k BY <3>1, <4>1
        <4> QED BY <4>2 DEF PutOn
      <3> QED BY <1>5, <3>2, <3>3
    <2>2. ASSUME PutOn(x, k)' PROVE PutOn(x, k)
      <3>1. PICK j \in 1..Len(omp') : omp'[j].put /\ omp'[j].g = x /\ omp'[j].l = k
        BY <2>2 DEF PutOn
      <3>2. PICK i \in 1..Len(omp) : omp[i] = omp'[j] BY <1>5
      <3>3. omp[i].put /\ omp[i].g = x /\ omp[i].l = k BY <3>1, <3>2
      <3> QED BY <3>3 DEF PutOn
    <2>3. e.put /\ x = e.g /\ k = e.l => PutOn(x, k) BY <1>5, Zenon DEF PutOn
    <2> QED BY <2>1, <2>2, <2>3
  <1>8. \A x \in Groups : OmpBusy(x) <=> OmpBusy(x)' \/ x = e.g
    BY <1>5 DEF OmpBusy
  <1> QED BY <1>6, <1>8

-----------------------------------------------------------------------------
(* Steps of the worker's threads.  A calm one starts no save: what is on   *)
(* its way stays on its way or reaches Mem.                                *)

\* Where the handlers that work on a group are.
LEMMA OperatorFacts ==
  ASSUME Forms, NEW h \in Handlers
  PROVE  /\ todo[h] \in PersistPts \cup EvictPts =>
              Operator /\ on[h].g \in Groups /\ on[h].l \in 1..(NumLayers + 1)
         /\ todo[h] \in DropPts => on[h].g \in Groups /\ on[h].l = 0
         /\ todo[h] \in PlainPts => on[h] = NoWork
  <1>1. HandlerForm(h) BY DEF Forms
  <1>2. todo[h] \in PersistPts \cup EvictPts => on[h].g \in Groups /\ on[h].l \in 1..(NumLayers + 1)
    BY <1>1, KindsApart DEF HandlerForm
  <1>3. \A l \in 1..(NumLayers + 1) : l # 0 OBVIOUS
  <1>4. todo[h] \in DropPts => on[h].g \in Groups /\ on[h].l = 0
    BY <1>1, KindsApart DEF HandlerForm
  <1>5. todo[h] \in PlainPts => on[h] = NoWork BY <1>1, KindsApart DEF HandlerForm
  <1> QED BY <1>2, <1>3, <1>4, <1>5 DEF Operator

Handlers0 == \A h \in Handlers : todo'[h] = todo[h] /\ on'[h] = on[h]

CalmFor(g) ==
  /\ g \in dropping /\ Busy(g)' => Busy(g)
  /\ SubmitPending(g)' <=> SubmitPending(g)
  /\ FlushFirst(g)'
  /\ Queued("mark_row", g)' <=> Queued("mark_row", g)
  /\ Queued("remove_row", g)' <=> Queued("remove_row", g)
  /\ \A l \in Layers : Pend(g, l)' => Pend(g, l)
  /\ Covered(g) => Covered(g)'
  /\ g \in unpersisted' => g \in unpersisted \/ \E l \in Layers : Pend(g, l)
Calm ==
  /\ UNCHANGED <<rows, file, dropping>> /\ Handlers0
  /\ \A g \in Groups : CalmFor(g)

LEMMA CalmKeeps ==
  ASSUME Forms, Traffic, Data, Calm
  PROVE  Traffic' /\ Data'
  <1>1. /\ rows' = rows /\ file' = file /\ dropping' = dropping
        /\ \A h \in Handlers : todo'[h] = todo[h] /\ on'[h] = on[h]
    BY DEF Calm, Handlers0
  <1>2. ASSUME NEW g \in Groups PROVE CalmFor(g) BY DEF Calm
  <1>3. Operator' <=> Operator BY <1>1 DEF Operator
  <1>4. OperatorAlone'
    <2> SUFFICES ASSUME Operator', NEW g \in Groups
                 PROVE  (~SubmitPending(g) /\ \A l \in Layers : ~Pend(g, l))'
      BY DEF OperatorAlone
    <2>1. ~SubmitPending(g) /\ \A l \in Layers : ~Pend(g, l)
      BY <1>3 DEF Traffic, OperatorAlone
    <2> QED BY <1>2, <2>1 DEF CalmFor
  <1>5. DropOnce' BY <1>1 DEF DropOnce, Traffic
  <1>6. ASSUME NEW g \in Groups PROVE FlushFirst(g)' /\ DropApart(g)'
    <2>1. DropApart(g) BY DEF Traffic
    <2>2. FlushFirst(g)' BY <1>2 DEF CalmFor
    <2>3. DropApart(g)' BY <1>1, <1>2, <2>1 DEF CalmFor, DropApart
    <2> QED BY <2>2, <2>3
  <1>7. ASSUME NEW g \in Groups
        PROVE  Resaved(g)' /\ Kept(g)' /\ Marking(g)' /\ Removing(g)'
    <2>1. Resaved(g) /\ Kept(g) /\ Marking(g) /\ Removing(g) BY DEF Data
    <2>2. Resaved(g)' BY <1>1, <1>2, <2>1 DEF CalmFor, Resaved
    <2>3. Kept(g)' BY <1>1, <1>2, <2>1 DEF CalmFor, Kept
    <2>4. Marking(g)' BY <1>1, <1>2, <2>1 DEF CalmFor, Marking
    <2>5. Removing(g)' BY <1>1, <1>2, <2>1 DEF CalmFor, Removing
    <2> QED BY <2>2, <2>3, <2>4, <2>5
  <1>8. ASSUME NEW h \in Handlers, NEW g \in Groups
        PROVE  Persisting(h, g)' /\ Evicting(h, g)'
    <2>1. Persisting(h, g) /\ Evicting(h, g) BY DEF Data
    <2>2. todo[h] \in {P4, P5} => \A l \in Layers : ~Pend(g, l)
      <3>1. {P4, P5} \subseteq PersistPts \cup EvictPts BY DEF PersistPts
      <3> QED BY <3>1, OperatorFacts DEF Traffic, OperatorAlone
    <2>3. todo'[h] = todo[h] /\ on'[h] = on[h] BY <1>1
    <2>4. todo[h] \in {P4, P5} /\ g \notin unpersisted => g \notin unpersisted'
      BY <1>2, <2>2 DEF CalmFor
    <2>5. Persisting(h, g)' BY <1>1, <2>1, <2>3, <2>4 DEF Persisting
    <2>6. Evicting(h, g)' BY <1>1, <1>2, <2>1, <2>3 DEF CalmFor, Evicting
    <2> QED BY <2>5, <2>6
  <1>9. OnDisk' BY <1>1 DEF Data, OnDisk
  <1> QED BY <1>4, <1>5, <1>6, <1>7, <1>8, <1>9 DEF Traffic, Data

\* A step that leaves the queues alone, and what the worker's thread is about.
LEMMA PlainCalm ==
  ASSUME NEW g \in Groups,
         UNCHANGED <<mem, unpersisted, loads, omp, queue>>,
         todo'[Omp] = todo[Omp], on'[Omp] = on[Omp],
         on'[Main].g = g /\ g \in dropping => on[Main].g = g,
         ToSubmit(g)' <=> ToSubmit(g), ToSubmit(g) => on'[Main].l = on[Main].l,
         Queued("submit", g) => Flushing(g)'
  PROVE  CalmFor(g)
  <1>1. /\ mem' = mem /\ unpersisted' = unpersisted
        /\ loads' = loads /\ omp' = omp /\ queue' = queue
    OBVIOUS
  <1>2. \A o \in Ops : Queued(o, g)' <=> Queued(o, g) BY <1>1 DEF Queued
  <1>3. Ops = {"submit", "mark_row", "remove_row"} BY DEF Ops
  <1>4. g \in dropping /\ Busy(g)' => Busy(g) BY <1>1 DEF Busy
  <1>5. \A l \in Layers : Pend(g, l)' <=> Pend(g, l) BY <1>1 DEF Pend, Coming, PutOn
  <1>6. FlushFirst(g)' BY <1>2, <1>3 DEF FlushFirst
  <1>8. SubmitPending(g)' <=> SubmitPending(g) BY <1>2, <1>3 DEF SubmitPending
  <1>9. Covered(g)' <=> Covered(g) BY <1>1, <1>5 DEF Covered
  <1> QED BY <1>1, <1>2, <1>3, <1>4, <1>5, <1>6, <1>8, <1>9 DEF CalmFor

\* Groups are not nobody, and a thread without work works on none.
LEMMA NoGroup ==
  ASSUME NEW g \in Groups
  PROVE  NoWork.g # g
  BY StoreAssumption DEF NoWork

\* A task of the worker's thread, and its queue.
LEMMA TaskFacts ==
  ASSUME Types, NEW q, MTask, todo' = [todo EXCEPT ![Main] = q]
  PROVE  /\ Others(Main) /\ todo'[Main] = q
         /\ on'[Main].g = on[Main].g /\ on'[Main].l = on[Main].l + 1
  <1>1. Main \in Threads BY DEF Threads
  <1>2. on \in [Threads -> Works] /\ todo = [t \in Threads |-> todo[t]]
    BY DEF Types, ThreadTypes
  <1>3. on' = [on EXCEPT ![Main] = [on[Main] EXCEPT !.l = @ + 1]] BY DEF MTask
  <1>4. /\ [on[Main] EXCEPT !.l = @ + 1].g = on[Main].g
        /\ [on[Main] EXCEPT !.l = @ + 1].l = on[Main].l + 1
    BY <1>1, <1>2 DEF Works
  <1>5. /\ on'[Main] = [on[Main] EXCEPT !.l = @ + 1]
        /\ \A u \in Threads : u # Main => on'[u] = on[u]
    BY <1>1, <1>2, <1>3
  <1>6. todo'[Main] = q /\ \A u \in Threads : u # Main => todo'[u] = todo[u]
    BY <1>1, <1>2
  <1> QED BY <1>4, <1>5, <1>6 DEF Others

\* Every step of the worker's own thread inside a call is calm.
LEMMA MainCalm ==
  ASSUME Forms, Traffic, Step(Main)
  PROVE  Calm
  <1>1. Types /\ MainForm /\ Main \in Threads /\ Omp \in Threads /\ Main # Omp
        /\ Handlers \subseteq Threads /\ Main \notin Handlers /\ NumLayers \in Nat
    BY StoreAssumption DEF Forms, Threads, NumLayers
  <1>2. Others(Main) => /\ Handlers0 /\ todo'[Omp] = todo[Omp] /\ on'[Omp] = on[Omp]
    BY <1>1 DEF Others, Handlers0
  <1>3. /\ on[Main].g \in Groups \/ todo[Main] \in IdlePts
        /\ MPlain \/ MPut \/ MGet \/ MSubmit
    BY <1>1, MainSteps
  <1>4. ASSUME NEW g \in Groups PROVE FlushFirst(g) /\ NoWork.g # g BY NoGroup DEF Traffic
  <1>5. CASE MPlain
    <2>1. /\ mem' = mem /\ unpersisted' = unpersisted /\ rows' = rows /\ file' = file
          /\ queue' = queue /\ loads' = loads /\ omp' = omp /\ dropping' = dropping
      BY <1>5 DEF MPlain, shared, memVars, diskVars, tasks
    <2>2. ASSUME NEW p, NEW q, Moves(Main, p, q)
          PROVE  /\ Others(Main) /\ todo[Main] = p /\ todo'[Main] = q
                 /\ on'[Main] = IF q = <<>> THEN NoWork ELSE on[Main]
      BY <1>1, <2>2, MovesFacts
    <2>3. ASSUME NEW g \in Groups, Others(Main), on'[Main] \in {NoWork, on[Main]},
                 ToSubmit(g)' <=> ToSubmit(g), ToSubmit(g) => on'[Main] = on[Main],
                 Queued("submit", g) => Flushing(g)'
          PROVE  CalmFor(g)
      <3>1. on'[Main].g = g => on[Main].g = g BY <1>4, <2>3
      <3> QED BY <1>2, <2>1, <2>3, <3>1, PlainCalm
    <2>4. ASSUME NEW p \in IdlePts, NEW q, Moves(Main, p, q) PROVE Calm
      <3>1. Others(Main) /\ on'[Main] \in {NoWork, on[Main]} /\ todo[Main] = p BY <2>2, <2>4
      <3>2. on[Main] = NoWork /\ p \notin FlushPts
        BY <1>1, <3>1, MainHeads, FlushApart DEF MainForm, IdlePts, StopPts
      <3>3. ASSUME NEW g \in Groups PROVE CalmFor(g)
        <4>1. ~ToSubmit(g) /\ ~ToSubmit(g)' BY <1>4, <3>1, <3>2 DEF ToSubmit
        <4>2. ~Queued("submit", g) BY <1>4, <3>1, <3>2 DEF FlushFirst, Flushing
        <4> QED BY <2>3, <3>1, <4>1, <4>2
      <3> QED BY <1>2, <2>1, <3>1, <3>3 DEF Calm
    <2>5. CASE Moves(Main, Py, <<>>)
      <3>1. Others(Main) /\ on'[Main] = NoWork /\ todo[Main] = Py /\ todo'[Main] = <<>>
        BY <2>2, <2>5
      <3>2. ASSUME NEW g \in Groups PROVE CalmFor(g)
        <4>1. ~ToSubmit(g) /\ ~ToSubmit(g)' BY <3>1, NoSubmit DEF ToSubmit
        <4>2. ~Queued("submit", g) BY <1>4, <3>1, FlushApart DEF FlushFirst, Flushing
        <4> QED BY <2>3, <3>1, <4>1, <4>2
      <3> QED BY <1>2, <2>1, <3>1, <3>2 DEF Calm
    <2>6. CASE /\ on[Main].l \in 2..(NumLayers + 1)
               /\ Moves(Main, PyRest(on[Main].l), PutRest(on[Main].l))
      <3>1. PICK l \in 2..(NumLayers + 1) : l = on[Main].l BY <2>6
      <3>2. l \in 1..(NumLayers + 1) BY <1>1
      <3>3. PutRest(l) # <<>> /\ Head(PutRest(l)) \in {"queue_put", "submit"} BY <3>2, MainHeads
      <3>4. Moves(Main, PyRest(l), PutRest(l)) BY <2>6, <3>1
      <3>5. Others(Main) /\ todo[Main] = PyRest(l) /\ todo'[Main] = PutRest(l)
            /\ on'[Main] = on[Main]
        BY <2>2, <3>3, <3>4
      <3>6. ASSUME NEW g \in Groups PROVE CalmFor(g)
        <4>1. ToSubmit(g)' <=> ToSubmit(g) BY <3>2, <3>5, SaveSubmits DEF ToSubmit
        <4>2. on[Main].g = g => ToSubmit(g) BY <3>5, SaveSubmits DEF ToSubmit
        <4>3. ~Queued("submit", g) BY <1>4, <4>2, BusyFacts DEF FlushFirst, Flushing
        <4> QED BY <2>3, <3>5, <4>1, <4>3
      <3> QED BY <1>2, <2>1, <3>5, <3>6 DEF Calm
    <2>7. CASE Moves(Main, F1, F2) \/ Moves(Main, F2, F3) \/ (queue = <<>> /\ Moves(Main, F3, Py))
      <3>1. PICK p \in {F1, F2, F3}, q \in {F2, F3, Py} :
              Moves(Main, p, q) /\ (q = Py => queue = <<>>)
        BY <2>7, FlushApart DEF FlushPts
      <3>2. Others(Main) /\ todo[Main] = p /\ todo'[Main] = q /\ on'[Main] = on[Main]
        BY <2>2, <3>1, MainHeads
      <3>3. ASSUME NEW g \in Groups PROVE CalmFor(g)
        <4>1. ~ToSubmit(g) /\ ~ToSubmit(g)' BY <3>1, <3>2, NoSubmit DEF ToSubmit
        <4>2. Queued("submit", g) => Flushing(g)'
          <5>1. queue = <<>> => ~Queued("submit", g) BY DEF Queued
          <5>2. q # Py => q \in FlushPts BY <3>1 DEF FlushPts
          <5> QED BY <1>4, <3>1, <3>2, <5>1, <5>2 DEF FlushFirst, Flushing
        <4> QED BY <2>3, <3>2, <4>1, <4>2
      <3> QED BY <1>2, <2>1, <3>2, <3>3 DEF Calm
    <2>8. X1 \in IdlePts /\ X2 \in IdlePts /\ S1 \in IdlePts /\ S2 \in IdlePts BY DEF IdlePts
    <2> QED BY <1>5, <2>4, <2>5, <2>6, <2>7, <2>8 DEF MPlain
  <1>6. CASE MPut
    <2>1. MTask /\ todo[Main] = PutRest(on[Main].l) /\ on[Main].l \in Layers
          /\ todo' = [todo EXCEPT ![Main] = PyRest(on[Main].l + 1)]
      BY <1>6 DEF MPut, MTask
    <2>2. PICK l \in Layers : l = on[Main].l BY <2>1
    <2>3. PICK q : q = PyRest(l + 1) OBVIOUS
    <2>4. l \in 1..(NumLayers + 1) /\ l + 1 \in 2..(NumLayers + 1) /\ l \in Nat
      BY <1>1 DEF Layers
    <2>5. todo[Main] = PutRest(l) /\ todo' = [todo EXCEPT ![Main] = q] BY <2>1, <2>2, <2>3
    <2>6. /\ Others(Main) /\ todo'[Main] = q
          /\ on'[Main].g = on[Main].g /\ on'[Main].l = l + 1
      BY <1>1, <2>1, <2>2, <2>5, TaskFacts
    <2>7. todo[Main] \notin IdlePts
      BY <2>4, <2>5, MainHeads DEF IdlePts
    <2>8. PICK c \in Groups : c = on[Main].g BY <1>3, <2>7
    <2>9. omp' = Append(omp, [put |-> TRUE, g |-> c, l |-> l]) /\ loads' = loads
      BY <1>6, <2>2, <2>8 DEF MPut, PutQueued
    <2>10. /\ \A x \in Groups : \A k \in Layers :
                PutOn(x, k)' <=> PutOn(x, k) \/ (TRUE /\ x = c /\ k = l)
           /\ \A x \in Groups : OmpBusy(x)' <=> OmpBusy(x) \/ x = c
      <3>1. TRUE \in BOOLEAN OBVIOUS
      <3> QED BY <1>1, <2>9, <3>1, OmpGrows
    <2>11. /\ mem' = mem /\ unpersisted' = unpersisted /\ rows' = rows /\ file' = file
           /\ queue' = queue /\ dropping' = dropping
      BY <2>1 DEF MTask
    <2>12. todo'[Omp] = todo[Omp] /\ on'[Omp] = on[Omp] /\ Handlers0 BY <1>2, <2>6
    <2>13. ASSUME NEW g \in Groups PROVE CalmFor(g)
      <3>1. ToSubmit(g) <=> g = c
        BY <2>4, <2>5, <2>8, SaveSubmits DEF ToSubmit
      <3>2. ToSubmit(g)' <=> g = c
        BY <2>3, <2>4, <2>6, <2>8, SaveSubmits DEF ToSubmit
      <3>3. Busy(g)' => Busy(g)
        <4>1. OmpBusy(g)' => OmpBusy(g) \/ g = c BY <2>10
        <4> QED BY <2>6, <2>8, <2>9, <2>12, <4>1 DEF Busy, OmpBusy
      <3>4. ASSUME NEW k \in Layers PROVE Pend(g, k)' <=> Pend(g, k)
        <4>1. k \in Nat BY <1>1 DEF Layers
        <4>2. PutOn(g, k)' <=> PutOn(g, k) \/ (g = c /\ k = l) BY <2>10
        <4>3. l <= k <=> l + 1 <= k \/ k = l BY <2>4, <4>1
        <4> QED BY <2>2, <2>6, <2>12, <3>1, <3>2, <4>2, <4>3 DEF Pend, Coming
      <3>5. ~Queued("submit", g) BY <1>4, <2>8, <3>1, BusyFacts DEF FlushFirst, Flushing
      <3>7. \A o \in Ops : Queued(o, g)' <=> Queued(o, g) BY <2>11 DEF Queued
      <3>8. Ops = {"submit", "mark_row", "remove_row"} BY DEF Ops
      <3>9. SubmitPending(g)' <=> SubmitPending(g) BY <3>1, <3>2, <3>7, <3>8 DEF SubmitPending
      <3>10. Covered(g)' <=> Covered(g) BY <2>11, <3>4 DEF Covered
      <3>11. FlushFirst(g)' BY <3>5, <3>7, <3>8 DEF FlushFirst
      <3> QED BY <2>11, <3>3, <3>4, <3>7, <3>8, <3>9, <3>10, <3>11 DEF CalmFor
    <2> QED BY <2>11, <2>12, <2>13 DEF Calm
  <1>7. CASE MGet
    <2>1. MTask /\ todo[Main] = Unzip /\ on[Main].l \in Layers
          /\ todo' = [todo EXCEPT ![Main] = Py]
      BY <1>7 DEF MGet, MTask
    <2>2. PICK l \in Layers : l = on[Main].l BY <2>1
    <2>6. Others(Main) /\ todo'[Main] = Py /\ on'[Main].g = on[Main].g
      BY <1>1, <2>1, TaskFacts
    <2>7. todo[Main] \notin IdlePts /\ todo[Main] \notin FlushPts
      BY <2>1, MainHeads DEF IdlePts, FlushPts
    <2>8. PICK c \in Groups : c = on[Main].g BY <1>3, <2>7
    <2>9. loads' = loads \cup {Work(c, l)} /\ omp' = omp BY <1>7, <2>2, <2>8 DEF MGet, GetQueued
    <2>11. /\ mem' = mem /\ unpersisted' = unpersisted /\ rows' = rows /\ file' = file
           /\ queue' = queue /\ dropping' = dropping
      BY <2>1 DEF MTask
    <2>12. todo'[Omp] = todo[Omp] /\ on'[Omp] = on[Omp] /\ Handlers0 BY <1>2, <2>6
    <2>13. ASSUME NEW g \in Groups PROVE CalmFor(g)
      <3>1. ~ToSubmit(g) BY <2>1, NoSubmit DEF ToSubmit
      <3>2. ~ToSubmit(g)' BY <2>6, NoSubmit DEF ToSubmit
      <3>3. Busy(g)' => Busy(g)
        <4>1. \A w \in loads' : w \in loads \/ w.g = c BY <2>9 DEF Work
        <4> QED BY <2>6, <2>8, <2>9, <2>12, <4>1 DEF Busy
      <3>4. ASSUME NEW k \in Layers PROVE Pend(g, k)' <=> Pend(g, k)
        BY <2>9, <2>12, <3>1, <3>2 DEF Pend, Coming, PutOn
      <3>5. ~Queued("submit", g) BY <1>4, <2>7 DEF FlushFirst, Flushing
      <3>7. \A o \in Ops : Queued(o, g)' <=> Queued(o, g) BY <2>11 DEF Queued
      <3>8. Ops = {"submit", "mark_row", "remove_row"} BY DEF Ops
      <3>9. SubmitPending(g)' <=> SubmitPending(g) BY <3>1, <3>2, <3>7, <3>8 DEF SubmitPending
      <3>10. Covered(g)' <=> Covered(g) BY <2>11, <3>4 DEF Covered
      <3>11. FlushFirst(g)' BY <3>5, <3>7, <3>8 DEF FlushFirst
      <3> QED BY <2>11, <3>3, <3>4, <3>7, <3>8, <3>9, <3>10, <3>11 DEF CalmFor
    <2> QED BY <2>11, <2>12, <2>13 DEF Calm
  <1>8. CASE MSubmit
    <2>1. /\ queue' = Append(queue, [op |-> "submit", g |-> on[Main].g])
          /\ on[Main].l = NumLayers + 1 /\ Moves(Main, PutRest(NumLayers + 1), F1)
          /\ mem' = mem /\ unpersisted' = unpersisted /\ rows' = rows /\ file' = file
          /\ loads' = loads /\ omp' = omp /\ dropping' = dropping
      BY <1>8 DEF MSubmit
    <2>2. NumLayers + 1 \in 1..(NumLayers + 1) BY <1>1
    <2>3. PICK p : p = PutRest(NumLayers + 1) OBVIOUS
    <2>4. Moves(Main, p, F1) BY <2>1, <2>3
    <2>5. /\ Others(Main) /\ todo[Main] = p /\ todo'[Main] = F1 /\ on'[Main] = on[Main]
      BY <1>1, <2>4, MovesFacts, MainHeads
    <2>6. p # <<>> /\ Head(p) \in {"queue_put", "submit"} BY <2>2, <2>3, MainHeads
    <2>7. todo[Main] \notin IdlePts BY <2>5, <2>6, MainHeads DEF IdlePts
    <2>8. PICK c \in Groups : c = on[Main].g BY <1>3, <2>7
    <2>9. \A o \in Ops : \A x \in Groups :
            Queued(o, x)' <=> Queued(o, x) \/ (o = "submit" /\ x = c)
      <3>1. "submit" \in Ops /\ queue' = Append(queue, [op |-> "submit", g |-> c])
        BY <2>1, <2>8 DEF Ops
      <3> QED BY <1>1, <3>1, QueuedGrows
    <2>12. todo'[Omp] = todo[Omp] /\ on'[Omp] = on[Omp] /\ Handlers0 BY <1>2, <2>5
    <2>13. ASSUME NEW g \in Groups PROVE CalmFor(g)
      <3>1. ToSubmit(g) <=> g = c BY <2>2, <2>3, <2>5, <2>8, SaveSubmits DEF ToSubmit
      <3>2. ~ToSubmit(g)' BY <2>5, NoSubmit DEF ToSubmit
      <3>3. Busy(g)' <=> Busy(g) BY <2>1, <2>5, <2>12 DEF Busy
      <3>4. ASSUME NEW k \in Layers PROVE Pend(g, k)' <=> Pend(g, k)
        <4>1. ~(on[Main].l <= k) BY <1>1, <2>1 DEF Layers
        <4> QED BY <2>1, <2>12, <3>2, <4>1 DEF Pend, Coming, PutOn
      <3>5. ~Queued("submit", g) BY <1>4, <2>8, <3>1, BusyFacts DEF FlushFirst, Flushing
      <3>8. /\ Queued("submit", g)' <=> Queued("submit", g) \/ g = c
            /\ Queued("mark_row", g)' <=> Queued("mark_row", g)
            /\ Queued("remove_row", g)' <=> Queued("remove_row", g)
        BY <2>9 DEF Ops
      <3>9. SubmitPending(g)' <=> SubmitPending(g) BY <3>1, <3>2, <3>8 DEF SubmitPending
      <3>10. Covered(g)' <=> Covered(g) BY <2>1, <3>4 DEF Covered
      <3>11. FlushFirst(g)'
        <4>1. F1 \in FlushPts BY DEF FlushPts
        <4> QED BY <2>5, <2>8, <3>5, <3>8, <4>1 DEF FlushFirst, Flushing
      <3> QED BY <2>1, <3>3, <3>4, <3>8, <3>9, <3>10, <3>11 DEF CalmFor
    <2> QED BY <2>1, <2>12, <2>13 DEF Calm
  <1> QED BY <1>3, <1>5, <1>6, <1>7, <1>8

\* Every step of OMP-Main inside a task is calm.
LEMMA OmpCalm ==
  ASSUME Forms, Traffic, Step(Omp)
  PROVE  Calm
  <1>1. Types /\ OmpForm /\ Main \in Threads /\ Omp \in Threads /\ Main # Omp
        /\ Handlers \subseteq Threads /\ Omp \notin Handlers
    BY StoreAssumption DEF Forms, Threads
  <1>2. Others(Omp) => /\ Handlers0 /\ todo'[Main] = todo[Main] /\ on'[Main] = on[Main]
    BY <1>1 DEF Others, Handlers0
  <1>3. PICK c \in Groups : c = on[Omp].g BY <1>1, OmpSteps
  <1>4. PICK n \in Layers : n = on[Omp].l BY <1>1, OmpSteps
  <1>5. OPlain \/ OMiss \/ OPut \/ OLoad \/ ONot \/ ORetry BY <1>1, OmpSteps
  <1>6. ASSUME NEW g \in Groups PROVE FlushFirst(g) /\ NoWork.g # g BY NoGroup DEF Traffic
  <1>7. ASSUME NEW p, NEW q, Moves(Omp, p, q)
        PROVE  /\ Others(Omp) /\ todo[Omp] = p /\ todo'[Omp] = q
               /\ on'[Omp] = IF q = <<>> THEN NoWork ELSE on[Omp]
    BY <1>1, <1>7, MovesFacts
  <1>8. ASSUME NEW g \in Groups, Others(Omp), UNCHANGED <<loads, queue>>,
               \A l \in Layers : PutOn(g, l)' <=> PutOn(g, l),
               OmpBusy(g)' => OmpBusy(g) \/ g = c,
               mem'[g] = mem[g] \/ (g = c /\ mem'[g] = mem[g] \cup {n}),
               on'[Omp] \in {NoWork, on[Omp]},
               \/ g \in unpersisted' => g \in unpersisted
               \/ todo[Omp] = PutTask /\ g = c,
               todo[Omp] = PutTask => n \in mem'[c],
               todo[Omp] # PutTask => todo'[Omp] # PutTask
        PROVE  CalmFor(g)
    <2>1. /\ loads' = loads /\ queue' = queue
          /\ todo'[Main] = todo[Main] /\ on'[Main] = on[Main]
      BY <1>2, <1>8
    <2>2. on'[Omp].g = g => on'[Omp] = on[Omp] /\ g = c BY <1>3, <1>6, <1>8
    <2>3. \A o \in Ops : Queued(o, g)' <=> Queued(o, g) BY <2>1 DEF Queued
    <2>4. Ops = {"submit", "mark_row", "remove_row"} BY DEF Ops
    <2>5. Busy(g)' => Busy(g) BY <1>3, <1>8, <2>1, <2>2 DEF Busy, OmpBusy
    <2>6. ToSubmit(g)' <=> ToSubmit(g) BY <2>1 DEF ToSubmit
    <2>7. SubmitPending(g)' <=> SubmitPending(g) BY <2>3, <2>4, <2>6 DEF SubmitPending
    <2>8. ASSUME NEW l \in Layers PROVE Pend(g, l)' => Pend(g, l)
      <3>1. PutOn(g, l)' <=> PutOn(g, l) BY <1>8
      <3>2. todo'[Omp] = PutTask /\ on'[Omp] = Work(g, l)
              => todo[Omp] = PutTask /\ on[Omp] = Work(g, l)
        BY <1>8, <2>2 DEF Work
      <3> QED BY <2>1, <2>6, <3>1, <3>2 DEF Pend, Coming
    <2>9. FlushFirst(g)' BY <1>6, <2>1, <2>3, <2>4 DEF FlushFirst, Flushing
    <2>11. ASSUME NEW l \in Layers, l \in mem[g] \/ Pend(g, l)
           PROVE  l \in mem'[g] \/ Pend(g, l)'
      <3>1. l \in mem[g] => l \in mem'[g] BY <1>8
      <3>2. PutOn(g, l)' <=> PutOn(g, l) BY <1>8
      <3>3. todo[Omp] = PutTask /\ on[Omp] = Work(g, l) => l \in mem'[g]
        BY <1>3, <1>4, <1>8 DEF Work
      <3> QED BY <2>1, <2>6, <2>11, <3>1, <3>2, <3>3 DEF Pend, Coming
    <2>12. Covered(g) => Covered(g)' BY <2>11 DEF Covered
    <2>13. g \in unpersisted' => g \in unpersisted \/ \E l \in Layers : Pend(g, l)
      <3>1. todo[Omp] = PutTask /\ g = c => Pend(g, n)
        <4>1. on[Omp] \in Works BY <1>1 DEF Types, ThreadTypes
        <4>2. on[Omp] = Work(c, n) BY <1>3, <1>4, <4>1 DEF Works, Work
        <4> QED BY <4>2 DEF Pend, Coming
      <3> QED BY <1>8, <3>1
    <2> QED BY <2>3, <2>4, <2>5, <2>7, <2>8, <2>9, <2>12, <2>13 DEF CalmFor
  <1>9. {G1, G2, G3, G4, L1, L2, N1, N2, R1, R2, R3, M1, M2} = GetPts BY DEF GetPts, MissPts
  <1>10. \A p \in GetPts \cup {<<>>} : p # PutTask BY OmpHeads DEF GetPts, MissPts
  <1>11. ASSUME UNCHANGED shared
         PROVE  /\ mem' = mem /\ unpersisted' = unpersisted /\ rows' = rows /\ file' = file
                /\ queue' = queue /\ loads' = loads /\ omp' = omp /\ dropping' = dropping
    BY <1>11 DEF shared, memVars, diskVars, tasks
  <1>14. ASSUME omp' = omp, NEW g \in Groups
         PROVE  (\A l \in Layers : PutOn(g, l)' <=> PutOn(g, l)) /\ (OmpBusy(g)' <=> OmpBusy(g))
    BY <1>14 DEF PutOn, OmpBusy
  <1>12. ASSUME UNCHANGED shared, NEW p \in GetPts, NEW q \in GetPts \cup {<<>>}, Moves(Omp, p, q)
         PROVE  Calm
    <2>1. /\ mem' = mem /\ unpersisted' = unpersisted /\ rows' = rows /\ file' = file
          /\ queue' = queue /\ loads' = loads /\ omp' = omp /\ dropping' = dropping
      BY <1>11, <1>12
    <2>2. /\ Others(Omp) /\ todo[Omp] = p /\ todo'[Omp] = q
          /\ on'[Omp] \in {NoWork, on[Omp]}
      BY <1>7, <1>12
    <2>4. p # PutTask /\ q # PutTask BY <1>10, <1>12
    <2>5. \A g \in Groups : CalmFor(g) BY <1>8, <1>14, <2>1, <2>2, <2>4
    <2> QED BY <1>2, <2>1, <2>2, <2>5 DEF Calm
  <1>13. CASE OPlain \/ OMiss \/ ONot
    <2>1. UNCHANGED shared BY <1>13, NotFacts DEF OPlain, OMiss, ONot
    <2>2. \E p \in GetPts : \E q \in GetPts \cup {<<>>} : Moves(Omp, p, q)
      <3>1. {G1, G2, G3, G4, L1, L2, N1, N2, R1, R2, R3, M1, M2} \subseteq GetPts BY <1>9
      <3> QED BY <1>13, <3>1 DEF OPlain, OMiss, ONot
    <2> QED BY <1>12, <2>1, <2>2
  <1>15. CASE OPut
    <2>1. /\ mem' = [mem EXCEPT ![c] = @ \cup {n}] /\ unpersisted' = unpersisted \cup {c}
          /\ Moves(Omp, PutTask, <<>>)
          /\ rows' = rows /\ file' = file /\ queue' = queue /\ loads' = loads /\ omp' = omp
          /\ dropping' = dropping
      BY <1>3, <1>4, <1>15 DEF OPut
    <2>2. Others(Omp) /\ todo[Omp] = PutTask /\ todo'[Omp] = <<>> /\ on'[Omp] = NoWork
      BY <1>7, <2>1
    <2>3. /\ n \in mem'[c]
          /\ \A g \in Groups : mem'[g] = mem[g] \/ (g = c /\ mem'[g] = mem[g] \cup {n})
      BY <1>1, <2>1 DEF Types, DataTypes
    <2>5. ASSUME NEW g \in Groups PROVE CalmFor(g)
      <3>1. (g \in unpersisted' => g \in unpersisted) \/ (todo[Omp] = PutTask /\ g = c)
        BY <2>1, <2>2
      <3> QED BY <1>8, <1>14, <2>1, <2>2, <2>3, <3>1
    <2> QED BY <1>2, <2>1, <2>2, <2>5 DEF Calm
  <1>16. CASE OLoad
    <2>1. PICK p \in {L2, M2} : ReadFile(Omp) /\ Moves(Omp, p, G4) BY <1>16 DEF OLoad
    <2>2. Others(Omp) /\ todo[Omp] = p /\ todo'[Omp] = G4 /\ on'[Omp] = on[Omp]
      BY <1>7, <2>1, OmpHeads
    <2>6. /\ mem' = [mem EXCEPT ![c] = @ \cup {n}] /\ unpersisted' = unpersisted \ {c}
          /\ rows' = rows /\ file' = file /\ queue' = queue
          /\ loads' = loads /\ omp' = omp /\ dropping' = dropping
      BY <1>1, <1>3, <1>4, <2>1, LoadFacts
    <2>7. \A g \in Groups : mem'[g] = mem[g] \/ (g = c /\ mem'[g] = mem[g] \cup {n})
      BY <1>1, <2>6 DEF Types, DataTypes
    <2>8. G4 # PutTask /\ p # PutTask BY <1>9, <1>10
    <2>9. ASSUME NEW g \in Groups PROVE CalmFor(g)
      <3>1. g \in unpersisted' => g \in unpersisted BY <2>6
      <3> QED BY <1>8, <1>14, <2>2, <2>6, <2>7, <2>8, <3>1
    <2> QED BY <1>2, <2>2, <2>6, <2>9 DEF Calm
  <1>17. CASE ORetry
    <2>1. /\ omp' = Append(omp, [put |-> FALSE, g |-> c, l |-> n]) /\ Moves(Omp, N2, <<>>)
          /\ mem' = mem /\ unpersisted' = unpersisted /\ rows' = rows /\ file' = file
          /\ queue' = queue /\ loads' = loads /\ dropping' = dropping
      BY <1>3, <1>4, <1>17 DEF ORetry
    <2>2. Others(Omp) /\ todo[Omp] = N2 /\ todo'[Omp] = <<>> /\ on'[Omp] = NoWork
      BY <1>7, <2>1
    <2>3. /\ \A x \in Groups : \A k \in Layers :
               PutOn(x, k)' <=> PutOn(x, k) \/ (FALSE /\ x = c /\ k = n)
          /\ \A x \in Groups : OmpBusy(x)' <=> OmpBusy(x) \/ x = c
      <3>1. FALSE \in BOOLEAN OBVIOUS
      <3> QED BY <1>1, <2>1, <3>1, OmpGrows
    <2>4. N2 # PutTask /\ <<>> # PutTask BY <1>9, <1>10
    <2>5. ASSUME NEW g \in Groups PROVE CalmFor(g)
      <3>1. /\ \A l \in Layers : PutOn(g, l)' <=> PutOn(g, l)
            /\ OmpBusy(g)' => OmpBusy(g) \/ g = c
        BY <2>3
      <3> QED BY <1>8, <2>1, <2>2, <2>4, <3>1
    <2> QED BY <1>2, <2>1, <2>2, <2>5 DEF Calm
  <1> QED BY <1>5, <1>13, <1>15, <1>16, <1>17

\* OMP-Main takes up a task: what was queued is now being done.
LEMMA ServeCalm ==
  ASSUME Forms, Traffic, Serve
  PROVE  Calm
  <1>1. Types /\ OmpForm /\ Main \in Threads /\ Omp \in Threads /\ Main # Omp
        /\ Handlers \subseteq Threads /\ Omp \notin Handlers
    BY StoreAssumption DEF Forms, Threads
  <1>3. /\ todo[Omp] = <<>> /\ Others(Omp)
        /\ mem' = mem /\ unpersisted' = unpersisted /\ rows' = rows /\ file' = file
        /\ queue' = queue /\ dropping' = dropping
        /\ \/ /\ todo'[Omp] = G1 /\ on'[Omp] \in loads
              /\ loads' = loads \ {on'[Omp]} /\ omp' = omp
           \/ /\ loads = {} /\ loads' = {} /\ Head(omp) \in Tasks /\ omp # <<>> /\ omp' = Tail(omp)
              /\ todo'[Omp] = (IF Head(omp).put THEN PutTask ELSE R1)
              /\ on'[Omp] = Work(Head(omp).g, Head(omp).l)
    BY <1>1, ServeFacts
  <1>4. Handlers0 /\ todo'[Main] = todo[Main] /\ on'[Main] = on[Main]
    BY <1>1, <1>3 DEF Others, Handlers0
  <1>6. G1 # PutTask /\ R1 # PutTask /\ PutTask # <<>> BY OmpHeads
  <1>7. ASSUME NEW g \in Groups, Busy(g)' => Busy(g),
               \A l \in Layers : Coming(g, l)' <=> Coming(g, l)
        PROVE  CalmFor(g)
    <2>1. \A o \in Ops : Queued(o, g)' <=> Queued(o, g) BY <1>3 DEF Queued
    <2>2. Ops = {"submit", "mark_row", "remove_row"} BY DEF Ops
    <2>4. ToSubmit(g)' <=> ToSubmit(g) BY <1>4 DEF ToSubmit
    <2>5. SubmitPending(g)' <=> SubmitPending(g) BY <2>1, <2>2, <2>4 DEF SubmitPending
    <2>6. \A l \in Layers : Pend(g, l)' <=> Pend(g, l) BY <1>4, <1>7, <2>4 DEF Pend
    <2>7. FlushFirst(g)'
      <3>1. FlushFirst(g) BY DEF Traffic
      <3> QED BY <1>4, <2>1, <2>2, <3>1 DEF FlushFirst, Flushing
    <2>9. Covered(g)' <=> Covered(g) BY <1>3, <2>6 DEF Covered
    <2> QED BY <1>3, <1>7, <2>1, <2>2, <2>5, <2>6, <2>7, <2>9 DEF CalmFor
  <1>8. CASE /\ todo'[Omp] = G1 /\ on'[Omp] \in loads
             /\ loads' = loads \ {on'[Omp]} /\ omp' = omp
    <2>1. ASSUME NEW g \in Groups PROVE CalmFor(g)
      <3>1. Busy(g)' => Busy(g) BY <1>4, <1>8 DEF Busy
      <3>2. \A l \in Layers : Coming(g, l)' <=> Coming(g, l)
        BY <1>3, <1>6, <1>8 DEF Coming, PutOn
      <3> QED BY <1>7, <3>1, <3>2
    <2> QED BY <1>3, <1>4, <2>1 DEF Calm
  <1>9. CASE /\ loads = {} /\ loads' = {} /\ Head(omp) \in Tasks /\ omp # <<>> /\ omp' = Tail(omp)
             /\ todo'[Omp] = (IF Head(omp).put THEN PutTask ELSE R1)
             /\ on'[Omp] = Work(Head(omp).g, Head(omp).l)
    <2>2. PICK e \in Tasks : e = Head(omp) BY <1>9
    <2>3. /\ loads = {} /\ loads' = {} /\ omp # <<>> /\ omp' = Tail(omp)
          /\ todo'[Omp] = (IF e.put THEN PutTask ELSE R1) /\ on'[Omp] = Work(e.g, e.l)
      BY <1>9, <2>2
    <2>4. /\ \A x \in Groups : \A k \in Layers :
               PutOn(x, k) <=> PutOn(x, k)' \/ (e.put /\ x = e.g /\ k = e.l)
          /\ \A x \in Groups : OmpBusy(x) <=> OmpBusy(x)' \/ x = e.g
      BY <1>1, <2>2, <2>3, OmpShrinks
    <2>1. ASSUME NEW g \in Groups PROVE CalmFor(g)
      <3>1. Busy(g)' => Busy(g)
        <4>1. OmpBusy(g) <=> OmpBusy(g)' \/ g = e.g BY <2>4
        <4>2. on'[Omp].g = e.g BY <2>3 DEF Work
        <4> QED BY <1>4, <2>3, <4>1, <4>2 DEF Busy, OmpBusy
      <3>2. ASSUME NEW l \in Layers PROVE Coming(g, l)' <=> Coming(g, l)
        <4>1. PutOn(g, l) <=> PutOn(g, l)' \/ (e.put /\ g = e.g /\ l = e.l) BY <2>4
        <4>2. todo'[Omp] = PutTask <=> e.put BY <1>6, <2>2, <2>3 DEF Tasks
        <4>3. on'[Omp] = Work(g, l) <=> g = e.g /\ l = e.l BY <2>3 DEF Work
        <4>4. todo[Omp] # PutTask BY <1>3, <1>6
        <4> QED BY <4>1, <4>2, <4>3, <4>4 DEF Coming
      <3> QED BY <1>7, <3>1, <3>2
    <2> QED BY <1>3, <1>4, <2>1 DEF Calm
  <1> QED BY <1>3, <1>8, <1>9

\* KVFlow.stop, a status, a load that starts, and steps of nobody.
LEMMA CallCalm ==
  ASSUME Forms, Traffic,
         \/ StopCall \/ ReadStatus(Main) \/ UNCHANGED vars
         \/ \E g \in Groups : \E l \in Layers : Load(g, l)
  PROVE  Calm
  <1>1. Types /\ Main \in Threads /\ Omp \in Threads /\ Main # Omp
        /\ Handlers \subseteq Threads /\ Main \notin Handlers /\ NumLayers \in Nat
    BY StoreAssumption DEF Forms, Threads, NumLayers
  <1>2. ASSUME NEW g \in Groups PROVE FlushFirst(g) /\ NoWork.g # g BY NoGroup DEF Traffic
  <1>3. ASSUME NEW w \in Works, NEW q \in {X1, S1, Unzip}, Enter(Main, w, q), w.g \notin dropping
        PROVE  Calm
    <2>3. /\ Others(Main) /\ todo[Main] = <<>> /\ todo'[Main] = q
          /\ on'[Main] = w /\ UNCHANGED <<shared, holder>>
      BY <1>1, <1>3, EnterFacts
    <2>4. /\ mem' = mem /\ unpersisted' = unpersisted /\ rows' = rows /\ file' = file
          /\ queue' = queue /\ loads' = loads /\ omp' = omp /\ dropping' = dropping
      BY <2>3 DEF shared, memVars, diskVars, tasks
    <2>5. Handlers0 /\ todo'[Omp] = todo[Omp] /\ on'[Omp] = on[Omp]
      BY <1>1, <2>3 DEF Others, Handlers0
    <2>6. <<>> \notin FlushPts BY MainHeads DEF FlushPts
    <2>7. ASSUME NEW g \in Groups PROVE CalmFor(g)
      <3>1. ~ToSubmit(g) /\ ~ToSubmit(g)' BY <1>3, <2>3, NoSubmit DEF ToSubmit
      <3>2. ~Queued("submit", g) BY <1>2, <2>3, <2>6 DEF FlushFirst, Flushing
      <3>3. on'[Main].g = g /\ g \in dropping => on[Main].g = g BY <1>3, <2>3
      <3> QED BY <2>4, <2>5, <3>1, <3>2, <3>3, PlainCalm
    <2> QED BY <2>4, <2>5, <2>7 DEF Calm
  <1>4. NoWork \in Works /\ NoWork.g \notin dropping
    <2>1. dropping \subseteq Groups BY <1>1 DEF Types, DataTypes
    <2> QED BY <1>2, <2>1 DEF NoWork, Works
  <1>5. CASE StopCall BY <1>3, <1>4, <1>5 DEF StopCall, X1
  <1>6. CASE ReadStatus(Main) BY <1>3, <1>4, <1>6 DEF ReadStatus, S1
  <1>7. ASSUME NEW g \in Groups, NEW l \in Layers, Load(g, l) PROVE Calm
    <2>1. Work(g, l) \in Works /\ Work(g, l).g = g BY <1>1 DEF Work, Works, Layers
    <2> QED BY <1>3, <1>7, <2>1 DEF Load
  <1>8. CASE UNCHANGED vars
    <2>1. /\ mem' = mem /\ unpersisted' = unpersisted /\ rows' = rows /\ file' = file
          /\ queue' = queue /\ loads' = loads /\ omp' = omp /\ dropping' = dropping
          /\ todo' = todo /\ on' = on
      BY <1>8 DEF vars, memVars, diskVars, tasks
    <2>2. ASSUME NEW g \in Groups PROVE CalmFor(g)
      <3>1. ToSubmit(g)' <=> ToSubmit(g) BY <2>1 DEF ToSubmit
      <3>2. Queued("submit", g) => Flushing(g)' BY <1>2, <2>1 DEF FlushFirst, Flushing
      <3> QED BY <2>1, <3>1, <3>2, PlainCalm
    <2> QED BY <2>1, <2>2 DEF Calm, Handlers0
  <1> QED BY <1>5, <1>6, <1>7, <1>8

-----------------------------------------------------------------------------
(* A save starts: no operator is at work and the group is not being        *)
(* dropped.                                                                *)

LEMMA SaveKeeps ==
  ASSUME OperatorWaits, Forms, Traffic, Data, NEW c \in Groups, Save(c)
  PROVE  Traffic' /\ Data'
  <1>1. Types /\ MainForm /\ Main \in Threads /\ Omp \in Threads /\ Main # Omp
        /\ Handlers \subseteq Threads /\ Main \notin Handlers /\ NumLayers \in Nat
    BY StoreAssumption DEF Forms, Threads, NumLayers
  <1>2. ~Operator /\ c \notin dropping BY DEF Save, OperatorWaits
  <1>3. Enter(Main, Work(c, 1), PutRest(1)) BY SaveSteps DEF Save
  <1>4. Work(c, 1) \in Works /\ Work(c, 1).g = c /\ Work(c, 1).l = 1 BY DEF Work, Works
  <1>5. /\ Others(Main) /\ todo[Main] = <<>> /\ todo'[Main] = PutRest(1)
        /\ on'[Main].g = c /\ on'[Main].l = 1 /\ UNCHANGED shared
    BY <1>1, <1>3, <1>4, EnterFacts
  <1>6. /\ mem' = mem /\ unpersisted' = unpersisted /\ rows' = rows /\ file' = file
        /\ queue' = queue /\ loads' = loads /\ omp' = omp /\ dropping' = dropping
    BY <1>5 DEF shared, memVars, diskVars, tasks
  <1>7. Handlers0 /\ todo'[Omp] = todo[Omp] /\ on'[Omp] = on[Omp]
    BY <1>1, <1>5 DEF Others, Handlers0
  <1>8. 1 \in 1..(NumLayers + 1) BY <1>1
  <1>9. <<>> \notin FlushPts BY MainHeads DEF FlushPts
  <1>10. ASSUME NEW g \in Groups
         PROVE  /\ ToSubmit(g)' <=> g = c
                /\ ~ToSubmit(g)
                /\ ~Queued("submit", g)
                /\ \A o \in Ops : Queued(o, g)' <=> Queued(o, g)
                /\ \A l \in Layers : Pend(g, l)' <=> Pend(g, l) \/ g = c
                /\ g # c => (Busy(g)' => Busy(g))
    <2>1. ToSubmit(g)' <=> g = c BY <1>5, <1>8, SaveSubmits DEF ToSubmit
    <2>2. ~ToSubmit(g) BY <1>5, NoSubmit DEF ToSubmit
    <2>3. \A o \in Ops : Queued(o, g)' <=> Queued(o, g) BY <1>6 DEF Queued
    <2>4. ASSUME NEW l \in Layers PROVE Pend(g, l)' <=> Pend(g, l) \/ g = c
      <3>1. 1 <= l BY <1>1 DEF Layers
      <3> QED BY <1>5, <1>6, <1>7, <2>1, <2>2, <3>1 DEF Pend, Coming, PutOn
    <2>5. ~Queued("submit", g) BY <1>5, <1>9 DEF Traffic, FlushFirst, Flushing
    <2>7. g # c => (Busy(g)' => Busy(g)) BY <1>5, <1>6, <1>7 DEF Busy
    <2> QED BY <2>1, <2>2, <2>3, <2>4, <2>5, <2>7
  <1>12. Ops = {"submit", "mark_row", "remove_row"} BY DEF Ops
  <1>13. ASSUME NEW g \in Groups
         PROVE  /\ SubmitPending(g)' <=> SubmitPending(g) \/ g = c
                /\ Covered(c)'
                /\ g # c => (Covered(g) => Covered(g)')
    BY <1>6, <1>10, <1>12 DEF SubmitPending, Covered
  <1>14. ~Operator' BY <1>2, <1>7 DEF Operator, Handlers0
  <1>15. OperatorAlone' /\ DropOnce'
    BY <1>6, <1>7, <1>14 DEF OperatorAlone, DropOnce, Traffic, Handlers0
  <1>16. ASSUME NEW g \in Groups PROVE FlushFirst(g)' /\ DropApart(g)'
    <2>1. DropApart(g) BY DEF Traffic
    <2>2. FlushFirst(g)' BY <1>10, <1>12 DEF FlushFirst
    <2>3. DropApart(g)' BY <1>2, <1>6, <1>10, <2>1 DEF DropApart
    <2> QED BY <2>2, <2>3
  <1>17. ASSUME NEW g \in Groups
         PROVE  Resaved(g)' /\ Kept(g)' /\ Marking(g)' /\ Removing(g)'
    <2>1. Resaved(g) /\ Kept(g) /\ Marking(g) /\ Removing(g) BY DEF Data
    <2>2. Resaved(g)' BY <1>6, <1>10, <1>13, <2>1 DEF Resaved
    <2>3. Kept(g)'
      <3>1. CASE g = c BY <1>13, <3>1 DEF Kept
      <3>2. CASE g # c BY <1>6, <1>10, <1>13, <2>1, <3>2 DEF Kept
      <3> QED BY <3>1, <3>2
    <2>4. Marking(g)' /\ Removing(g)'
      BY <1>7, <1>10, <1>12, <2>1 DEF Marking, Removing, Handlers0
    <2> QED BY <2>2, <2>3, <2>4
  <1>18. ASSUME NEW h \in Handlers, NEW g \in Groups
         PROVE  Persisting(h, g)' /\ Evicting(h, g)'
    <2>1. Persisting(h, g) /\ Evicting(h, g) BY DEF Data
    <2>2. todo'[h] = todo[h] /\ on'[h] = on[h] BY <1>7 DEF Handlers0
    <2>3. Persisting(h, g)' BY <1>6, <2>1, <2>2 DEF Persisting
    <2>4. Evicting(h, g)' BY <1>6, <1>10, <1>12, <2>1, <2>2 DEF Evicting
    <2> QED BY <2>3, <2>4
  <1>19. OnDisk' BY <1>6 DEF Data, OnDisk
  <1> QED BY <1>15, <1>16, <1>17, <1>18, <1>19 DEF Traffic, Data

-----------------------------------------------------------------------------
(* Steps of the handlers: the worker's threads stay where they are.        *)

NoSaves == \A g \in Groups : ~SubmitPending(g) /\ \A l \in Layers : ~Pend(g, l)

SameWorkFor(g) ==
  /\ Busy(g)' <=> Busy(g)
  /\ ToSubmit(g)' <=> ToSubmit(g)
  /\ Flushing(g)' <=> Flushing(g)
  /\ \A l \in Layers : Pend(g, l)' <=> Pend(g, l)

LEMMA SameWork ==
  ASSUME NEW h \in Handlers, Others(h), loads' = loads, omp' = omp, NEW g \in Groups
  PROVE  SameWorkFor(g)
  <1>1. h # Main /\ h # Omp /\ Main \in Threads /\ Omp \in Threads
    BY StoreAssumption DEF Threads
  <1>2. /\ todo'[Main] = todo[Main] /\ on'[Main] = on[Main]
        /\ todo'[Omp] = todo[Omp] /\ on'[Omp] = on[Omp]
    BY <1>1 DEF Others
  <1>3. ToSubmit(g)' <=> ToSubmit(g) BY <1>2 DEF ToSubmit
  <1>4. \A l \in Layers : Pend(g, l)' <=> Pend(g, l) BY <1>2, <1>3 DEF Pend, Coming, PutOn
  <1>5. (Busy(g)' <=> Busy(g)) /\ (Flushing(g)' <=> Flushing(g))
    BY <1>2 DEF Busy, Flushing
  <1> QED BY <1>3, <1>4, <1>5 DEF SameWorkFor

\* What is left to show for a step of handler h.
LEMMA HandlerFrame ==
  ASSUME Traffic, Data, NEW h \in Handlers, Others(h), UNCHANGED <<loads, omp, rows>>,
         \A g \in Groups : Queued("submit", g)' <=> Queued("submit", g),
         \A g \in Groups : Queued("remove_row", g) => Queued("remove_row", g)',
         unpersisted' \subseteq unpersisted, dropping' \subseteq dropping,
         on'[h].l # 0 => NoSaves,
         DropOnce', OnDisk', \A g \in Groups : Evicting(h, g)',
         \A k \in Handlers : \A g \in Groups : Persisting(k, g)',
         \A g \in Groups : Kept(g)' /\ Marking(g)' /\ Removing(g)'
  PROVE  Traffic' /\ Data'
  <1>1. loads' = loads /\ omp' = omp /\ rows' = rows OBVIOUS
  <1>2. ASSUME NEW g \in Groups PROVE SameWorkFor(g) BY <1>1, SameWork
  <1>3. \A g \in Groups : SubmitPending(g)' <=> SubmitPending(g)
    BY <1>2 DEF SameWorkFor, SubmitPending
  <1>4. OperatorAlone'
    <2> SUFFICES ASSUME Operator', NEW g \in Groups
                 PROVE  (~SubmitPending(g) /\ \A l \in Layers : ~Pend(g, l))'
      BY DEF OperatorAlone
    <2>1. PICK k \in Handlers : on'[k].l # 0 BY DEF Operator
    <2>2. NoSaves
      <3>1. CASE k = h BY <2>1, <3>1
      <3>2. CASE k # h
        <4>1. on'[k] = on[k] BY <3>2 DEF Others, Threads
        <4>2. Operator BY <2>1, <4>1 DEF Operator
        <4> QED BY <4>2 DEF Traffic, OperatorAlone, NoSaves
      <3> QED BY <3>1, <3>2
    <2> QED BY <1>2, <1>3, <2>2 DEF NoSaves, SameWorkFor
  <1>5. ASSUME NEW g \in Groups PROVE FlushFirst(g)' /\ DropApart(g)'
    <2>1. FlushFirst(g) /\ DropApart(g) BY DEF Traffic
    <2>2. FlushFirst(g)' BY <1>2, <2>1 DEF FlushFirst, SameWorkFor
    <2>3. DropApart(g)' BY <1>1, <1>2, <2>1 DEF DropApart, SameWorkFor
    <2> QED BY <2>2, <2>3
  <1>6. ASSUME NEW g \in Groups PROVE Resaved(g)'
    <2>1. Resaved(g) BY DEF Data
    <2> QED BY <1>1, <1>2, <1>3, <2>1 DEF Resaved, SameWorkFor
  <1>7. ASSUME NEW k \in Handlers, NEW g \in Groups PROVE Evicting(k, g)'
    <2>1. CASE k = h BY <2>1
    <2>2. CASE k # h
      <3>1. todo'[k] = todo[k] /\ on'[k] = on[k] BY <2>2 DEF Others, Threads
      <3>2. Evicting(k, g) BY DEF Data
      <3> QED BY <1>1, <3>1, <3>2 DEF Evicting
    <2> QED BY <2>1, <2>2
  <1> QED BY <1>4, <1>5, <1>6, <1>7 DEF Traffic, Data

\* Two handlers are not under mutex_ at once.
LEMMA MutexAlone ==
  ASSUME Forms, NEW h \in Handlers, NEW k \in Handlers,
         todo[h] \in MutexPts, todo[k] \in MutexPts
  PROVE  h = k
  <1>1. h \in Threads /\ k \in Threads BY DEF Threads
  <1>2. InMutex(h) /\ InMutex(k) BY DEF InMutex
  <1> QED BY <1>1, <1>2 DEF Forms, Mutex

\* The transactions of the handlers, when one of them goes on.
LEMMA MarksKept ==
  ASSUME Data, NEW h \in Handlers, Others(h), queue' = queue,
         todo[h] \in {P5, E7} => queue = <<>>
  PROVE  \A g \in Groups : Marking(g)' /\ Removing(g)'
  <1> SUFFICES ASSUME NEW g \in Groups PROVE Marking(g)' /\ Removing(g)'
    OBVIOUS
  <1>1. Marking(g) /\ Removing(g) BY DEF Data
  <1>2. \A o : Queued(o, g)' <=> Queued(o, g) BY DEF Queued
  <1>3. CASE queue = <<>>
    <2>1. \A o : ~Queued(o, g) BY <1>3 DEF Queued
    <2> QED BY <1>2, <2>1 DEF Marking, Removing
  <1>4. CASE queue # <<>>
    <2>1. todo[h] # P5 /\ todo[h] # E7 BY <1>4
    <2>2. \A k \in Handlers : k # h => todo'[k] = todo[k] /\ on'[k] = on[k]
      BY DEF Others, Threads
    <2>3. Marking(g)' BY <1>1, <1>2, <2>1, <2>2 DEF Marking
    <2>4. Removing(g)' BY <1>1, <1>2, <2>1, <2>2 DEF Removing
    <2> QED BY <2>3, <2>4
  <1> QED BY <1>3, <1>4

\* A step of handler h that leaves Mem, the database and the files alone.
LEMMA HandlerStill ==
  ASSUME Traffic, Data, NEW h \in Handlers, Others(h), UNCHANGED shared,
         todo[h] \in {P5, E7} => queue = <<>>,
         on'[h].l # 0 => NoSaves,
         todo'[h] \in DropPts =>
           /\ on'[h].g \in dropping
           /\ \A k \in Handlers : k # h /\ todo[k] \in DropPts => on[k].g # on'[h].g,
         \A g \in Groups : Persisting(h, g)' /\ Evicting(h, g)'
  PROVE  Traffic' /\ Data'
  <1>1. /\ mem' = mem /\ unpersisted' = unpersisted /\ rows' = rows /\ file' = file
        /\ queue' = queue /\ omp' = omp /\ dropping' = dropping /\ loads' = loads
    BY DEF shared, memVars, diskVars, tasks
  <1>2. ASSUME NEW g \in Groups PROVE SameWorkFor(g) BY <1>1, SameWork
  <1>3. \A g \in Groups : \A o : Queued(o, g)' <=> Queued(o, g) BY <1>1 DEF Queued
  <1>4. \A k \in Handlers : k # h => todo'[k] = todo[k] /\ on'[k] = on[k]
    BY DEF Others, Threads
  <1>5. DropOnce'
    <2>1. DropOnce BY DEF Traffic
    <2> QED BY <1>1, <1>4, <2>1 DEF DropOnce
  <1>6. OnDisk' BY <1>1 DEF Data, OnDisk
  <1>7. ASSUME NEW k \in Handlers, NEW g \in Groups PROVE Persisting(k, g)'
    <2>1. Persisting(k, g) BY DEF Data
    <2>2. CASE k = h BY <2>2
    <2>3. CASE k # h BY <1>1, <1>4, <2>1, <2>3 DEF Persisting
    <2> QED BY <2>2, <2>3
  <1>8. ASSUME NEW g \in Groups PROVE Kept(g)'
    <2>1. Kept(g) BY DEF Data
    <2> QED BY <1>1, <1>2, <1>3, <2>1 DEF Kept, Covered, SubmitPending, SameWorkFor
  <1>9. \A g \in Groups : Marking(g)' /\ Removing(g)' BY <1>1, MarksKept
  <1> QED BY <1>1, <1>3, <1>5, <1>6, <1>7, <1>8, <1>9, HandlerFrame

\* The points at which a handler has something to show.
FilePts == {P1, P2, P3, P4, P5}

LEMMA PointFacts ==
  /\ \A p \in {<<>>, P6, Py, E1, E2, E3, E4, E6, E7, E8, D1, D2, S1, S2, C1, C2, C3} :
       p \notin FilePts
  /\ \A p \in {<<>>, P1, P2, P3, P4, P5, P6, Py, D1, D2, S1, S2, C1, C2, C3} : p \notin EvictPts
  /\ \A p \in {<<>>, P1, P2, P3, P4, P5, P6, Py, E1, E2, E3, E4, E6, E7, E8, S1, S2, C1, C2, C3} :
       p \notin DropPts
  /\ \A p \in {<<>>, P1, P2, P3, P4, P6, Py, E1, E2, E3, E4, E6, E8, D1, D2, S1, S2, C1, C2, C3} :
       p \notin {P5, E7}
  /\ \A p \in {E1, E2, E3, E4, E6, E7} : p # E8
  /\ \A p \in {E1, E2, E3, E4, E8} : p \notin {E6, E7}
  /\ {E1, E2, E3, E4, E6, E7, E8} = EvictPts
  /\ E6 # E7 /\ P1 \notin {P2, P3, P4, P5} /\ P2 \notin {P3, P4, P5} /\ P3 \notin {P4, P5}
  BY HandlerHeads, HandlerApart DEF FilePts, EvictPts, DropPts

\* At other points there is nothing to show.
LEMMA Nothing ==
  ASSUME NEW h \in Handlers, NEW g
  PROVE  /\ todo'[h] \notin FilePts => Persisting(h, g)'
         /\ todo'[h] \notin EvictPts => Evicting(h, g)'
  <1>1. {P1, P2, P3, P4, P5} = FilePts /\ E7 \in EvictPts /\ E8 \in EvictPts
    BY DEF FilePts, EvictPts
  <1> QED BY <1>1 DEF Persisting, Evicting, FilePts

\* When nothing is saved, no row is on its way either: put_finish has been followed
\* by the flush.
LEMMA NoSaveFacts ==
  ASSUME Traffic, NoSave
  PROVE  NoSaves
  <1> SUFFICES ASSUME NEW g \in Groups
               PROVE  ~SubmitPending(g) /\ \A l \in Layers : ~Pend(g, l)
    BY DEF NoSaves
  <1>1. todo[Main] = <<>> /\ todo[Omp] # PutTask BY DEF NoSave
  <1>2. ~ToSubmit(g) BY <1>1, NoSubmit DEF ToSubmit
  <1>3. ~Queued("submit", g)
    <2>1. todo[Main] \notin FlushPts BY <1>1, MainHeads DEF FlushPts
    <2> QED BY <2>1 DEF Traffic, FlushFirst, Flushing
  <1>4. \A l \in Layers : ~PutOn(g, l) BY DEF NoSave, PutOn
  <1> QED BY <1>1, <1>2, <1>3, <1>4 DEF SubmitPending, Pend, Coming

LEMMA NoRequestFacts ==
  ASSUME NoRequest
  PROVE  NoSave
  <1>1. todo[Main] = <<>> /\ todo[Omp] = <<>> /\ omp = <<>> BY DEF NoRequest
  <1>2. todo[Omp] # PutTask BY <1>1, OmpHeads
  <1> QED BY <1>1, <1>2 DEF NoSave

\* A status property is read, or the candidates are listed.
LEMMA ListKeeps ==
  ASSUME Forms, Traffic, Data, NEW h \in Handlers, ReadStatus(h) \/ ListCandidates(h)
  PROVE  Traffic' /\ Data'
  <1>1. Types /\ h \in Threads BY DEF Forms, Threads
  <1>2. NoWork \in Works /\ NoWork.l = 0 BY DEF NoWork, Works
  <1>3. PICK q \in {S1, C1} : Enter(h, NoWork, q) BY DEF ReadStatus, S1, ListCandidates, C1
  <1>4. q \notin FilePts /\ q \notin EvictPts /\ q \notin DropPts BY PointFacts
  <1>5. /\ Others(h) /\ todo'[h] = q /\ on'[h].l = 0 /\ UNCHANGED shared
        /\ todo[h] \notin {P5, E7}
    BY <1>1, <1>2, <1>3, EnterFacts, HandlerHeads
  <1>6. \A g \in Groups : Persisting(h, g)' /\ Evicting(h, g)' BY <1>4, <1>5, Nothing
  <1> QED BY <1>4, <1>5, <1>6, HandlerStill

\* A call of the management server starts.
LEMMA HandleKeeps ==
  ASSUME OperatorWaits, Forms, Traffic, Data, NEW h \in Handlers, NEW c \in Groups, Handle(h, c)
  PROVE  Traffic' /\ Data'
  <1>1. Types /\ h \in Threads BY DEF Forms, Threads
  <1>2. /\ NoWork \in Works /\ NoWork.l = 0
        /\ Work(c, 0) \in Works /\ Work(c, 0).g = c /\ Work(c, 0).l = 0
        /\ Work(c, 1) \in Works /\ Work(c, 1).g = c /\ Work(c, 1).l = 1
    BY DEF NoWork, Work, Works
  <1>3. ASSUME NEW w \in Works, NEW q, Enter(h, w, q)
        PROVE  /\ Others(h) /\ todo[h] = <<>> /\ todo'[h] = q /\ on'[h] = w
               /\ UNCHANGED shared /\ todo[h] \notin {P5, E7}
    BY <1>1, <1>3, EnterFacts, HandlerHeads
  <1>5. ASSUME NoSave, Enter(h, Work(c, 1), P1) PROVE Traffic' /\ Data'
    <2>1. P1 \notin {P2, P3, P4, P5} /\ P1 \notin EvictPts /\ P1 \notin DropPts BY PointFacts
    <2>2. /\ Others(h) /\ todo'[h] = P1 /\ on'[h].l = 1 /\ UNCHANGED shared
          /\ todo[h] \notin {P5, E7}
      BY <1>2, <1>3, <1>5
    <2>3. \A g \in Groups : Evicting(h, g)' BY <2>1, <2>2, Nothing
    <2>5. \A g \in Groups : Persisting(h, g)' BY <2>1, <2>2 DEF Persisting
    <2>4. NoSaves BY <1>5, NoSaveFacts
    <2> QED BY <2>1, <2>2, <2>3, <2>4, <2>5, HandlerStill
  <1>6. ASSUME NoRequest, Enter(h, Work(c, 1), E1) PROVE Traffic' /\ Data'
    <2>1. E1 \notin FilePts /\ E1 \notin DropPts /\ E1 \notin {E6, E7} /\ E1 # E8
      BY PointFacts
    <2>2. /\ Others(h) /\ todo'[h] = E1 /\ on'[h].g = c /\ UNCHANGED shared
          /\ todo[h] \notin {P5, E7}
      BY <1>2, <1>3, <1>6
    <2>4. NoSaves BY <1>6, NoRequestFacts, NoSaveFacts
    <2>6. \A g \in Groups : Evicting(h, g)' BY <2>1, <2>2 DEF Evicting
    <2>7. \A g \in Groups : Persisting(h, g)' BY <2>1, <2>2, Nothing
    <2> QED BY <2>1, <2>2, <2>4, <2>6, <2>7, HandlerStill
  <1>7. ASSUME c \in dropping, \A k \in Handlers : on[k].g # c, Enter(h, Work(c, 0), D1)
        PROVE  Traffic' /\ Data'
    <2>1. D1 \notin FilePts /\ D1 \notin EvictPts BY PointFacts
    <2>2. /\ Others(h) /\ todo'[h] = D1 /\ on'[h].g = c /\ on'[h].l = 0 /\ UNCHANGED shared
          /\ todo[h] \notin {P5, E7}
      BY <1>2, <1>3, <1>7
    <2>3. \A g \in Groups : Persisting(h, g)' /\ Evicting(h, g)' BY <2>1, <2>2, Nothing
    <2> QED BY <1>7, <2>2, <2>3, HandlerStill
  <1> QED BY <1>5, <1>6, <1>7 DEF Handle, OperatorWaits, P1, E1, D1

\* What a handler that works on a group knows.
LEMMA AtWork ==
  ASSUME Forms, Traffic, NEW h \in Handlers
  PROVE  on[h].l # 0 => NoSaves
  BY DEF Traffic, OperatorAlone, Operator, NoSaves

\* Steps of a handler that change neither Mem nor the database nor a file.
LEMMA StillSteps ==
  ASSUME Forms, Traffic, Data, NEW h \in Handlers,
         HPlain(h) \/ HSync(h) \/ HSaved(h) \/ HForget(h)
  PROVE  Traffic' /\ Data'
  <1>1. Types /\ h \in Threads BY DEF Forms, Threads
  <1>2. UNCHANGED shared BY DEF HPlain, HSync, HSaved, HForget
  <1>3. /\ mem' = mem /\ unpersisted' = unpersisted /\ rows' = rows /\ file' = file
        /\ queue' = queue /\ omp' = omp /\ dropping' = dropping /\ loads' = loads
    BY <1>2 DEF shared, memVars, diskVars, tasks
  <1>4. ASSUME NEW p, NEW q, Moves(h, p, q)
        PROVE  /\ Others(h) /\ todo[h] = p /\ todo'[h] = q
               /\ on'[h] = (IF q = <<>> THEN NoWork ELSE on[h])
               /\ on'[h].l # 0 => NoSaves
    <2>1. /\ Others(h) /\ todo[h] = p /\ todo'[h] = q
          /\ on'[h] = IF q = <<>> THEN NoWork ELSE on[h]
      BY <1>1, <1>4, MovesFacts
    <2>2. NoWork.l = 0 BY DEF NoWork
    <2> QED BY <2>1, <2>2, AtWork
  <1>5. ASSUME NEW p, NEW q, Moves(h, p, q), p \in {P5, E7} => queue = <<>>, q \notin DropPts,
               \A g \in Groups : Persisting(h, g)' /\ Evicting(h, g)'
        PROVE  Traffic' /\ Data'
    <2>1. /\ Others(h) /\ todo[h] = p /\ todo'[h] = q /\ (on'[h].l # 0 => NoSaves)
      BY <1>4, <1>5
    <2> QED BY <1>2, <1>5, <2>1, HandlerStill
  <1>6. ASSUME NEW p, NEW q, Moves(h, p, q), p \in {P5, E7} => queue = <<>>, q \notin DropPts,
               q \notin FilePts, q \notin EvictPts
        PROVE  Traffic' /\ Data'
    <2>1. todo'[h] = q BY <1>4, <1>6
    <2>2. \A g \in Groups : Persisting(h, g)' /\ Evicting(h, g)' BY <1>6, <2>1, Nothing
    <2> QED BY <1>5, <1>6, <2>2
  <1>7. ASSUME NEW g \in Groups PROVE Persisting(h, g) /\ Evicting(h, g) BY DEF Data
  <1>8. ASSUME NEW p \in EvictPts, NEW q \in EvictPts, Moves(h, p, q),
               p = E7 => queue = <<>>,
               q = E7 => p = E7,
               q = E8 => rows[on[h].g] = 1 \/ p = E7
        PROVE  Traffic' /\ Data'
    <2>1. q \notin FilePts /\ q \notin DropPts /\ q # <<>> /\ p # P5
      BY <1>8, PointFacts, HandlerHeads
    <2>2. Others(h) /\ todo[h] = p /\ todo'[h] = q /\ on'[h] = on[h] BY <1>4, <1>8, <2>1
    <2>3. ASSUME NEW g \in Groups, on[h].g = g
          PROVE  p = E7 => rows[g] = NoRow
      <3>2. p = E7 => rows[g] = NoRow \/ Queued("remove_row", g)
        BY <1>7, <2>2, <2>3 DEF Evicting
      <3>3. queue = <<>> => ~Queued("remove_row", g) BY DEF Queued
      <3> QED BY <1>8, <3>2, <3>3
    <2>4. ASSUME NEW g \in Groups PROVE Evicting(h, g)'
      <3>2. NoRow # 0 BY DEF NoRow
      <3> QED BY <1>3, <1>8, <2>2, <2>3, <3>2 DEF Evicting
    <2>5. \A g \in Groups : Persisting(h, g)' BY <2>1, <2>2, Nothing
    <2> QED BY <1>5, <1>8, <2>1, <2>4, <2>5
  <1>10. NumLayers \in Nat BY StoreAssumption DEF NumLayers
  <1>9. CASE HPlain(h)
    <2>1. CASE Moves(h, E1, E2) \/ Moves(h, E3, E4) \/ Moves(h, E2, E3)
      BY <1>8, <2>1, PointFacts
    <2>2. CASE Moves(h, S1, S2) \/ Moves(h, S2, <<>>) \/ Moves(h, Py, <<>>)
      BY <1>6, <2>2, PointFacts
    <2>3. CASE Moves(h, C1, C2) \/ Moves(h, C2, C3) \/ Moves(h, C3, <<>>) \/ Moves(h, P6, Py)
      BY <1>6, <2>3, PointFacts
    <2>4. CASE Moves(h, P1, P2)
      <3>1. todo[h] = P1 /\ todo'[h] = P2 /\ on'[h] = on[h] BY <1>4, <2>4, HandlerHeads
      <3>2. \A g \in Groups : Persisting(h, g)'
        <4>1. P2 \notin {P1, P3, P4, P5} BY PointFacts
        <4>2. \A k \in Layers : ~(k < 1) BY <1>10 DEF Layers
        <4> QED BY <1>7, <3>1, <4>1, <4>2 DEF Persisting
      <3>3. \A g \in Groups : Evicting(h, g)' BY <3>1, Nothing, PointFacts
      <3> QED BY <1>5, <2>4, <3>2, <3>3, PointFacts
    <2> QED BY <1>9, <2>1, <2>2, <2>3, <2>4 DEF HPlain
  <1>11. CASE HSync(h)
    <2>1. queue = <<>> BY <1>11 DEF HSync
    <2>2. CASE Moves(h, P5, P6) BY <1>6, <2>1, <2>2, PointFacts
    <2>3. CASE Moves(h, E7, E8) BY <1>8, <2>1, <2>3, PointFacts
    <2> QED BY <1>11, <2>2, <2>3 DEF HSync
  <1>12. CASE HSaved(h)
    <2>1. CASE on[h].l > NumLayers /\ Moves(h, P2, P3)
      <3>1. todo[h] = P2 /\ todo'[h] = P3 /\ on'[h] = on[h] BY <1>4, <2>1, HandlerHeads
      <3>2. \A g \in Groups : Persisting(h, g)'
        <4>1. P3 \notin {P1, P2, P4, P5} BY PointFacts
        <4>2. \A k \in Layers : k < on[h].l
          <5>1. on[h].l \in Nat BY <1>1 DEF Types, ThreadTypes, Works
          <5> QED BY <1>10, <2>1, <5>1 DEF Layers
        <4> QED BY <1>3, <1>7, <3>1, <4>1, <4>2 DEF Persisting
      <3>3. \A g \in Groups : Evicting(h, g)' BY <3>1, Nothing, PointFacts
      <3> QED BY <1>5, <2>1, <3>2, <3>3, PointFacts
    <2>2. CASE Moves(h, P2, P6) BY <1>6, <2>2, PointFacts
    <2> QED BY <1>12, <2>1, <2>2 DEF HSaved
  <1>13. CASE HForget(h)
    <2>1. CASE rows[on[h].g] = 1 /\ Moves(h, E4, E8) BY <1>8, <2>1, PointFacts
    <2>2. CASE rows[on[h].g] # 1 /\ Moves(h, E4, E6) BY <1>8, <2>2, PointFacts
    <2> QED BY <1>13, <2>1, <2>2 DEF HForget
  <1> QED BY <1>9, <1>11, <1>12, <1>13

\* The rest of a group that is dropped from Mem: nothing says it must be there.
LEMMA ClearKeeps ==
  ASSUME Forms, Traffic, Data, NEW h \in Handlers, HClear(h)
  PROVE  Traffic' /\ Data'
  <1>1. Types /\ h \in Threads BY DEF Forms, Threads
  <1>2. /\ mem' = [mem EXCEPT ![on[h].g] = {}] /\ unpersisted' = unpersisted \ {on[h].g}
        /\ rows' = rows /\ file' = file /\ queue' = queue /\ omp' = omp
        /\ dropping' = dropping /\ loads' = loads
    BY DEF HClear
  <1>3. PICK p, q : /\ Moves(h, p, q)
                    /\ (p = E8 /\ q = Py) \/ (p = D1 /\ q = D2)
    BY DEF HClear
  <1>4. q # <<>> /\ q \notin FilePts /\ q \notin EvictPts /\ p \notin {P5, E7}
    BY <1>3, PointFacts, HandlerHeads
  <1>5. Others(h) /\ todo[h] = p /\ todo'[h] = q /\ on'[h] = on[h]
    BY <1>1, <1>3, <1>4, MovesFacts
  <1>6. E8 \in PersistPts \cup EvictPts /\ D1 \in DropPts /\ D2 \in DropPts
    BY DEF EvictPts, DropPts
  <1>7. PICK c \in Groups : c = on[h].g BY <1>3, <1>5, <1>6, OperatorFacts
  <1>8. /\ ~SubmitPending(c) /\ (\A l \in Layers : ~Pend(c, l)) /\ rows[c] # 0
    <2>1. CASE p = E8
      <3>1. rows[c] # 0 BY <1>5, <1>7, <2>1 DEF Data, Evicting
      <3>2. Operator BY <1>5, <1>6, <2>1, OperatorFacts
      <3> QED BY <3>1, <3>2 DEF Traffic, OperatorAlone
    <2>2. CASE p = D1
      <3>1. c \in dropping BY <1>5, <1>6, <1>7, <2>2 DEF Traffic, DropOnce
      <3>3. ~Busy(c) /\ rows[c] # 0 /\ FlushFirst(c) BY <3>1 DEF Traffic, DropApart
      <3>2. ~Busy(c) /\ ~Queued("submit", c) /\ rows[c] # 0 BY <3>3, BusyFacts DEF FlushFirst
      <3> QED BY <3>2, BusyFacts DEF SubmitPending
    <2> QED BY <1>3, <2>1, <2>2
  <1>9. ASSUME NEW g \in Groups
        PROVE  SameWorkFor(g) /\ (\A o : Queued(o, g)' <=> Queued(o, g))
    BY <1>2, <1>5, SameWork DEF Queued
  <1>10. ASSUME NEW g \in Groups PROVE Kept(g)'
    <2>1. SubmitPending(g)' <=> SubmitPending(g) BY <1>9 DEF SubmitPending, SameWorkFor
    <2>2. CASE g = c
      <3>1. c \notin unpersisted' BY <1>2, <1>7
      <3> QED BY <1>2, <1>8, <1>9, <2>1, <2>2, <3>1 DEF Kept, SameWorkFor
    <2>3. CASE g # c
      <3>1. mem'[g] = mem[g] /\ (g \in unpersisted' <=> g \in unpersisted)
        BY <1>1, <1>2, <1>7, <2>3 DEF Types, DataTypes
      <3>2. Kept(g) BY DEF Data
      <3> QED BY <1>2, <1>9, <2>1, <3>1, <3>2 DEF Kept, Covered, SameWorkFor
    <2> QED BY <2>2, <2>3
  <1>11. \A g \in Groups : Marking(g)' /\ Removing(g)' BY <1>2, <1>4, <1>5, MarksKept
  <1>12. \A k \in Handlers : k # h => todo'[k] = todo[k] /\ on'[k] = on[k]
    BY <1>5 DEF Others, Threads
  <1>13. DropOnce'
    <2>1. todo'[h] \in DropPts => todo[h] \in DropPts BY <1>3, <1>5, <1>6, PointFacts
    <2>2. \A k \in Handlers : on'[k] = on[k] /\ (todo'[k] \in DropPts => todo[k] \in DropPts)
      BY <1>5, <1>12, <2>1
    <2>3. DropOnce BY DEF Traffic
    <2> QED BY <1>2, <2>2, <2>3 DEF DropOnce
  <1>14. OnDisk' BY <1>2 DEF Data, OnDisk
  <1>15. ASSUME NEW k \in Handlers, NEW g \in Groups PROVE Persisting(k, g)'
    <2>1. Persisting(k, g) BY DEF Data
    <2>2. CASE k = h BY <1>4, <1>5, <2>2, Nothing
    <2>3. CASE k # h BY <1>2, <1>12, <2>1, <2>3 DEF Persisting
    <2> QED BY <2>2, <2>3
  <1>16. \A g \in Groups : Evicting(h, g)' BY <1>4, <1>5, Nothing
  <1>17. on'[h].l # 0 => NoSaves BY <1>5, AtWork
  <1>18. unpersisted' \subseteq unpersisted /\ dropping' \subseteq dropping BY <1>2
  <1> QED
    BY <1>2, <1>5, <1>9, <1>10, <1>11, <1>13, <1>14, <1>15, <1>16, <1>17, <1>18, HandlerFrame

\* mark_persisted_unlocked, and the transactions of a handler.
LEMMA MarkKeeps ==
  ASSUME Forms, Traffic, Data, NEW h \in Handlers, HMark(h) \/ HQueue(h)
  PROVE  Traffic' /\ Data'
  <1>1. Types /\ h \in Threads BY DEF Forms, Threads
  <1>2. /\ mem' = mem /\ rows' = rows /\ file' = file /\ omp' = omp
        /\ dropping' = dropping /\ loads' = loads
    BY DEF HMark, HQueue
  <1>3. PICK p, q : /\ Moves(h, p, q)
                    /\ \/ p = P3 /\ q = P4 /\ HMark(h)
                       \/ p = P4 /\ q = P5 /\ HQueue(h)
                       \/ p = E6 /\ q = E7 /\ HQueue(h)
    BY DEF HMark, HQueue
  <1>4. q # <<>> /\ q \notin DropPts /\ p \notin {P5, E7} BY <1>3, PointFacts, HandlerHeads
  <1>5. Others(h) /\ todo[h] = p /\ todo'[h] = q /\ on'[h] = on[h]
    BY <1>1, <1>3, <1>4, MovesFacts
  <1>6. {P3, P4, P5, E6, E7} \subseteq PersistPts \cup EvictPts BY DEF PersistPts, EvictPts
  <1>7. PICK c \in Groups : c = on[h].g BY <1>3, <1>5, <1>6, OperatorFacts
  <1>8. P3 # P4 /\ P4 # E6 /\ P3 # E6 BY HandlerHeads
  <1>9. /\ p = P3 => unpersisted' = unpersisted \ {c} /\ queue' = queue
        /\ p = P4 => /\ unpersisted' = unpersisted
                     /\ queue' = Append(queue, [op |-> "mark_row", g |-> c])
        /\ p = E6 => /\ unpersisted' = unpersisted
                     /\ queue' = Append(queue, [op |-> "remove_row", g |-> c])
    <2>1. p = P3 => HMark(h) BY <1>3, <1>8
    <2>2. p \in {P4, E6} => HQueue(h) BY <1>3, <1>8
    <2>3. ASSUME NEW a, NEW b, Moves(h, a, b) PROVE a = p BY <1>5, <2>3 DEF Moves
    <2> QED BY <1>7, <1>8, <2>1, <2>2, <2>3 DEF HMark, HQueue
  <1>10. ASSUME NEW g \in Groups
         PROVE  /\ SameWorkFor(g)
                /\ Queued("submit", g)' <=> Queued("submit", g)
                /\ Queued("mark_row", g)' <=> Queued("mark_row", g) \/ (p = P4 /\ g = c)
                /\ Queued("remove_row", g)' <=> Queued("remove_row", g) \/ (p = E6 /\ g = c)
    <2>1. SameWorkFor(g) BY <1>2, <1>5, SameWork
    <2>2. {"submit", "mark_row", "remove_row"} = Ops BY DEF Ops
    <2>3. CASE p = P3
      <3>1. queue' = queue BY <1>9, <2>3
      <3>2. \A o : Queued(o, g)' <=> Queued(o, g) BY <3>1 DEF Queued
      <3> QED BY <1>8, <2>1, <2>3, <3>2
    <2>4. CASE p = P4
      <3>1. queue' = Append(queue, [op |-> "mark_row", g |-> c]) BY <1>9, <2>4
      <3>2. \A o \in Ops : \A x \in Groups :
              Queued(o, x)' <=> Queued(o, x) \/ (o = "mark_row" /\ x = c)
        BY <1>1, <2>2, <3>1, QueuedGrows
      <3> QED BY <1>8, <2>1, <2>2, <2>4, <3>2
    <2>5. CASE p = E6
      <3>1. queue' = Append(queue, [op |-> "remove_row", g |-> c]) BY <1>9, <2>5
      <3>2. \A o \in Ops : \A x \in Groups :
              Queued(o, x)' <=> Queued(o, x) \/ (o = "remove_row" /\ x = c)
        BY <1>1, <2>2, <3>1, QueuedGrows
      <3> QED BY <1>8, <2>1, <2>2, <2>5, <3>2
    <2> QED BY <1>3, <2>3, <2>4, <2>5
  <1>11. unpersisted' \subseteq unpersisted /\ dropping' \subseteq dropping BY <1>2, <1>3, <1>9
  <1>12. \A k \in Handlers : k # h => todo'[k] = todo[k] /\ on'[k] = on[k]
    BY <1>5 DEF Others, Threads
  <1>13. DropOnce'
    <2>1. DropOnce BY DEF Traffic
    <2> QED BY <1>2, <1>4, <1>5, <1>12, <2>1 DEF DropOnce
  <1>14. OnDisk' BY <1>2 DEF Data, OnDisk
  <1>15. ASSUME NEW g \in Groups PROVE Kept(g)' /\ Marking(g)' /\ Removing(g)'
    <2>1. Kept(g) /\ Marking(g) /\ Removing(g) BY DEF Data
    <2>2. SubmitPending(g)' <=> SubmitPending(g) BY <1>10 DEF SubmitPending, SameWorkFor
    <2>3. Kept(g)' BY <1>2, <1>10, <1>11, <2>1, <2>2 DEF Kept, Covered, SameWorkFor
    <2>4. Marking(g)'
      <3>1. p = P4 => todo'[h] = P5 /\ on'[h].g = c BY <1>3, <1>5, <1>7, <1>8
      <3>2. todo[h] # P5 BY <1>4, <1>5
      <3> QED BY <1>10, <1>12, <2>1, <3>1, <3>2 DEF Marking
    <2>5. Removing(g)'
      <3>1. p = E6 => todo'[h] = E7 /\ on'[h].g = c BY <1>3, <1>5, <1>7, <1>8
      <3>2. todo[h] # E7 BY <1>4, <1>5
      <3> QED BY <1>10, <1>12, <2>1, <3>1, <3>2 DEF Removing
    <2> QED BY <2>3, <2>4, <2>5
  <1>16. ASSUME NEW k \in Handlers, NEW g \in Groups PROVE Persisting(k, g)'
    <2>1. Persisting(k, g) BY DEF Data
    <2>2. CASE k # h BY <1>2, <1>11, <1>12, <2>1, <2>2 DEF Persisting
    <2>3. CASE k = h /\ q = E7
      BY <1>5, <2>3, Nothing, PointFacts
    <2>4. CASE k = h /\ q # E7
      <3>1. p \in {P3, P4} /\ q \in {P4, P5} /\ (p = P4 => q = P5) BY <1>3, <1>8, <2>4
      <3>2. q \notin {P1, P2, P3} BY <3>1, HandlerHeads
      <3>3. on[h].g = g => g = c BY <1>7
      <3>4. on[h].g = g => \A l \in Layers : file[FileOf[g][l]] = "full"
        BY <1>5, <2>1, <2>4, <3>1 DEF Persisting
      <3>5. on[h].g = g => g \notin unpersisted'
        <4>1. CASE p = P3 BY <1>9, <3>3, <4>1
        <4>2. CASE p = P4 BY <1>5, <1>9, <2>1, <2>4, <4>2 DEF Persisting
        <4> QED BY <3>1, <4>1, <4>2
      <3> QED BY <1>2, <1>5, <2>4, <3>2, <3>4, <3>5 DEF Persisting
    <2> QED BY <2>2, <2>3, <2>4
  <1>17. ASSUME NEW g \in Groups PROVE Evicting(h, g)'
    <2>1. CASE q # E7
      BY <1>3, <1>5, <2>1, Nothing, PointFacts
    <2>2. CASE q = E7
      <3>1. p = E6 BY <1>3, <2>2, HandlerHeads, HandlerApart
      <3>2. on[h].g = g => Queued("remove_row", g)' BY <1>7, <1>10, <3>1
      <3>5. E7 # E8 BY PointFacts
      <3> QED BY <1>5, <2>2, <3>2, <3>5 DEF Evicting
    <2> QED BY <2>1, <2>2
  <1>18. on'[h].l # 0 => NoSaves BY <1>5, AtWork
  <1> QED
    BY <1>2, <1>5, <1>10, <1>11, <1>13, <1>14, <1>15, <1>16, <1>17, <1>18, HandlerFrame

\* evict_labels is answered.
LEMMA DroppedKeeps ==
  ASSUME Forms, Traffic, Data, NEW h \in Handlers, HDropped(h)
  PROVE  Traffic' /\ Data'
  <1>1. Types /\ h \in Threads BY DEF Forms, Threads
  <1>2. /\ mem' = mem /\ unpersisted' = unpersisted /\ rows' = rows /\ file' = file
        /\ queue' = queue /\ omp' = omp /\ loads' = loads
        /\ dropping' = dropping \ {on[h].g} /\ Moves(h, D2, <<>>)
    BY DEF HDropped
  <1>3. Others(h) /\ todo[h] = D2 /\ todo'[h] = <<>> /\ on'[h] = NoWork
    BY <1>1, <1>2, MovesFacts
  <1>4. /\ <<>> \notin FilePts /\ <<>> \notin EvictPts /\ <<>> \notin DropPts
        /\ D2 \notin {P5, E7} /\ D2 \in DropPts /\ NoWork.l = 0
    BY PointFacts DEF DropPts, NoWork
  <1>5. \A k \in Handlers : k # h => todo'[k] = todo[k] /\ on'[k] = on[k]
    BY <1>3 DEF Others, Threads
  <1>6. DropOnce'
    <2>1. DropOnce BY DEF Traffic
    <2>2. ASSUME NEW k \in Handlers, todo'[k] \in DropPts
          PROVE  k # h /\ todo[k] \in DropPts /\ on'[k] = on[k]
      BY <1>3, <1>4, <1>5, <2>2
    <2>3. ASSUME NEW k \in Handlers, todo'[k] \in DropPts PROVE on'[k].g \in dropping'
      <3>1. on[k].g \in dropping /\ on[k].g # on[h].g
        BY <1>3, <1>4, <2>1, <2>2, <2>3 DEF DropOnce
      <3> QED BY <1>2, <2>2, <2>3, <3>1
    <2> QED BY <2>1, <2>2, <2>3 DEF DropOnce
  <1>7. \A g \in Groups : Persisting(h, g)' /\ Evicting(h, g)' BY <1>3, <1>4, Nothing
  <1>8. ASSUME NEW k \in Handlers, NEW g \in Groups PROVE Persisting(k, g)'
    <2>1. Persisting(k, g) BY DEF Data
    <2>2. CASE k = h BY <1>7, <2>2
    <2>3. CASE k # h BY <1>2, <1>5, <2>1, <2>3 DEF Persisting
    <2> QED BY <2>2, <2>3
  <1>9. \A g \in Groups : Marking(g)' /\ Removing(g)' BY <1>2, <1>3, <1>4, MarksKept
  <1>10. ASSUME NEW g \in Groups
         PROVE  SameWorkFor(g) /\ (\A o : Queued(o, g)' <=> Queued(o, g))
    BY <1>2, <1>3, SameWork DEF Queued
  <1>11. ASSUME NEW g \in Groups PROVE Kept(g)'
    <2>1. Kept(g) BY DEF Data
    <2>2. SubmitPending(g)' <=> SubmitPending(g) BY <1>10 DEF SubmitPending, SameWorkFor
    <2> QED BY <1>2, <1>10, <2>1, <2>2 DEF Kept, Covered, SameWorkFor
  <1>12. OnDisk' BY <1>2 DEF Data, OnDisk
  <1>13. unpersisted' \subseteq unpersisted /\ dropping' \subseteq dropping BY <1>2
  <1>14. on'[h].l # 0 => NoSaves BY <1>3, <1>4
  <1> QED
    BY <1>2, <1>3, <1>6, <1>7, <1>8, <1>9, <1>10, <1>11, <1>12, <1>13, <1>14, HandlerFrame

\* A file is opened or written: its group is being persisted and not marked.
LEMMA WriteKeeps ==
  ASSUME Forms, Traffic, Data, NEW h \in Handlers, todo[h] = P2, WriteFile(h)
  PROVE  Traffic' /\ Data'
  <1>1. Types /\ h \in Threads BY DEF Forms, Threads
  <1>2. P2 \in PersistPts \cup EvictPts BY DEF PersistPts
  <1>3. Operator /\ on[h].g \in Groups /\ on[h].l \in 1..(NumLayers + 1)
    BY <1>2, OperatorFacts
  <1>4. PICK c \in Groups : c = on[h].g BY <1>3
  <1>5. PICK n \in Layers : n = on[h].l
    <2>1. on[h].l \in Nat \ {0} BY <1>3
    <2> QED BY <1>1, <1>3, <2>1, WriteFacts
  <1>6. c \in unpersisted BY <1>4 DEF WriteFile
  <1>7. NoSaves BY <1>3 DEF Traffic, OperatorAlone, NoSaves
  <1>8. n \in mem[c]
    <2>1. Covered(c) BY <1>6 DEF Data, Kept
    <2> QED BY <1>7, <2>1 DEF Covered, NoSaves
  <1>9. rows[c] # 1 BY <1>6, <1>7 DEF Data, Resaved, NoSaves
  <1>10. PICK f : f = FileOf[c][n] OBVIOUS
  <1>11. /\ file' = [file EXCEPT ![f] = IF file[f] = "cut" THEN "full" ELSE "cut"]
         /\ on' = IF file'[f] = "cut" THEN on ELSE [on EXCEPT ![h].l = @ + 1]
         /\ mem' = mem /\ unpersisted' = unpersisted /\ rows' = rows /\ queue' = queue
         /\ todo' = todo /\ omp' = omp /\ dropping' = dropping /\ loads' = loads
    BY <1>4, <1>5, <1>8, <1>10 DEF WriteFile, memVars, tasks
  <1>12. f \in DOMAIN file
    <2>1. FileOf[c][n] \in Files BY DEF Files
    <2> QED BY <1>1, <1>10, <2>1 DEF Types, DataTypes
  <1>13. /\ \A x : x # f => file'[x] = file[x]
         /\ file'[f] \in {"cut", "full"}
    BY <1>1, <1>11, <1>12 DEF Types, DataTypes
  <1>14. ASSUME NEW g \in Groups, NEW l \in Layers, <<g, l>> # <<c, n>>
         PROVE  file'[FileOf[g][l]] = file[FileOf[g][l]]
    <2>1. FileOf[g][l] # f BY <1>10, <1>14, FilesDiffer
    <2> QED BY <1>13, <2>1
  <1>15. /\ on'[h].g = c
         /\ on'[h].l = IF file'[f] = "cut" THEN n ELSE n + 1
         /\ \A u \in Threads : u # h => on'[u] = on[u]
    <2>1. on \in [Threads -> Works] BY <1>1 DEF Types, ThreadTypes
    <2>2. CASE file'[f] = "cut" BY <1>4, <1>5, <1>11, <2>2
    <2>3. CASE file'[f] # "cut"
      <3>1. on' = [on EXCEPT ![h] = [on[h] EXCEPT !.l = @ + 1]] BY <1>11, <2>3
      <3>2. /\ [on[h] EXCEPT !.l = @ + 1].g = on[h].g
            /\ [on[h] EXCEPT !.l = @ + 1].l = on[h].l + 1
        BY <1>1, <2>1 DEF Works
      <3>3. on'[h] = [on[h] EXCEPT !.l = @ + 1] /\ \A u \in Threads : u # h => on'[u] = on[u]
        BY <1>1, <2>1, <3>1
      <3> QED BY <1>4, <1>5, <2>3, <3>2, <3>3
    <2> QED BY <2>2, <2>3
  <1>16. Others(h) /\ todo'[h] = P2 BY <1>11, <1>15 DEF Others
  <1>17. \A k \in Handlers : k # h => todo'[k] = todo[k] /\ on'[k] = on[k]
    BY <1>16 DEF Others, Threads
  <1>18. P2 \notin DropPts /\ P2 \notin EvictPts /\ P2 \notin {P5, E7} /\ P2 \notin {P1, P3, P4, P5}
    BY PointFacts
  <1>19. DropOnce'
    <2>1. DropOnce BY DEF Traffic
    <2> QED BY <1>11, <1>16, <1>17, <1>18, <2>1 DEF DropOnce
  <1>20. OnDisk'
    <2> SUFFICES ASSUME NEW g \in Groups, rows'[g] = 1, NEW l \in Layers
                 PROVE  file'[FileOf[g][l]] = "full"
      BY DEF OnDisk
    <2>1. g # c /\ rows[g] = 1 BY <1>9, <1>11
    <2>2. <<g, l>> # <<c, n>> BY <2>1
    <2>3. file[FileOf[g][l]] = "full" BY <2>1 DEF Data, OnDisk
    <2> QED BY <1>14, <2>2, <2>3
  <1>21. ASSUME NEW k \in Handlers, NEW g \in Groups PROVE Persisting(k, g)'
    <2>1. Persisting(k, g) BY DEF Data
    <2>2. CASE k = h
      <3>1. ASSUME on'[h].g = g, NEW l \in Layers, l < on'[h].l
            PROVE  file'[FileOf[g][l]] = "full"
        <4>0. NumLayers \in Nat BY StoreAssumption DEF NumLayers
        <4>1. g = c /\ on[h].g = g BY <1>4, <1>15, <3>1
        <4>2. CASE l = n
          <5>1. file'[f] # "cut" BY <1>15, <3>1, <4>0, <4>2 DEF Layers
          <5> QED BY <1>10, <1>13, <4>1, <4>2, <5>1
        <4>3. CASE l # n
          <5>1. l < n BY <1>15, <3>1, <4>0, <4>3 DEF Layers
          <5>2. file[FileOf[g][l]] = "full" BY <1>5, <2>1, <2>2, <4>1, <5>1 DEF Persisting
          <5>3. <<g, l>> # <<c, n>> BY <4>3
          <5> QED BY <1>14, <5>2, <5>3
        <4> QED BY <4>2, <4>3
      <3> QED BY <1>16, <1>18, <2>2, <3>1 DEF Persisting
    <2>3. CASE k # h
      <3>1. todo[k] \notin {P2, P3, P4, P5}
        <4>1. {P2, P3, P4, P5} \subseteq MutexPts BY PointSets
        <4> QED BY <2>3, <4>1, MutexAlone
      <3>2. todo'[k] = todo[k] /\ on'[k] = on[k] BY <1>17, <2>3
      <3> QED BY <2>1, <3>1, <3>2 DEF Persisting
    <2> QED BY <2>2, <2>3
  <1>22. \A g \in Groups : Evicting(h, g)' BY <1>16, <1>18, Nothing
  <1>23. \A g \in Groups : Marking(g)' /\ Removing(g)' BY <1>11, <1>16, <1>18, MarksKept
  <1>24. ASSUME NEW g \in Groups
         PROVE  SameWorkFor(g) /\ (\A o : Queued(o, g)' <=> Queued(o, g))
    BY <1>11, <1>16, SameWork DEF Queued
  <1>25. ASSUME NEW g \in Groups PROVE Kept(g)'
    <2>1. Kept(g) BY DEF Data
    <2>2. SubmitPending(g)' <=> SubmitPending(g) BY <1>24 DEF SubmitPending, SameWorkFor
    <2> QED BY <1>11, <1>24, <2>1, <2>2 DEF Kept, Covered, SameWorkFor
  <1>26. unpersisted' \subseteq unpersisted /\ dropping' \subseteq dropping BY <1>11
  <1> QED
    BY <1>7, <1>11, <1>16, <1>19, <1>20, <1>21, <1>22, <1>23, <1>24, <1>25, <1>26, HandlerFrame

-----------------------------------------------------------------------------
(* TZ-REC, the scheduler, and a new process.                               *)

\* A transaction is committed.
LEMMA CommitKeeps ==
  ASSUME Forms, Traffic, Data, Commit
  PROVE  Traffic' /\ Data'
  <1>1. Types BY DEF Forms
  <1>2. PICK e \in Transactions : e = Head(queue) BY <1>1, CommitFacts
  <1>3. PICK c \in Groups : c = e.g BY DEF Transactions
  <1>4. PICK o \in Ops : o = e.op BY DEF Transactions
  <1>5. /\ queue # <<>> /\ queue' = Tail(queue)
        /\ \A g \in Groups : g # c => rows'[g] = rows[g]
        /\ o = "submit" => rows'[c] = 0
        /\ o = "mark_row" => rows'[c] = IF rows[c] = NoRow THEN NoRow ELSE 1
        /\ o = "remove_row" => rows'[c] = NoRow
        /\ mem' = mem /\ unpersisted' = unpersisted /\ file' = file /\ todo' = todo /\ on' = on
        /\ omp' = omp /\ dropping' = dropping /\ loads' = loads
    BY <1>1, <1>2, <1>3, <1>4, CommitFacts
  <1>6. ASSUME NEW g \in Groups PROVE SameWorkFor(g)
    <2>1. ToSubmit(g)' <=> ToSubmit(g) BY <1>5 DEF ToSubmit
    <2>2. \A l \in Layers : Pend(g, l)' <=> Pend(g, l) BY <1>5, <2>1 DEF Pend, Coming, PutOn
    <2>3. (Busy(g)' <=> Busy(g)) /\ (Flushing(g)' <=> Flushing(g))
      BY <1>5 DEF Busy, Flushing
    <2> QED BY <2>1, <2>2, <2>3 DEF SameWorkFor
  <1>7. \A p \in Ops : \A g \in Groups : Queued(p, g) <=> Queued(p, g)' \/ (o = p /\ c = g)
    BY <1>1, <1>2, <1>3, <1>4, <1>5, QueuedShrinks
  <1>8. Ops = {"submit", "mark_row", "remove_row"} BY DEF Ops
  <1>9. ASSUME NEW g \in Groups
        PROVE  /\ SubmitPending(g)' => SubmitPending(g)
               /\ (g # c \/ o # "submit") /\ SubmitPending(g) => SubmitPending(g)'
    BY <1>6, <1>7, <1>8 DEF SubmitPending, SameWorkFor
  <1>10. Operator' <=> Operator BY <1>5 DEF Operator
  <1>11. OperatorAlone'
    <2> SUFFICES ASSUME Operator', NEW g \in Groups
                 PROVE  (~SubmitPending(g) /\ \A l \in Layers : ~Pend(g, l))'
      BY DEF OperatorAlone
    <2>1. ~SubmitPending(g) /\ \A l \in Layers : ~Pend(g, l)
      BY <1>10 DEF Traffic, OperatorAlone
    <2> QED BY <1>6, <1>9, <2>1 DEF SameWorkFor
  <1>12. DropOnce' BY <1>5 DEF DropOnce, Traffic
  <1>13. Marking(c) /\ Removing(c) /\ Kept(c) /\ Resaved(c) /\ FlushFirst(c) /\ DropApart(c)
    BY DEF Data, Traffic
  <1>14. ASSUME o = "submit"
         PROVE  /\ SubmitPending(c) /\ Queued("submit", c) /\ Covered(c) /\ ~Operator
                /\ c \notin dropping
    <2>1. Queued("submit", c) BY <1>7, <1>8, <1>14
    <2>2. SubmitPending(c) BY <2>1 DEF SubmitPending
    <2>3. Busy(c) BY <1>13, <2>1, BusyFacts DEF FlushFirst
    <2> QED BY <1>13, <2>1, <2>2, <2>3 DEF Kept, DropApart, Traffic, OperatorAlone
  <1>15. ASSUME o = "mark_row"
         PROVE  /\ NoSaves /\ c \notin unpersisted
                /\ \A l \in Layers : file[FileOf[c][l]] = "full"
                /\ \A k \in Handlers : todo[k] \notin {E7, E8}
    <2>1. Queued("mark_row", c) BY <1>7, <1>8, <1>15
    <2>2. PICK h \in Handlers : todo[h] = P5 /\ on[h].g = c BY <1>13, <2>1 DEF Marking
    <2>3. P5 \in PersistPts \cup EvictPts BY DEF PersistPts
    <2>4. NoSaves BY <2>2, <2>3, OperatorFacts DEF Traffic, OperatorAlone, NoSaves
    <2>5. Persisting(h, c) BY DEF Data
    <2>6. {P5, E7, E8} \subseteq MutexPts /\ P5 \notin {E7, E8}
      BY PointSets, HandlerHeads, HandlerApart
    <2>7. \A k \in Handlers : todo[k] \notin {E7, E8} BY <2>2, <2>6, MutexAlone
    <2> QED BY <2>2, <2>4, <2>5, <2>7 DEF Persisting
  <1>16. ASSUME o = "remove_row" PROVE NoSaves
    <2>1. Queued("remove_row", c) BY <1>7, <1>8, <1>16
    <2>2. PICK h \in Handlers : todo[h] = E7 /\ on[h].g = c BY <1>13, <2>1 DEF Removing
    <2>3. E7 \in EvictPts BY DEF EvictPts
    <2> QED BY <2>2, <2>3, OperatorFacts DEF Traffic, OperatorAlone, NoSaves
  <1>17. ASSUME NEW g \in Groups PROVE FlushFirst(g)' /\ DropApart(g)'
    <2>1. FlushFirst(g) /\ DropApart(g) BY DEF Traffic
    <2>3. Queued("submit", g)' => Queued("submit", g) BY <1>7, <1>8
    <2>2. FlushFirst(g)' BY <1>6, <2>1, <2>3 DEF FlushFirst, SameWorkFor
    <2>4. g = c /\ g \in dropping => rows'[c] # 0
      BY <1>5, <1>8, <1>14 DEF NoRow
    <2>5. DropApart(g)'
      <3>1. CASE g = c BY <1>5, <1>6, <2>1, <2>3, <2>4, <3>1 DEF DropApart, SameWorkFor
      <3>2. CASE g # c BY <1>5, <1>6, <2>1, <2>3, <3>2 DEF DropApart, SameWorkFor
      <3> QED BY <3>1, <3>2
    <2> QED BY <2>2, <2>5
  <1>18. ASSUME NEW g \in Groups PROVE Resaved(g)' /\ Kept(g)'
    <2>1. Resaved(g) /\ Kept(g) BY DEF Data
    <2>2. Covered(g)' <=> Covered(g) BY <1>5, <1>6 DEF Covered, SameWorkFor
    <2>3. CASE g # c
      <3>1. SubmitPending(g)' <=> SubmitPending(g) BY <1>9, <2>3
      <3> QED BY <1>5, <1>6, <2>1, <2>2, <2>3, <3>1 DEF Resaved, Kept, SameWorkFor
    <2>4. CASE g = c /\ o = "submit"
      BY <1>5, <1>14, <2>2, <2>4 DEF Resaved, Kept
    <2>5. CASE g = c /\ o = "mark_row"
      <3>1. ~SubmitPending(c)' /\ (\A l \in Layers : ~Pend(c, l)') /\ c \notin unpersisted'
        BY <1>5, <1>6, <1>9, <1>15, <2>5 DEF NoSaves, SameWorkFor
      <3>2. rows'[c] # 0 BY <1>5, <2>5 DEF NoRow
      <3> QED BY <2>5, <3>1, <3>2 DEF Resaved, Kept
    <2>6. CASE g = c /\ o = "remove_row"
      <3>1. ~SubmitPending(c)' /\ \A l \in Layers : ~Pend(c, l)'
        BY <1>6, <1>9, <1>16, <2>6 DEF NoSaves, SameWorkFor
      <3>2. rows'[c] # 0 /\ rows'[c] # 1 BY <1>5, <2>6 DEF NoRow
      <3> QED BY <1>5, <2>1, <2>2, <2>6, <3>1, <3>2 DEF Resaved, Kept
    <2> QED BY <1>8, <2>3, <2>4, <2>5, <2>6
  <1>19. ASSUME NEW g \in Groups PROVE Marking(g)' /\ Removing(g)'
    <2>1. Marking(g) /\ Removing(g) BY DEF Data
    <2>2. /\ Queued("mark_row", g)' => Queued("mark_row", g)
          /\ Queued("remove_row", g)' => Queued("remove_row", g)
      BY <1>7, <1>8
    <2> QED BY <1>5, <2>1, <2>2 DEF Marking, Removing
  <1>21. ASSUME NEW h \in Handlers, NEW g \in Groups PROVE Persisting(h, g)'
    <2>1. Persisting(h, g) BY DEF Data
    <2> QED BY <1>5, <2>1 DEF Persisting
  <1>22. ASSUME NEW h \in Handlers, NEW g \in Groups PROVE Evicting(h, g)'
    <2>1. Evicting(h, g) BY DEF Data
    <2>2. todo'[h] = todo[h] /\ on'[h] = on[h] BY <1>5
    <2>3. CASE g # c
      <3>1. Queued("remove_row", g)' <=> Queued("remove_row", g) BY <1>7, <1>8, <2>3
      <3> QED BY <1>5, <2>1, <2>2, <2>3, <3>1 DEF Evicting
    <2>4. CASE g = c /\ o = "submit"
      <3>1. todo'[h] \notin EvictPts BY <1>14, <2>2, <2>4, OperatorFacts
      <3> QED BY <3>1, Nothing
    <2>5. CASE g = c /\ o = "mark_row"
      <3>1. todo'[h] \notin {E7, E8} BY <1>15, <2>2, <2>5
      <3> QED BY <2>5, <3>1 DEF Evicting
    <2>6. CASE g = c /\ o = "remove_row"
      <3>1. rows'[c] = NoRow /\ rows'[c] # 0 BY <1>5, <2>6 DEF NoRow
      <3> QED BY <2>2, <2>6, <3>1 DEF Evicting
    <2> QED BY <1>8, <2>3, <2>4, <2>5, <2>6
  <1>23. OnDisk'
    <2> SUFFICES ASSUME NEW g \in Groups, rows'[g] = 1
                 PROVE  \A l \in Layers : file'[FileOf[g][l]] = "full"
      BY DEF OnDisk
    <2>1. CASE g # c
      <3>1. rows[g] = 1 BY <1>5, <2>1
      <3> QED BY <1>5, <3>1 DEF Data, OnDisk
    <2>2. CASE g = c
      <3>1. o = "mark_row" BY <1>5, <1>8, <2>2 DEF NoRow
      <3> QED BY <1>5, <1>15, <2>2, <3>1
    <2> QED BY <2>1, <2>2
  <1> QED
    BY <1>11, <1>12, <1>17, <1>18, <1>19, <1>21, <1>22, <1>23 DEF Traffic, Data

\* The scheduler selects a group whose lease is over.
LEMMA EvictsKeeps ==
  ASSUME Forms, Traffic, Data, NEW c \in Groups, SchedulerEvicts(c)
  PROVE  Traffic' /\ Data'
  <1>1. Types BY DEF Forms
  <1>2. /\ rows[c] # NoRow /\ ~Busy(c) /\ dropping' = dropping \cup {c}
        /\ rows'[c] = (IF rows[c] = 1 THEN 1 ELSE NoRow)
        /\ \A x \in Groups : x # c => rows'[x] = rows[x]
        /\ mem' = mem /\ unpersisted' = unpersisted /\ file' = file /\ queue' = queue
        /\ todo' = todo /\ on' = on /\ omp' = omp /\ loads' = loads
    BY <1>1, EvictsFacts
  <1>4. ASSUME NEW g \in Groups
        PROVE  SameWorkFor(g) /\ (\A o : Queued(o, g)' <=> Queued(o, g))
               /\ (SubmitPending(g)' <=> SubmitPending(g)) /\ (Covered(g)' <=> Covered(g))
    <2>1. ToSubmit(g)' <=> ToSubmit(g) BY <1>2 DEF ToSubmit
    <2>2. \A l \in Layers : Pend(g, l)' <=> Pend(g, l) BY <1>2, <2>1 DEF Pend, Coming, PutOn
    <2>3. (Busy(g)' <=> Busy(g)) /\ (Flushing(g)' <=> Flushing(g))
      BY <1>2 DEF Busy, Flushing
    <2>4. \A o : Queued(o, g)' <=> Queued(o, g) BY <1>2 DEF Queued
    <2> QED BY <1>2, <2>1, <2>2, <2>3, <2>4 DEF SameWorkFor, SubmitPending, Covered
  <1>6. rows'[c] # 0 /\ (rows'[c] = 1 => rows[c] = 1) /\ NoRow # 0 BY <1>2 DEF NoRow
  <1>7. OperatorAlone'
    <2>1. Operator' <=> Operator BY <1>2 DEF Operator
    <2>2. OperatorAlone BY DEF Traffic
    <2> QED BY <1>4, <2>1, <2>2 DEF OperatorAlone, SameWorkFor
  <1>8. DropOnce' BY <1>2 DEF DropOnce, Traffic
  <1>9. ASSUME NEW g \in Groups PROVE FlushFirst(g)' /\ DropApart(g)'
    <2>1. FlushFirst(g) /\ DropApart(g) BY DEF Traffic
    <2>2. FlushFirst(g)' BY <1>4, <2>1 DEF FlushFirst, SameWorkFor
    <2>3. CASE g = c BY <1>2, <1>4, <1>6, <2>2, <2>3 DEF DropApart, SameWorkFor
    <2>4. CASE g # c
      <3>1. rows'[g] = rows[g] /\ (g \in dropping' => g \in dropping) BY <1>2, <2>4
      <3> QED BY <1>4, <2>1, <2>2, <3>1 DEF DropApart, SameWorkFor
    <2> QED BY <2>3, <2>4
  <1>10. ASSUME NEW g \in Groups
         PROVE  Resaved(g)' /\ Kept(g)' /\ Marking(g)' /\ Removing(g)'
    <2>1. Resaved(g) /\ Kept(g) /\ Marking(g) /\ Removing(g) BY DEF Data
    <2>2. (rows'[g] = 1 => rows[g] = 1) /\ (rows'[g] = 0 => rows[g] = 0)
      BY <1>2, <1>6
    <2>3. Resaved(g)' BY <1>2, <1>4, <2>1, <2>2 DEF Resaved, SameWorkFor
    <2>4. Kept(g)' BY <1>2, <1>4, <2>1, <2>2 DEF Kept, SameWorkFor
    <2>5. Marking(g)' /\ Removing(g)' BY <1>2, <1>4, <2>1 DEF Marking, Removing
    <2> QED BY <2>3, <2>4, <2>5
  <1>11. ASSUME NEW h \in Handlers, NEW g \in Groups
         PROVE  Persisting(h, g)' /\ Evicting(h, g)'
    <2>1. Persisting(h, g) /\ Evicting(h, g) BY DEF Data
    <2>2. Persisting(h, g)' BY <1>2, <2>1 DEF Persisting
    <2>3. CASE g = c
      <3>1. on[h].g = c /\ todo[h] = E7 => Queued("remove_row", c)
        BY <1>2, <2>1, <2>3 DEF Evicting
      <3>2. Evicting(h, g)' BY <1>2, <1>4, <1>6, <2>3, <3>1 DEF Evicting
      <3> QED BY <2>2, <3>2
    <2>4. CASE g # c
      <3>1. Evicting(h, g)' BY <1>2, <1>4, <2>1, <2>4 DEF Evicting
      <3> QED BY <2>2, <3>1
    <2> QED BY <2>3, <2>4
  <1>12. OnDisk'
    <2> SUFFICES ASSUME NEW g \in Groups, rows'[g] = 1
                 PROVE  \A l \in Layers : file'[FileOf[g][l]] = "full"
      BY DEF OnDisk
    <2>1. rows[g] = 1 BY <1>2, <1>6
    <2> QED BY <1>2, <2>1 DEF Data, OnDisk
  <1> QED BY <1>7, <1>8, <1>9, <1>10, <1>11, <1>12 DEF Traffic, Data

\* Nothing is under way, and no row waits to be marked.
Fresh ==
  /\ \A t \in Threads : todo[t] = <<>> /\ on[t] = NoWork
  /\ queue = <<>> /\ loads = {} /\ omp = <<>> /\ dropping = {} /\ unpersisted = {}
  /\ \A g \in Groups : rows[g] # 0
  /\ OnDisk

LEMMA FreshKeeps == Fresh => Traffic /\ Data
  <1> SUFFICES ASSUME Fresh PROVE Traffic /\ Data
    OBVIOUS
  <1>1. Handlers \subseteq Threads /\ Main \in Threads /\ Omp \in Threads BY DEF Threads
  <1>2. NoWork.l = 0 BY DEF NoWork
  <1>3. \A h \in Handlers : todo[h] = <<>> /\ on[h].l = 0 BY <1>1, <1>2 DEF Fresh
  <1>4. ~Operator BY <1>3 DEF Operator
  <1>5. PutTask # <<>> BY DEF PutTask
  <1>6. ASSUME NEW g \in Groups
        PROVE  (\A o : ~Queued(o, g)) /\ ~SubmitPending(g) /\ \A l \in Layers : ~Pend(g, l)
    <2>1. \A o : ~Queued(o, g) BY DEF Queued, Fresh
    <2>2. ~ToSubmit(g) BY <1>1 DEF ToSubmit, Fresh
    <2>3. \A l \in Layers : ~Pend(g, l) BY <1>1, <1>5, <2>2 DEF Pend, Coming, PutOn, Fresh
    <2> QED BY <2>1, <2>2, <2>3 DEF SubmitPending
  <1>7. OperatorAlone BY <1>4 DEF OperatorAlone
  <1>8. DropOnce BY <1>3, PointFacts DEF DropOnce
  <1>9. \A g \in Groups : FlushFirst(g) /\ DropApart(g) BY <1>6 DEF FlushFirst, DropApart, Fresh
  <1>10. \A g \in Groups : Resaved(g) /\ Kept(g) BY <1>6 DEF Resaved, Kept, Fresh
  <1>11. \A g \in Groups : Marking(g) /\ Removing(g)
    BY <1>6 DEF Marking, Removing
  <1>12. \A h \in Handlers : \A g \in Groups : Persisting(h, g)
    BY <1>3, HandlerHeads DEF Persisting
  <1>13. \A h \in Handlers : \A g \in Groups : Evicting(h, g)
    BY <1>3, HandlerHeads, PointFacts DEF Evicting
  <1> QED BY <1>7, <1>8, <1>9, <1>10, <1>11, <1>12, <1>13 DEF Traffic, Data, Fresh

\* A run starts, or starts again.
LEMMA FreshNext == Fresh' => (Traffic /\ Data)'
  BY FreshKeeps, PTL

LEMMA InitFresh == Init => Fresh
  <1> SUFFICES ASSUME Init PROVE Fresh
    OBVIOUS
  <1>1. \A g \in Groups : rows[g] = NoRow BY DEF Init
  <1>2. NoRow # 0 /\ NoRow # 1 BY DEF NoRow
  <1>3. OnDisk BY <1>1, <1>2 DEF OnDisk
  <1>4. \A t \in Threads : todo[t] = <<>> /\ on[t] = NoWork BY DEF Init
  <1>5. /\ queue = <<>> /\ loads = {} /\ omp = <<>> /\ dropping = {} /\ unpersisted = {}
    BY DEF Init
  <1> QED BY <1>1, <1>2, <1>3, <1>4, <1>5 DEF Fresh

LEMMA InitRest == Init => Traffic /\ Data
  BY InitFresh, FreshKeeps

LEMMA RebornFresh ==
  ASSUME Data, Reborn
  PROVE  Fresh'
  <1>1. \A g \in Groups : rows'[g] = (IF rows[g] = 1 THEN 1 ELSE NoRow)
    BY DEF Reborn, Cleaned
  <1>2. NoRow # 0 /\ NoRow # 1 BY DEF NoRow
  <1>3. (\A g \in Groups : rows'[g] # 0) /\ \A g \in Groups : rows'[g] = 1 => rows[g] = 1
    BY <1>1, <1>2
  <1>4. /\ \A t \in Threads : todo'[t] = <<>> /\ on'[t] = NoWork
        /\ queue' = <<>> /\ loads' = {} /\ omp' = <<>> /\ dropping' = {} /\ unpersisted' = {}
        /\ file' = file
    BY DEF Reborn
  <1>5. OnDisk' BY <1>3, <1>4 DEF Data, OnDisk
  <1> QED BY <1>3, <1>4, <1>5 DEF Fresh

LEMMA RebornKeeps ==
  ASSUME Data, Reborn
  PROVE  Traffic' /\ Data'
  BY RebornFresh, FreshNext

-----------------------------------------------------------------------------
(* The invariant and what follows from it.                                 *)

LEMMA RestStep ==
  ASSUME OperatorWaits, Forms, Traffic, Data, [NextWithCandidates]_vars
  PROVE  Traffic' /\ Data'
  <1>1. ASSUME NEW h \in Handlers, Step(h) PROVE Traffic' /\ Data'
    <2>1. HandlerForm(h) /\ Types BY DEF Forms
    <2>2. HandlerMove(h) BY <1>1, <2>1, HandlerSteps
    <2> QED BY <2>2, StillSteps, MarkKeeps, ClearKeeps, DroppedKeeps, WriteKeeps DEF HandlerMove
  <1>2. ASSUME NEW t \in Threads, Step(t) PROVE Traffic' /\ Data'
    BY <1>1, <1>2, MainCalm, OmpCalm, CalmKeeps DEF Threads
  <1>3. ASSUME Serve \/ StopCall \/ UNCHANGED vars PROVE Traffic' /\ Data'
    BY <1>3, ServeCalm, CallCalm, CalmKeeps
  <1>4. ASSUME NEW g \in Groups, Save(g) PROVE Traffic' /\ Data' BY <1>4, SaveKeeps
  <1>5. ASSUME NEW g \in Groups, NEW l \in Layers, Load(g, l) PROVE Traffic' /\ Data'
    BY <1>5, CallCalm, CalmKeeps
  <1>6. ASSUME NEW h \in Handlers, NEW g \in Groups, Handle(h, g) PROVE Traffic' /\ Data'
    BY <1>6, HandleKeeps
  <1>7. ASSUME NEW h \in Handlers, ListCandidates(h) PROVE Traffic' /\ Data'
    BY <1>7, ListKeeps
  <1>8. ASSUME NEW t \in Threads, ReadStatus(t) PROVE Traffic' /\ Data'
    <2>1. t = Main \/ t \in Handlers BY <1>8 DEF ReadStatus, Threads
    <2> QED BY <1>8, <2>1, CallCalm, CalmKeeps, ListKeeps
  <1>9. ASSUME NEW g \in Groups, SchedulerEvicts(g) PROVE Traffic' /\ Data'
    BY <1>9, EvictsKeeps
  <1>10. ASSUME Commit PROVE Traffic' /\ Data' BY <1>10, CommitKeeps
  <1>11. ASSUME Reborn PROVE Traffic' /\ Data' BY <1>11, RebornKeeps
  <1> QED
    BY <1>2, <1>3, <1>4, <1>5, <1>6, <1>7, <1>8, <1>9, <1>10, <1>11
    DEF NextWithCandidates, Next, Crash, Exit, Abort

LEMMA InvStep ==
  ASSUME OperatorWaits
  PROVE  Inv /\ [NextWithCandidates]_vars => Inv'
  <1> SUFFICES ASSUME Inv, [NextWithCandidates]_vars PROVE Inv'
    OBVIOUS
  <1>1. Forms /\ Traffic /\ Data BY DEF Inv
  <1>2. Forms' BY <1>1, FormsStep
  <1>3. Traffic' /\ Data' BY <1>1, RestStep
  <1> QED BY <1>2, <1>3 DEF Inv

\* No step changes the operator.
LEMMA OperatorStays ==
  ASSUME [NextWithCandidates]_vars
  PROVE  OperatorWaits' => OperatorWaits
  <1>1. ASSUME NEW t \in Threads, Step(t) PROVE drained' = drained
    BY <1>1 DEF Step, Lock, Wait, Submit, Enqueue, Put, Guard, Look, ReadFile, NotFound,
       Requeue, WriteFile, Saved, Mark, Forget, Dropped
  <1>2. ASSUME NEW t, NEW w, NEW steps, Enter(t, w, steps) PROVE drained' = drained
    BY <1>2 DEF Enter
  <1>3. ASSUME Reborn PROVE drained' = drained BY <1>3 DEF Reborn
  <1>4. ASSUME Serve \/ Commit \/ \E g \in Groups : SchedulerEvicts(g) PROVE drained' = drained
    BY <1>4 DEF Serve, Commit, SchedulerEvicts
  <1>5. UNCHANGED vars => drained' = drained BY DEF vars
  <1>6. drained' = drained
    BY <1>1, <1>2, <1>3, <1>4, <1>5
    DEF NextWithCandidates, Next, Save, Load, Handle, ReadStatus, StopCall, ListCandidates,
        Abort, Exit, Crash
  <1> QED BY <1>6 DEF OperatorWaits

\* With and without the candidate lists.
SpecWithCandidates == Init /\ [][NextWithCandidates]_vars

LEMMA SpecSteps == Spec => SpecWithCandidates
  <1>1. [Next]_vars => [NextWithCandidates]_vars BY DEF NextWithCandidates
  <1> QED BY <1>1, PTL DEF Spec, SpecWithCandidates

\* Whatever the operator lets drain: every thread is at a point of the call it is
\* in, and whoever is inside a critical section of Mem holds mutex_.
THEOREM StoreForms == SpecWithCandidates => []Forms
  <1>1. Forms /\ [NextWithCandidates]_vars => Forms' BY FormsStep
  <1> QED BY <1>1, InitForms, PTL DEF SpecWithCandidates

\* With an operator that lets the requests drain: the invariant.
THEOREM StoreInvariant == SpecWithCandidates => [](OperatorWaits => Inv)
  <1>1. Init => Inv BY InitForms, InitRest DEF Inv
  <1>2. (OperatorWaits => Inv) /\ [NextWithCandidates]_vars => (OperatorWaits => Inv)'
    BY InvStep, OperatorStays
  <1> QED BY <1>1, <1>2, PTL DEF SpecWithCandidates

\* Storage and Record: when the operator's calls wait for the requests they race
\* with, then in every state of every run, also after the process has died at any
\* step and come back, each layer of a group whose row is marked persisted has a
\* completely written file.
THEOREM StoreDiskComplete ==
  (Spec => []DiskComplete) /\ (SpecWithCandidates => []DiskComplete)
  <1>1. (OperatorWaits => Inv) => DiskComplete BY DEF Inv, Data, DiskComplete
  <1>2. SpecWithCandidates => [](OperatorWaits => Inv) BY StoreInvariant
  <1> QED BY <1>1, <1>2, SpecSteps, PTL

-----------------------------------------------------------------------------
(* The loads.                                                              *)

\* A load of g is under way.
LoadOf(g) == \/ todo[Main] = Unzip /\ on[Main].g = g
             \/ \E w \in loads : w.g = g
             \/ \E i \in 1..Len(omp) : ~omp[i].put /\ omp[i].g = g
             \/ todo[Omp] \in GetPts /\ on[Omp].g = g

\* No load runs while groups are evicted by hand; the row of a group that is loaded
\* stays; a group whose row is not marked is in Mem or on its way there.
EvictAlone == (\E h \in Handlers : todo[h] \in EvictPts) => \A g \in Groups : ~LoadOf(g)
LoadRow(g) == LoadOf(g) => rows[g] # NoRow
Arrives(g) == rows[g] = 0 => \A l \in Layers : l \in mem[g] \/ Coming(g, l)

\* A load that is tried again comes behind the put it waits for, and finds its
\* layer in Mem when its turn comes.
PutNow(g, l) == todo[Omp] = PutTask /\ on[Omp] = Work(g, l)
Behind(i) == \/ omp[i].l \in mem[omp[i].g] \/ PutNow(omp[i].g, omp[i].l)
             \/ \E j \in 1..(i - 1) : omp[j].put /\ omp[j].g = omp[i].g /\ omp[j].l = omp[i].l
RetrySafe == \A i \in 1..Len(omp) : ~omp[i].put => Behind(i)
OmpSafe ==
  /\ todo[Omp] \in {R1, R2, R3} => on[Omp].l \in mem[on[Omp].g]
  /\ todo[Omp] \in {N1, N2} => on[Omp].l \in mem[on[Omp].g] \/ PutOn(on[Omp].g, on[Omp].l)
  /\ todo[Omp] \notin {M1, M2}

LoadInv == EvictAlone /\ RetrySafe /\ OmpSafe /\ \A g \in Groups : LoadRow(g) /\ Arrives(g)

\* What loads a group makes it busy; every point of evict_groups is before "unlink".
LEMMA LoadBusy ==
  ASSUME NEW g \in Groups, LoadOf(g)
  PROVE  Busy(g)
  BY DEF LoadOf, Busy

LEMMA EvictsHolds ==
  ASSUME NEW h \in Handlers, todo[h] \in EvictPts
  PROVE  Evicts
  <1>1. \A p \in EvictPts : \E i \in 1..Len(p) : p[i] = "unlink"
    <2>1. E1[5] = "unlink" /\ 5 \in 1..Len(E1) BY DEF E1, EvictGroups
    <2>2. E2[4] = "unlink" /\ 4 \in 1..Len(E2) BY DEF E2
    <2>3. E3[3] = "unlink" /\ 3 \in 1..Len(E3) BY DEF E3
    <2>4. E4[2] = "unlink" /\ 2 \in 1..Len(E4) BY DEF E4
    <2>5. E6[3] = "unlink" /\ 3 \in 1..Len(E6) BY DEF E6
    <2>6. E7[2] = "unlink" /\ 2 \in 1..Len(E7) BY DEF E7
    <2>7. E8[1] = "unlink" /\ 1 \in 1..Len(E8) BY DEF E8
    <2> QED BY <2>1, <2>2, <2>3, <2>4, <2>5, <2>6, <2>7 DEF EvictPts
  <1> QED BY <1>1 DEF Evicts

\* Steps that leave the worker's threads where they are.
LEMMA TasksStand ==
  ASSUME Forms, LoadInv, loads' = loads, omp' = omp,
         todo'[Main] = todo[Main], on'[Main] = on[Main],
         todo'[Omp] = todo[Omp], on'[Omp] = on[Omp],
         (\E h \in Handlers : todo'[h] \in EvictPts) =>
           (\E h \in Handlers : todo[h] \in EvictPts) \/ \A g \in Groups : ~LoadOf(g),
         \A g \in Groups : mem'[g] = mem[g] \/ (~LoadOf(g) /\ rows'[g] # 0),
         \A g \in Groups : rows'[g] = NoRow => rows[g] = NoRow \/ ~LoadOf(g),
         \A g \in Groups : rows'[g] = 0 =>
           rows[g] = 0 \/ \A l \in Layers : l \in mem[g] \/ Coming(g, l)
  PROVE  LoadInv'
  <1>1. ASSUME NEW g \in Groups
        PROVE  (LoadOf(g)' <=> LoadOf(g)) /\ \A l \in Layers : Coming(g, l)' <=> Coming(g, l)
    BY DEF LoadOf, Coming, PutOn
  <1>2. EvictAlone' BY <1>1 DEF LoadInv, EvictAlone
  <1>3. ASSUME NEW g \in Groups PROVE LoadRow(g)' /\ Arrives(g)'
    <2>1. LoadRow(g) /\ Arrives(g) BY DEF LoadInv
    <2>2. LoadRow(g)' BY <1>1, <2>1 DEF LoadRow
    <2>3. Arrives(g)' BY <1>1, <2>1 DEF Arrives
    <2> QED BY <2>2, <2>3
  <1>4. omp \in Seq(Tasks) BY DEF Forms, Types, DataTypes
  <1>5. RetrySafe'
    <2> SUFFICES ASSUME NEW i \in 1..Len(omp), ~omp[i].put PROVE Behind(i)'
      BY DEF RetrySafe
    <2>1. Behind(i) BY DEF LoadInv, RetrySafe
    <2>5. PICK e \in Tasks : e = omp[i] BY <1>4
    <2>2. PICK g \in Groups : g = omp[i].g BY <2>5 DEF Tasks
    <2>3. LoadOf(g) BY <2>2 DEF LoadOf
    <2>4. mem'[g] = mem[g] BY <2>3
    <2> QED BY <2>1, <2>2, <2>4 DEF Behind, PutNow
  <1>6. OmpSafe'
    <2>1. OmpSafe BY DEF LoadInv
    <2>2. todo[Omp] \in GetPts \cup {PutTask, <<>>} BY DEF Forms, OmpForm
    <2>3. {R1, R2, R3, N1, N2} \subseteq GetPts BY DEF GetPts
    <2>4. todo[Omp] \in GetPts => on[Omp].g \in Groups BY OmpHeads DEF Forms, OmpForm, GetPts, MissPts
    <2>5. todo[Omp] \in {R1, R2, R3, N1, N2} => mem'[on[Omp].g] = mem[on[Omp].g]
      <3>1. todo[Omp] \in GetPts => LoadOf(on[Omp].g) BY DEF LoadOf
      <3> QED BY <2>3, <2>4, <3>1
    <2> QED BY <2>1, <2>5 DEF OmpSafe, PutOn
  <1> QED BY <1>2, <1>3, <1>5, <1>6 DEF LoadInv

\* Steps of the worker's threads.
LEMMA HandlersStand ==
  ASSUME LoadInv, Handlers0, rows' = rows, RetrySafe', OmpSafe',
         \A g \in Groups : mem[g] \subseteq mem'[g],
         \A g \in Groups : LoadOf(g)' => LoadOf(g) \/ (rows[g] # NoRow /\ ~Evicts),
         \A g \in Groups : \A l \in Layers : Coming(g, l) => Coming(g, l)' \/ l \in mem'[g]
  PROVE  LoadInv'
  <1>1. EvictAlone'
    <2> SUFFICES ASSUME NEW h \in Handlers, todo'[h] \in EvictPts, NEW g \in Groups
                 PROVE  ~LoadOf(g)'
      BY DEF EvictAlone
    <2>1. todo[h] \in EvictPts BY DEF Handlers0
    <2>2. Evicts BY <2>1, EvictsHolds
    <2>3. ~LoadOf(g) BY <2>1 DEF LoadInv, EvictAlone
    <2> QED BY <2>2, <2>3
  <1>2. ASSUME NEW g \in Groups PROVE LoadRow(g)' /\ Arrives(g)'
    <2>1. LoadRow(g) /\ Arrives(g) BY DEF LoadInv
    <2>2. LoadRow(g)' BY <2>1 DEF LoadRow
    <2>3. Arrives(g)' BY <2>1 DEF Arrives
    <2> QED BY <2>2, <2>3
  <1> QED BY <1>1, <1>2 DEF LoadInv

\* A handler never enters evict_groups in the middle, and clears no group that is
\* loaded.
LEMMA HandlerLoad ==
  ASSUME Forms, Traffic, Data, LoadInv, NEW h \in Handlers, HandlerMove(h)
  PROVE  LoadInv'
  <1>1. /\ Types /\ h \in Threads /\ Main \in Threads /\ Omp \in Threads /\ h # Main /\ h # Omp
    BY StoreAssumption DEF Forms, Threads
  <1>2. ASSUME Others(h), loads' = loads, omp' = omp, rows' = rows,
               todo'[h] \in EvictPts => todo[h] \in EvictPts,
               \A g \in Groups : mem'[g] = mem[g] \/ (~LoadOf(g) /\ rows[g] # 0)
        PROVE  LoadInv'
    <2>1. /\ todo'[Main] = todo[Main] /\ on'[Main] = on[Main]
          /\ todo'[Omp] = todo[Omp] /\ on'[Omp] = on[Omp]
      BY <1>1, <1>2 DEF Others
    <2>2. ASSUME NEW k \in Handlers, todo'[k] \in EvictPts PROVE todo[k] \in EvictPts
      BY <1>2, <2>2 DEF Others, Threads
    <2> QED BY <1>2, <2>1, <2>2, TasksStand
  <1>3. ASSUME NEW p, NEW q, Moves(h, p, q), mem' = mem, rows' = rows, loads' = loads, omp' = omp,
               q \in EvictPts => p \in EvictPts
        PROVE  LoadInv'
    <2>1. Others(h) /\ todo[h] = p /\ todo'[h] = q BY <1>1, <1>3, MovesFacts
    <2> QED BY <1>2, <1>3, <2>1
  <1>4. \A p \in {<<>>, P1, P2, P3, P4, P5, P6, Py, D1, D2, S1, S2, C1, C2, C3} : p \notin EvictPts
    BY PointFacts
  <1>5. {E1, E2, E3, E4, E6, E7, E8} = EvictPts BY DEF EvictPts
  <1>6. UNCHANGED shared => mem' = mem /\ rows' = rows /\ loads' = loads /\ omp' = omp
    BY DEF shared, memVars, diskVars, tasks
  <1>7. CASE HPlain(h) BY <1>3, <1>4, <1>5, <1>6, <1>7 DEF HPlain
  <1>8. CASE HSync(h) \/ HSaved(h) \/ HForget(h)
    BY <1>3, <1>4, <1>5, <1>6, <1>8 DEF HSync, HSaved, HForget
  <1>9. CASE HQueue(h) \/ HMark(h) \/ HDropped(h)
    BY <1>3, <1>4, <1>5, <1>9 DEF HQueue, HMark, HDropped
  <1>10. CASE HClear(h)
    <2>1. /\ rows' = rows /\ loads' = loads /\ omp' = omp /\ mem' = [mem EXCEPT ![on[h].g] = {}]
          /\ Moves(h, E8, Py) \/ Moves(h, D1, D2)
      BY <1>10 DEF HClear
    <2>2. PICK p \in {E8, D1}, q \in {Py, D2} : Moves(h, p, q) BY <2>1
    <2>3. Others(h) /\ todo[h] = p /\ todo'[h] = q BY <1>1, <2>2, MovesFacts
    <2>4. PICK c : c = on[h].g OBVIOUS
    <2>5. E8 \in EvictPts /\ D1 \in DropPts BY DEF EvictPts, DropPts
    <2>6. c \in Groups BY <2>2, <2>3, <2>4, <2>5, OperatorFacts
    <2>7. ~LoadOf(c) /\ rows[c] # 0
      <3>1. CASE p = E8
        <4>1. Evicting(h, c) BY <2>6 DEF Data
        <4>2. EvictAlone BY DEF LoadInv
        <4> QED BY <2>3, <2>4, <2>5, <2>6, <3>1, <4>1, <4>2 DEF Evicting, EvictAlone
      <3>2. CASE p = D1
        <4>1. c \in dropping BY <2>3, <2>4, <2>5, <3>2 DEF Traffic, DropOnce
        <4>2. DropApart(c) BY <2>6 DEF Traffic
        <4> QED BY <2>6, <4>1, <4>2, LoadBusy DEF DropApart
      <3> QED BY <2>2, <3>1, <3>2
    <2>8. \A g \in Groups : g # c => mem'[g] = mem[g]
      BY <1>1, <2>1, <2>4 DEF Types, DataTypes
    <2>9. q \notin EvictPts BY <1>4, <2>2
    <2> QED BY <1>2, <2>1, <2>3, <2>7, <2>8, <2>9
  <1>11. CASE todo[h] = P2 /\ WriteFile(h)
    <2>1. P2 \in PersistPts \cup EvictPts BY DEF PersistPts
    <2>2. on[h].g \in Groups /\ on[h].l \in 1..(NumLayers + 1) BY <1>11, <2>1, OperatorFacts
    <2>3. on[h].l \in Nat \ {0}
      <3>1. NumLayers \in Nat BY StoreAssumption DEF NumLayers
      <3> QED BY <2>2, <3>1
    <2>4. UNCHANGED on \/ on' = [on EXCEPT ![h].l = @ + 1] BY <1>1, <1>11, <2>2, <2>3, WriteFacts
    <2>5. /\ mem' = mem /\ rows' = rows /\ loads' = loads /\ omp' = omp /\ todo' = todo
      BY <1>11 DEF WriteFile, memVars, tasks
    <2>6. on \in [Threads -> Works] BY <1>1 DEF Types, ThreadTypes
    <2>7. Others(h) BY <2>4, <2>5, <2>6 DEF Others
    <2> QED BY <1>2, <2>5, <2>7
  <1> QED BY <1>7, <1>8, <1>9, <1>10, <1>11 DEF HandlerMove

\* Calls of the handlers: groups are evicted by hand when no request is served.
LEMMA HandleLoad ==
  ASSUME OperatorWaits, Forms, LoadInv, NEW h \in Handlers,
         \/ ReadStatus(h) \/ ListCandidates(h)
         \/ \E c \in Groups : Handle(h, c)
  PROVE  LoadInv'
  <1>1. /\ Types /\ h \in Threads /\ Main \in Threads /\ Omp \in Threads /\ h # Main /\ h # Omp
    BY StoreAssumption DEF Forms, Threads
  <1>2. ASSUME NEW w \in Works, NEW q, Enter(h, w, q),
               q \in EvictPts => \A g \in Groups : ~LoadOf(g)
        PROVE  LoadInv'
    <2>1. Others(h) /\ todo'[h] = q /\ UNCHANGED <<shared, holder>> BY <1>1, <1>2, EnterFacts
    <2>2. mem' = mem /\ rows' = rows /\ loads' = loads /\ omp' = omp
      BY <2>1 DEF shared, memVars, diskVars, tasks
    <2>3. /\ todo'[Main] = todo[Main] /\ on'[Main] = on[Main]
          /\ todo'[Omp] = todo[Omp] /\ on'[Omp] = on[Omp]
      BY <1>1, <2>1 DEF Others
    <2>4. ASSUME NEW k \in Handlers, todo'[k] \in EvictPts
          PROVE  todo[k] \in EvictPts \/ \A g \in Groups : ~LoadOf(g)
      BY <1>2, <2>1, <2>4 DEF Others, Threads
    <2> QED BY <2>2, <2>3, <2>4, TasksStand
  <1>3. S1 \notin EvictPts /\ C1 \notin EvictPts /\ P1 \notin EvictPts /\ D1 \notin EvictPts
    BY PointFacts
  <1>4. NoWork \in Works BY DEF NoWork, Works
  <1>5. CASE ReadStatus(h) \/ ListCandidates(h)
    BY <1>2, <1>3, <1>4, <1>5 DEF ReadStatus, ListCandidates, S1, C1
  <1>6. ASSUME NEW c \in Groups, Handle(h, c) PROVE LoadInv'
    <2>1. Work(c, 0) \in Works /\ Work(c, 1) \in Works BY DEF Work, Works
    <2>2. ASSUME NoRequest PROVE \A g \in Groups : ~LoadOf(g)
      <3>1. Unzip # <<>> /\ <<>> \notin GetPts BY MainHeads, OmpHeads DEF GetPts, MissPts
      <3> QED BY <2>2, <3>1 DEF NoRequest, LoadOf
    <2> QED BY <1>2, <1>3, <1>6, <2>1, <2>2 DEF Handle, OperatorWaits, P1, D1
  <1> QED BY <1>5, <1>6

\* A transaction is committed: a row is removed only by evict_groups.
LEMMA CommitLoad ==
  ASSUME Forms, Traffic, Data, LoadInv, Commit
  PROVE  LoadInv'
  <1>1. Types BY DEF Forms
  <1>2. PICK e \in Transactions : e = Head(queue) BY <1>1, CommitFacts
  <1>3. PICK c \in Groups : c = e.g BY DEF Transactions
  <1>4. PICK o \in Ops : o = e.op BY DEF Transactions
  <1>5. /\ queue # <<>> /\ queue' = Tail(queue)
        /\ \A g \in Groups : g # c => rows'[g] = rows[g]
        /\ o = "submit" => rows'[c] = 0
        /\ o = "mark_row" => rows'[c] = IF rows[c] = NoRow THEN NoRow ELSE 1
        /\ o = "remove_row" => rows'[c] = NoRow
        /\ mem' = mem /\ todo' = todo /\ on' = on /\ omp' = omp /\ loads' = loads
    BY <1>1, <1>2, <1>3, <1>4, CommitFacts
  <1>6. Queued(o, c) BY <1>1, <1>2, <1>3, <1>4, <1>5, QueuedShrinks
  <1>7. Ops = {"submit", "mark_row", "remove_row"} /\ NoRow # 0 /\ NoRow # 1 BY DEF Ops, NoRow
  <1>8. Marking(c) /\ Removing(c) /\ Kept(c) /\ FlushFirst(c) BY DEF Data, Traffic
  <1>9. o = "remove_row" => ~LoadOf(c)
    <2> SUFFICES ASSUME o = "remove_row" PROVE ~LoadOf(c)
      OBVIOUS
    <2>1. PICK h \in Handlers : todo[h] = E7 BY <1>6, <1>8 DEF Removing
    <2>2. E7 \in EvictPts BY DEF EvictPts
    <2> QED BY <2>1, <2>2 DEF LoadInv, EvictAlone
  <1>10. o = "submit" => \A l \in Layers : l \in mem[c] \/ Coming(c, l)
    <2> SUFFICES ASSUME o = "submit" PROVE \A l \in Layers : l \in mem[c] \/ Coming(c, l)
      OBVIOUS
    <2>1. SubmitPending(c) BY <1>6 DEF SubmitPending
    <2>2. Covered(c) BY <1>8, <2>1 DEF Kept
    <2>3. ~ToSubmit(c) BY <1>6, <1>8, BusyFacts DEF FlushFirst, Flushing
    <2> QED BY <2>2, <2>3 DEF Covered, Pend
  <1>11. \A g \in Groups : rows'[g] = NoRow => rows[g] = NoRow \/ ~LoadOf(g)
    BY <1>5, <1>7, <1>9
  <1>12. \A g \in Groups : rows'[g] = 0 =>
           rows[g] = 0 \/ \A l \in Layers : l \in mem[g] \/ Coming(g, l)
    BY <1>5, <1>7, <1>10
  <1> QED BY <1>5, <1>11, <1>12, TasksStand

\* The scheduler selects no group that is loaded.
LEMMA EvictsLoad ==
  ASSUME Forms, LoadInv, NEW c \in Groups, SchedulerEvicts(c)
  PROVE  LoadInv'
  <1>1. Types BY DEF Forms
  <1>2. /\ rows[c] # NoRow /\ ~Busy(c)
        /\ rows'[c] = (IF rows[c] = 1 THEN 1 ELSE NoRow)
        /\ \A x \in Groups : x # c => rows'[x] = rows[x]
        /\ mem' = mem /\ todo' = todo /\ on' = on /\ loads' = loads /\ omp' = omp
    BY <1>1, EvictsFacts
  <1>3. ~LoadOf(c) BY <1>2, LoadBusy
  <1>4. rows'[c] # 0 BY <1>2 DEF NoRow
  <1>5. \A g \in Groups : rows'[g] = NoRow => rows[g] = NoRow \/ ~LoadOf(g) BY <1>2, <1>3
  <1>6. \A g \in Groups : rows'[g] = 0 => rows[g] = 0 BY <1>2, <1>4
  <1> QED BY <1>2, <1>5, <1>6, TasksStand

\* The loads that are tried again, when the queue of OMP-Main stays, grows, shrinks.
LEMMA RetryStays ==
  ASSUME Types, RetrySafe, omp' = omp, \A g \in Groups : mem[g] \subseteq mem'[g],
         \A g \in Groups : \A l \in Layers : PutNow(g, l) => PutNow(g, l)' \/ l \in mem'[g]
  PROVE  RetrySafe'
  <1> SUFFICES ASSUME NEW i \in 1..Len(omp), ~omp[i].put PROVE Behind(i)'
    BY DEF RetrySafe
  <1>1. Behind(i) BY DEF RetrySafe
  <1>2. omp \in Seq(Tasks) BY DEF Types, DataTypes
  <1>3. PICK e \in Tasks : e = omp[i] BY <1>2
  <1>4. PICK g \in Groups, l \in Layers : g = e.g /\ l = e.l BY DEF Tasks
  <1>5. CASE l \in mem[g] \/ PutNow(g, l) BY <1>3, <1>4, <1>5 DEF Behind
  <1>6. CASE \E j \in 1..(i - 1) : omp[j].put /\ omp[j].g = omp[i].g /\ omp[j].l = omp[i].l
    BY <1>6 DEF Behind
  <1> QED BY <1>1, <1>3, <1>4, <1>5, <1>6 DEF Behind

LEMMA RetryGrows ==
  ASSUME Types, RetrySafe, NEW e \in Tasks, omp' = Append(omp, e), mem' = mem,
         \A g \in Groups : \A l \in Layers : PutNow(g, l) => PutNow(g, l)',
         ~e.put => e.l \in mem[e.g] \/ PutOn(e.g, e.l)
  PROVE  RetrySafe'
  <1>1. omp \in Seq(Tasks) /\ Len(omp) \in Nat BY DEF Types, DataTypes
  <1>2. /\ Len(omp') = Len(omp) + 1 /\ omp'[Len(omp) + 1] = e
        /\ \A i \in 1..Len(omp) : omp'[i] = omp[i]
        /\ \A i \in 1..(Len(omp) + 1) : i \in 1..Len(omp) \/ i = Len(omp) + 1
    BY <1>1, SeqGrows
  <1> SUFFICES ASSUME NEW i \in 1..(Len(omp) + 1), ~omp'[i].put PROVE Behind(i)'
    BY <1>2 DEF RetrySafe
  <1>3. CASE i \in 1..Len(omp)
    <2>1. omp'[i] = omp[i] /\ \A j \in 1..(i - 1) : omp'[j] = omp[j] BY <1>1, <1>2, <1>3
    <2>2. Behind(i) BY <1>3, <2>1 DEF RetrySafe
    <2>3. PICK d \in Tasks : d = omp[i] BY <1>1, <1>3
    <2>4. PICK g \in Groups, l \in Layers : g = d.g /\ l = d.l BY DEF Tasks
    <2>5. CASE l \in mem[g] \/ PutNow(g, l) BY <2>1, <2>3, <2>4, <2>5 DEF Behind
    <2>6. CASE \E j \in 1..(i - 1) : omp[j].put /\ omp[j].g = omp[i].g /\ omp[j].l = omp[i].l
      BY <2>1, <2>6 DEF Behind
    <2> QED BY <2>2, <2>3, <2>4, <2>5, <2>6 DEF Behind
  <1>4. CASE i = Len(omp) + 1
    <2>1. omp'[i] = e /\ ~e.put BY <1>2, <1>4
    <2>2. CASE e.l \in mem[e.g] BY <2>1, <2>2 DEF Behind
    <2>3. CASE PutOn(e.g, e.l)
      <3>1. PICK j \in 1..Len(omp) : omp[j].put /\ omp[j].g = e.g /\ omp[j].l = e.l
        BY <2>3 DEF PutOn
      <3>2. j \in 1..(i - 1) /\ omp'[j] = omp[j] BY <1>1, <1>2, <1>4
      <3> QED BY <2>1, <3>1, <3>2 DEF Behind
    <2> QED BY <2>1, <2>2, <2>3
  <1> QED BY <1>2, <1>3, <1>4

LEMMA RetryShrinks ==
  ASSUME Types, RetrySafe, omp # <<>>, NEW e \in Tasks, e = Head(omp), omp' = Tail(omp),
         mem' = mem, todo[Omp] # PutTask, e.put => PutNow(e.g, e.l)'
  PROVE  RetrySafe' /\ (~e.put => e.l \in mem[e.g])
  <1>1. omp \in Seq(Tasks) /\ Len(omp) \in Nat /\ Len(omp) >= 1 BY DEF Types, DataTypes
  <1>2. /\ Len(omp') = Len(omp) - 1 /\ omp[1] = e
        /\ \A i \in 1..Len(omp') : omp'[i] = omp[i + 1] /\ i + 1 \in 1..Len(omp)
    BY <1>1
  <1>3. ASSUME NEW i \in 1..Len(omp'), ~omp'[i].put PROVE Behind(i)'
    <2>1. omp'[i] = omp[i + 1] /\ i + 1 \in 1..Len(omp) /\ i \in Nat BY <1>1, <1>2
    <2>2. Behind(i + 1) BY <1>3, <2>1 DEF RetrySafe
    <2>3. CASE omp[i + 1].l \in mem[omp[i + 1].g] BY <2>1, <2>3 DEF Behind
    <2>4. CASE \E j \in 1..((i + 1) - 1) :
                 omp[j].put /\ omp[j].g = omp[i + 1].g /\ omp[j].l = omp[i + 1].l
      <3>1. PICK j \in 1..((i + 1) - 1) :
              omp[j].put /\ omp[j].g = omp'[i].g /\ omp[j].l = omp'[i].l
        BY <2>1, <2>4
      <3>2. CASE j = 1
        <4>1. PutNow(e.g, e.l)' /\ e.g = omp'[i].g /\ e.l = omp'[i].l BY <1>2, <3>1, <3>2
        <4> QED BY <4>1 DEF Behind, PutNow
      <3>3. CASE j # 1
        <4>1. PICK k \in 1..(i - 1) : k + 1 = j
          <5>1. j - 1 \in 1..(i - 1) /\ (j - 1) + 1 = j BY <2>1, <3>3
          <5> QED BY <5>1
        <4>2. k \in 1..Len(omp') BY <1>1, <1>2, <2>1
        <4>3. omp'[k] = omp[j] BY <1>2, <4>1, <4>2
        <4>4. omp'[k].put /\ omp'[k].g = omp'[i].g /\ omp'[k].l = omp'[i].l BY <3>1, <4>3
        <4> QED BY <4>4 DEF Behind
      <3> QED BY <3>2, <3>3
    <2> QED BY <2>2, <2>3, <2>4 DEF Behind, PutNow
  <1>4. ASSUME ~e.put PROVE e.l \in mem[e.g]
    <2>1. 1 \in 1..Len(omp) /\ ~omp[1].put BY <1>1, <1>2, <1>4
    <2>2. Behind(1) BY <2>1 DEF RetrySafe
    <2>3. 1..(1 - 1) = {} OBVIOUS
    <2> QED BY <1>2, <2>2, <2>3 DEF Behind, PutNow
  <1> QED BY <1>3, <1>4 DEF RetrySafe

\* Loads on the lowest level of OMP-Main.
LoadOn(g) == \E i \in 1..Len(omp) : ~omp[i].put /\ omp[i].g = g

LEMMA LoadOnGrows ==
  ASSUME Types, NEW e \in Tasks, omp' = Append(omp, e)
  PROVE  \A x \in Groups : LoadOn(x)' => LoadOn(x) \/ (~e.put /\ x = e.g)
  <1> TAKE x \in Groups
  <1>1. omp \in Seq(Tasks) BY DEF Types, DataTypes
  <1>2. /\ Len(omp') = Len(omp) + 1 /\ omp'[Len(omp) + 1] = e
        /\ \A i \in 1..Len(omp) : omp'[i] = omp[i]
        /\ \A i \in 1..(Len(omp) + 1) : i \in 1..Len(omp) \/ i = Len(omp) + 1
    BY <1>1, SeqGrows
  <1> SUFFICES ASSUME LoadOn(x)' PROVE LoadOn(x) \/ (~e.put /\ x = e.g)
    OBVIOUS
  <1>3. PICK i \in 1..(Len(omp) + 1) : ~omp'[i].put /\ omp'[i].g = x BY <1>2 DEF LoadOn
  <1> QED BY <1>2, <1>3 DEF LoadOn

LEMMA LoadOnShrinks ==
  ASSUME Types, omp # <<>>, omp' = Tail(omp), NEW e \in Tasks, e = Head(omp)
  PROVE  /\ \A x \in Groups : LoadOn(x)' => LoadOn(x)
         /\ ~e.put => LoadOn(e.g)
  <1>1. omp \in Seq(Tasks) BY DEF Types, DataTypes
  <1>2. /\ \A j \in 1..Len(omp') : \E i \in 1..Len(omp) : omp[i] = omp'[j]
        /\ 1 \in 1..Len(omp) /\ omp[1] = e
    BY <1>1, SeqShrinks
  <1>3. ASSUME NEW x \in Groups, LoadOn(x)' PROVE LoadOn(x)
    <2>1. PICK j \in 1..Len(omp') : ~omp'[j].put /\ omp'[j].g = x BY <1>3 DEF LoadOn
    <2>2. PICK i \in 1..Len(omp) : omp[i] = omp'[j] BY <1>2
    <2>3. ~omp[i].put /\ omp[i].g = x BY <2>1, <2>2
    <2> QED BY <2>3 DEF LoadOn
  <1>4. ~e.put => LoadOn(e.g) BY <1>2 DEF LoadOn
  <1> QED BY <1>3, <1>4

\* The worker's own thread starts a call, or goes on in one.
LEMMA MainLoad ==
  ASSUME Forms, LoadInv,
         \/ Step(Main) \/ StopCall \/ ReadStatus(Main) \/ UNCHANGED vars
         \/ \E g \in Groups : Save(g) \/ \E l \in Layers : OperatorWaits /\ Load(g, l)
  PROVE  LoadInv'
  <1>1. /\ Types /\ MainForm /\ Main \in Threads /\ Omp \in Threads /\ Main # Omp
        /\ Handlers \subseteq Threads /\ Main \notin Handlers /\ NumLayers \in Nat
    BY StoreAssumption DEF Forms, Threads, NumLayers
  <1>2. RetrySafe /\ OmpSafe BY DEF LoadInv
  <1>3. ASSUME Others(Main), mem' = mem, rows' = rows,
               RetrySafe', \A g \in Groups : \A l \in Layers : PutOn(g, l) => PutOn(g, l)',
               \A g \in Groups : LoadOf(g)' => LoadOf(g) \/ (rows[g] # NoRow /\ ~Evicts)
        PROVE  LoadInv'
    <2>1. Handlers0 /\ todo'[Omp] = todo[Omp] /\ on'[Omp] = on[Omp]
      BY <1>1, <1>3 DEF Others, Handlers0
    <2>2. \A g \in Groups : \A l \in Layers : Coming(g, l) => Coming(g, l)' \/ l \in mem'[g]
      BY <1>3, <2>1 DEF Coming
    <2>3. OmpSafe'
      <3>1. todo[Omp] \in {N1, N2} => on[Omp].g \in Groups /\ on[Omp].l \in Layers
        BY OmpHeads DEF Forms, OmpForm
      <3> QED BY <1>2, <1>3, <2>1, <3>1 DEF OmpSafe
    <2> QED BY <1>3, <2>1, <2>2, <2>3, HandlersStand
  <1>4. ASSUME Others(Main), mem' = mem, rows' = rows, omp' = omp,
               \A g \in Groups :
                 (\E w \in loads' : w.g = g) => (\E w \in loads : w.g = g) \/ LoadOf(g),
               \A g \in Groups : todo'[Main] = Unzip /\ on'[Main].g = g =>
                 LoadOf(g) \/ (rows[g] # NoRow /\ ~Evicts)
        PROVE  LoadInv'
    <2>1. todo'[Omp] = todo[Omp] /\ on'[Omp] = on[Omp] BY <1>1, <1>4 DEF Others
    <2>2. RetrySafe' BY <1>1, <1>2, <1>4, <2>1, RetryStays DEF PutNow
    <2>3. \A g \in Groups : \A l \in Layers : PutOn(g, l) => PutOn(g, l)' BY <1>4 DEF PutOn
    <2>4. \A g \in Groups : LoadOf(g)' => LoadOf(g) \/ (rows[g] # NoRow /\ ~Evicts)
      BY <1>4, <2>1 DEF LoadOf
    <2> QED BY <1>3, <1>4, <2>2, <2>3, <2>4
  <1>5. \A l \in 1..(NumLayers + 1) : PutRest(l) # Unzip BY MainHeads
  <1>6. \A l \in 2..(NumLayers + 1) : PyRest(l) # Unzip BY MainHeads
  <1>7. \A p \in {<<>>, X1, X2, X3, S1, S2, F1, F2, F3, Py} : p # Unzip BY MainHeads
  <1>8. ASSUME Step(Main) PROVE LoadInv'
    <2>1. /\ on[Main].g \in Groups \/ todo[Main] \in IdlePts
          /\ MPlain \/ MPut \/ MGet \/ MSubmit
      BY <1>1, <1>8, MainSteps
    <2>2. ASSUME NEW p, NEW q, Moves(Main, p, q), q # Unzip,
                 mem' = mem, rows' = rows, loads' = loads, omp' = omp
          PROVE  LoadInv'
      <3>1. Others(Main) /\ todo'[Main] = q BY <1>1, <2>2, MovesFacts
      <3> QED BY <1>4, <2>2, <3>1
    <2>3. CASE MPlain
      <3>1. mem' = mem /\ rows' = rows /\ loads' = loads /\ omp' = omp
        BY <2>3 DEF MPlain, shared, memVars, diskVars, tasks
      <3>2. CASE /\ on[Main].l \in 2..(NumLayers + 1)
                 /\ Moves(Main, PyRest(on[Main].l), PutRest(on[Main].l))
        <4>1. PICK l \in 1..(NumLayers + 1) : l = on[Main].l BY <1>1, <3>2
        <4>2. Moves(Main, PyRest(l), PutRest(l)) /\ PutRest(l) # Unzip BY <1>5, <3>2, <4>1
        <4> QED BY <2>2, <3>1, <4>2
      <3> QED BY <1>7, <2>2, <2>3, <3>1, <3>2 DEF MPlain
    <2>4. CASE MSubmit
      <3>1. /\ mem' = mem /\ rows' = rows /\ loads' = loads /\ omp' = omp
            /\ Moves(Main, PutRest(NumLayers + 1), F1)
        BY <2>4 DEF MSubmit
      <3> QED BY <1>7, <2>2, <3>1
    <2>5. CASE MGet
      <3>1. MTask /\ todo[Main] = Unzip /\ todo' = [todo EXCEPT ![Main] = Py]
        BY <2>5 DEF MGet
      <3>2. Others(Main) /\ todo'[Main] = Py BY <1>1, <3>1, TaskFacts
      <3>3. loads' = loads \cup {Work(on[Main].g, on[Main].l)} /\ omp' = omp
        BY <2>5 DEF MGet, GetQueued
      <3>4. mem' = mem /\ rows' = rows BY <3>1 DEF MTask
      <3>5. \A g \in Groups : (\E w \in loads' : w.g = g) => (\E w \in loads : w.g = g) \/ LoadOf(g)
        BY <3>1, <3>3 DEF Work, LoadOf
      <3> QED BY <1>4, <1>7, <3>2, <3>3, <3>4, <3>5
    <2>6. CASE MPut
      <3>1. MTask /\ todo[Main] = PutRest(on[Main].l) /\ on[Main].l \in Layers
            /\ todo' = [todo EXCEPT ![Main] = PyRest(on[Main].l + 1)]
        BY <2>6 DEF MPut, MTask
      <3>2. PICK l \in Layers : l = on[Main].l BY <3>1
      <3>3. PICK q : q = PyRest(l + 1) OBVIOUS
      <3>4. l \in 1..(NumLayers + 1) /\ l + 1 \in 2..(NumLayers + 1) BY <1>1 DEF Layers
      <3>5. todo[Main] = PutRest(l) /\ todo' = [todo EXCEPT ![Main] = q] BY <3>1, <3>2, <3>3
      <3>6. Others(Main) /\ todo'[Main] = q BY <1>1, <3>1, <3>5, TaskFacts
      <3>7. todo[Main] \notin IdlePts BY <3>4, <3>5, MainHeads DEF IdlePts
      <3>8. PICK c \in Groups : c = on[Main].g BY <2>1, <3>7
      <3>9. PICK e : e = [put |-> TRUE, g |-> c, l |-> l] OBVIOUS
      <3>10. omp' = Append(omp, e) /\ loads' = loads BY <2>6, <3>2, <3>8, <3>9 DEF MPut, PutQueued
      <3>11. e \in Tasks /\ e.put = TRUE BY <3>9 DEF Tasks
      <3>12. mem' = mem /\ rows' = rows BY <3>1 DEF MTask
      <3>13. todo'[Omp] = todo[Omp] /\ on'[Omp] = on[Omp] BY <1>1, <3>6 DEF Others
      <3>14. RetrySafe' BY <1>1, <1>2, <3>10, <3>11, <3>12, <3>13, RetryGrows DEF PutNow
      <3>15. \A g \in Groups : \A k \in Layers : PutOn(g, k) => PutOn(g, k)'
        <4>1. TRUE \in BOOLEAN OBVIOUS
        <4>2. omp' = Append(omp, [put |-> TRUE, g |-> c, l |-> l]) BY <3>9, <3>10
        <4> QED BY <1>1, <4>1, <4>2, OmpGrows
      <3>16. \A x \in Groups : LoadOn(x)' => LoadOn(x) \/ (~e.put /\ x = e.g)
        BY <1>1, <3>10, <3>11, LoadOnGrows
      <3>17. q # Unzip BY <1>6, <3>3, <3>4
      <3>18. ASSUME NEW g \in Groups, LoadOf(g)' PROVE LoadOf(g)
        <4>1. LoadOn(g)' => LoadOn(g) BY <3>11, <3>16
        <4> QED BY <3>6, <3>10, <3>13, <3>17, <3>18, <4>1 DEF LoadOf, LoadOn
      <3> QED BY <1>3, <3>6, <3>12, <3>14, <3>15, <3>18
    <2> QED BY <2>1, <2>3, <2>4, <2>5, <2>6
  <1>9. ASSUME NEW w \in Works, NEW q, Enter(Main, w, q),
               q = Unzip => w.g \in Groups /\ rows[w.g] # NoRow /\ ~Evicts
        PROVE  LoadInv'
    <2>1. Others(Main) /\ todo'[Main] = q /\ on'[Main] = w /\ UNCHANGED <<shared, holder>>
      BY <1>1, <1>9, EnterFacts
    <2>2. mem' = mem /\ rows' = rows /\ loads' = loads /\ omp' = omp
      BY <2>1 DEF shared, memVars, diskVars, tasks
    <2> QED BY <1>4, <1>9, <2>1, <2>2
  <1>10. NoWork \in Works BY DEF NoWork, Works
  <1>11. CASE StopCall \/ ReadStatus(Main)
    BY <1>7, <1>9, <1>10, <1>11 DEF StopCall, ReadStatus, X1, S1
  <1>12. ASSUME NEW g \in Groups, Save(g) PROVE LoadInv'
    <2>1. Enter(Main, Work(g, 1), PutRest(1)) BY <1>12, SaveSteps DEF Save
    <2>2. 1 \in 1..(NumLayers + 1) BY <1>1
    <2>3. Work(g, 1) \in Works BY DEF Work, Works
    <2> QED BY <1>5, <1>9, <2>1, <2>2, <2>3
  <1>13. ASSUME NEW g \in Groups, NEW l \in Layers, OperatorWaits, Load(g, l) PROVE LoadInv'
    <2>1. Work(g, l) \in Works /\ Work(g, l).g = g BY <1>1 DEF Work, Works, Layers
    <2>2. Enter(Main, Work(g, l), Unzip) /\ rows[g] # NoRow /\ ~Evicts
      BY <1>13 DEF Load, Has, OperatorWaits
    <2> QED BY <1>9, <2>1, <2>2
  <1>14. CASE UNCHANGED vars
    <2>1. /\ mem' = mem /\ rows' = rows /\ loads' = loads /\ omp' = omp
          /\ todo' = todo /\ on' = on
      BY <1>14 DEF vars, memVars, diskVars, tasks
    <2> QED BY <2>1, TasksStand
  <1> QED BY <1>8, <1>11, <1>12, <1>13, <1>14

\* The points of a second try are its own.
LEMMA TryApart ==
  /\ \A p \in {<<>>, PutTask, G1, G2, G3, G4, L1, L2} :
       p \notin {R1, R2, R3} /\ p \notin {N1, N2} /\ p \notin {M1, M2}
  /\ \A p \in {R1, R2, R3} : p \notin {N1, N2} /\ p \notin {M1, M2}
  /\ \A p \in {N1, N2} : p \notin {R1, R2, R3} /\ p \notin {M1, M2}
  <1>1. /\ Tail(R1) = R2 /\ Tail(R2) = R3 /\ Tail(G1) = G2 /\ Tail(G2) = G3
        /\ Tail(L1) = L2 /\ Tail(M1) = M2 /\ Tail(N1) = N2 /\ Tail(G4) = <<>>
    BY TaskSteps DEF Goes
  <1>2. R3 # G3 /\ L2 # M2 /\ N2 # <<>> BY OmpHeads
  <1>3. R2 # G2 /\ L1 # M1 /\ N1 # G4 BY <1>1, <1>2
  <1>4. R1 # G1 BY <1>1, <1>3
  <1> QED BY <1>2, <1>3, <1>4, OmpHeads

\* OMP-Main goes on in a task.
LEMMA OmpLoad ==
  ASSUME Forms, LoadInv, Step(Omp)
  PROVE  LoadInv'
  <1>1. /\ Types /\ OmpForm /\ Main \in Threads /\ Omp \in Threads /\ Main # Omp
        /\ Handlers \subseteq Threads /\ Omp \notin Handlers
    BY StoreAssumption DEF Forms, Threads
  <1>2. Others(Omp) => Handlers0 /\ todo'[Main] = todo[Main] /\ on'[Main] = on[Main]
    BY <1>1 DEF Others, Handlers0
  <1>3. PICK c \in Groups : c = on[Omp].g BY <1>1, OmpSteps
  <1>4. PICK n \in Layers : n = on[Omp].l BY <1>1, OmpSteps
  <1>5. OPlain \/ OMiss \/ OPut \/ OLoad \/ ONot \/ ORetry BY <1>1, OmpSteps
  <1>6. RetrySafe /\ OmpSafe /\ LoadRow(c) /\ Arrives(c) BY DEF LoadInv
  <1>7. ASSUME NEW p, NEW q, Moves(Omp, p, q)
        PROVE  /\ Others(Omp) /\ todo[Omp] = p /\ todo'[Omp] = q
               /\ on'[Omp] = IF q = <<>> THEN NoWork ELSE on[Omp]
    BY <1>1, <1>7, MovesFacts
  <1>8. /\ {G1, G2, G3, G4, L1, L2, N1, N2, R1, R2, R3, M1, M2} = GetPts /\ <<>> \notin GetPts
        /\ PutTask \notin GetPts
    BY OmpHeads DEF GetPts, MissPts
  \* A task that loads goes on: the queue stays, Mem does not shrink.
  <1>9. ASSUME NEW p \in GetPts, NEW q \in GetPts \cup {<<>>}, Moves(Omp, p, q),
               rows' = rows, loads' = loads, omp' = omp,
               \A g \in Groups : mem[g] \subseteq mem'[g], OmpSafe'
        PROVE  LoadInv'
    <2>1. /\ Others(Omp) /\ todo[Omp] = p /\ todo'[Omp] = q
          /\ on'[Omp] = IF q = <<>> THEN NoWork ELSE on[Omp]
      BY <1>7, <1>9
    <2>2. \A g \in Groups : \A l \in Layers : ~PutNow(g, l) BY <1>8, <2>1 DEF PutNow
    <2>3. RetrySafe' BY <1>1, <1>6, <1>9, <2>2, RetryStays
    <2>4. \A g \in Groups : LoadOf(g)' => LoadOf(g)
      <3>1. q \in GetPts => on'[Omp] = on[Omp] BY <1>8, <2>1
      <3> QED BY <1>2, <1>9, <2>1, <3>1 DEF LoadOf
    <2>5. \A g \in Groups : \A l \in Layers : Coming(g, l) => Coming(g, l)'
      BY <1>9, <2>2 DEF Coming, PutNow, PutOn
    <2> QED BY <1>2, <1>9, <2>1, <2>3, <2>4, <2>5, HandlersStand
  <1>10. UNCHANGED shared => mem' = mem /\ rows' = rows /\ loads' = loads /\ omp' = omp
    BY DEF shared, memVars, diskVars, tasks
  <1>11. ASSUME UNCHANGED shared, NEW p \in GetPts, NEW q \in {<<>>, G1, G2, G3, G4, L1, L2},
                Moves(Omp, p, q)
         PROVE  LoadInv'
    <2>1. todo'[Omp] = q BY <1>7, <1>11
    <2>2. OmpSafe' BY <1>11, <2>1, TryApart DEF OmpSafe
    <2>3. q \in GetPts \cup {<<>>} BY <1>8
    <2> QED BY <1>9, <1>10, <1>11, <2>2, <2>3
  <1>12. CASE OPlain
    <2>1. UNCHANGED shared BY <1>12 DEF OPlain
    <2>2. mem' = mem /\ rows' = rows /\ loads' = loads /\ omp' = omp BY <1>10, <2>1
    <2>3. ASSUME NEW p \in {R1, R2}, NEW q \in {R2, R3}, Moves(Omp, p, q) PROVE LoadInv'
      <3>1. todo[Omp] = p /\ todo'[Omp] = q /\ on'[Omp] = on[Omp] BY <1>7, <2>3, OmpHeads
      <3>2. on[Omp].l \in mem[on[Omp].g] BY <1>6, <3>1 DEF OmpSafe
      <3>3. q \in {R1, R2, R3} OBVIOUS
      <3>4. OmpSafe' BY <2>2, <3>1, <3>2, <3>3, TryApart DEF OmpSafe
      <3> QED BY <1>8, <1>9, <2>2, <2>3, <3>4
    <2>4. CASE Moves(Omp, N1, N2)
      <3>1. todo[Omp] = N1 /\ todo'[Omp] = N2 /\ on'[Omp] = on[Omp] BY <1>7, <2>4, OmpHeads
      <3>2. on[Omp].l \in mem[on[Omp].g] \/ PutOn(on[Omp].g, on[Omp].l)
        BY <1>6, <3>1 DEF OmpSafe
      <3>3. OmpSafe' BY <2>2, <3>1, <3>2, TryApart DEF OmpSafe, PutOn
      <3> QED BY <1>8, <1>9, <2>2, <2>4, <3>3
    <2>5. ~Moves(Omp, M1, M2) BY <1>6 DEF OmpSafe, Moves
    <2> QED BY <1>8, <1>11, <1>12, <2>1, <2>3, <2>4, <2>5 DEF OPlain
  <1>13. CASE OMiss
    <2>1. ~Moves(Omp, R3, M1) BY <1>6, <1>13 DEF OMiss, OmpSafe, Moves
    <2> QED BY <1>8, <1>11, <1>13, <2>1 DEF OMiss
  <1>14. CASE ONot
    <2>1. Moves(Omp, L2, N1) /\ rows[c] # 1 /\ UNCHANGED shared BY <1>3, <1>14, NotFacts DEF ONot
    <2>2. mem' = mem /\ rows' = rows /\ loads' = loads /\ omp' = omp BY <1>10, <2>1
    <2>3. todo[Omp] = L2 /\ todo'[Omp] = N1 /\ on'[Omp] = on[Omp] BY <1>7, <2>1, OmpHeads
    <2>4. LoadOf(c) BY <1>3, <1>8, <2>3 DEF LoadOf
    <2>5. rows[c] = 0
      <3>1. rows[c] \in {0, 1, NoRow} BY <1>1 DEF Types, DataTypes
      <3> QED BY <1>6, <2>1, <2>4, <3>1 DEF LoadRow
    <2>6. L2 # PutTask BY OmpHeads
    <2>7. n \in mem[c] \/ PutOn(c, n) BY <1>6, <2>3, <2>5, <2>6 DEF Arrives, Coming
    <2>8. OmpSafe' BY <1>3, <1>4, <2>2, <2>3, <2>7, TryApart DEF OmpSafe, PutOn
    <2> QED BY <1>8, <1>9, <2>1, <2>2, <2>8
  <1>15. CASE OLoad
    <2>1. PICK p \in {L2, M2} : ReadFile(Omp) /\ Moves(Omp, p, G4) BY <1>15 DEF OLoad
    <2>2. /\ mem' = [mem EXCEPT ![c] = @ \cup {n}] /\ rows' = rows /\ loads' = loads /\ omp' = omp
      BY <1>1, <1>3, <1>4, <2>1, LoadFacts
    <2>3. \A g \in Groups : mem[g] \subseteq mem'[g] BY <1>1, <2>2 DEF Types, DataTypes
    <2>4. todo'[Omp] = G4 BY <1>7, <2>1
    <2>5. OmpSafe' BY <2>4, TryApart DEF OmpSafe
    <2> QED BY <1>8, <1>9, <2>1, <2>2, <2>3, <2>5
  <1>16. CASE OPut
    <2>1. /\ mem' = [mem EXCEPT ![c] = @ \cup {n}] /\ Moves(Omp, PutTask, <<>>)
          /\ rows' = rows /\ loads' = loads /\ omp' = omp
      BY <1>3, <1>4, <1>16 DEF OPut
    <2>2. Others(Omp) /\ todo[Omp] = PutTask /\ todo'[Omp] = <<>> BY <1>7, <2>1
    <2>3. (\A g \in Groups : mem[g] \subseteq mem'[g]) /\ n \in mem'[c]
      BY <1>1, <2>1 DEF Types, DataTypes
    <2>4. \A g \in Groups : \A l \in Layers : PutNow(g, l) => l \in mem'[g]
      BY <1>3, <1>4, <2>3 DEF PutNow, Work
    <2>5. RetrySafe' BY <1>1, <1>6, <2>1, <2>3, <2>4, RetryStays
    <2>6. \A g \in Groups : LoadOf(g)' => LoadOf(g) BY <1>2, <1>8, <2>1, <2>2 DEF LoadOf
    <2>7. \A g \in Groups : \A l \in Layers : Coming(g, l) => Coming(g, l)' \/ l \in mem'[g]
      BY <2>1, <2>4 DEF Coming, PutNow, PutOn
    <2>8. OmpSafe' BY <2>2, TryApart DEF OmpSafe
    <2> QED BY <1>2, <2>1, <2>2, <2>3, <2>5, <2>6, <2>7, <2>8, HandlersStand
  <1>17. CASE ORetry
    <2>1. PICK e : e = [put |-> FALSE, g |-> c, l |-> n] OBVIOUS
    <2>2. e \in Tasks /\ e.put = FALSE /\ e.g = c /\ e.l = n BY <2>1 DEF Tasks
    <2>3. /\ omp' = Append(omp, e) /\ Moves(Omp, N2, <<>>)
          /\ mem' = mem /\ rows' = rows /\ loads' = loads
      BY <1>3, <1>4, <1>17, <2>1 DEF ORetry
    <2>4. Others(Omp) /\ todo[Omp] = N2 /\ todo'[Omp] = <<>> BY <1>7, <2>3
    <2>5. \A g \in Groups : \A l \in Layers : ~PutNow(g, l) BY <1>8, <2>4 DEF PutNow
    <2>6. n \in mem[c] \/ PutOn(c, n) BY <1>3, <1>4, <1>6, <2>4 DEF OmpSafe
    <2>7. RetrySafe' BY <1>1, <1>6, <2>2, <2>3, <2>5, <2>6, RetryGrows
    <2>8. \A x \in Groups : LoadOn(x)' => LoadOn(x) \/ (~e.put /\ x = e.g)
      BY <1>1, <2>2, <2>3, LoadOnGrows
    <2>9. LoadOf(c) BY <1>3, <1>8, <2>4 DEF LoadOf
    <2>10. \A g \in Groups : LoadOf(g)' => LoadOf(g)
      BY <1>2, <1>8, <2>2, <2>3, <2>4, <2>8, <2>9 DEF LoadOf, LoadOn
    <2>11. \A g \in Groups : \A l \in Layers : PutOn(g, l) => PutOn(g, l)'
      <3>1. FALSE \in BOOLEAN /\ omp' = Append(omp, [put |-> FALSE, g |-> c, l |-> n])
        BY <2>1, <2>3
      <3> QED BY <1>1, <3>1, OmpGrows
    <2>12. \A g \in Groups : \A l \in Layers : Coming(g, l) => Coming(g, l)' \/ l \in mem'[g]
      BY <2>5, <2>11 DEF Coming, PutNow
    <2>13. OmpSafe' BY <2>4, TryApart DEF OmpSafe
    <2> QED BY <1>2, <2>3, <2>4, <2>7, <2>10, <2>12, <2>13, HandlersStand
  <1> QED BY <1>5, <1>12, <1>13, <1>14, <1>15, <1>16, <1>17

\* OMP-Main takes up a task.
LEMMA ServeLoad ==
  ASSUME Forms, LoadInv, Serve
  PROVE  LoadInv'
  <1>1. /\ Types /\ Main \in Threads /\ Omp \in Threads /\ Main # Omp
        /\ Handlers \subseteq Threads /\ Omp \notin Handlers
    BY StoreAssumption DEF Forms, Threads
  <1>2. RetrySafe /\ OmpSafe BY DEF LoadInv
  <1>3. /\ todo[Omp] = <<>> /\ Others(Omp) /\ mem' = mem /\ rows' = rows
        /\ \/ /\ todo'[Omp] = G1 /\ on'[Omp] \in loads
              /\ loads' = loads \ {on'[Omp]} /\ omp' = omp
           \/ /\ loads = {} /\ loads' = {} /\ Head(omp) \in Tasks /\ omp # <<>> /\ omp' = Tail(omp)
              /\ todo'[Omp] = (IF Head(omp).put THEN PutTask ELSE R1)
              /\ on'[Omp] = Work(Head(omp).g, Head(omp).l)
    BY <1>1, ServeFacts
  <1>4. Handlers0 /\ todo'[Main] = todo[Main] /\ on'[Main] = on[Main]
    BY <1>1, <1>3 DEF Others, Handlers0
  <1>5. <<>> # PutTask /\ G1 # PutTask /\ R1 # PutTask /\ PutTask \notin GetPts
    BY OmpHeads DEF GetPts, MissPts
  <1>6. \A g \in Groups : \A l \in Layers : ~PutNow(g, l) BY <1>3, <1>5 DEF PutNow
  <1>7. CASE /\ todo'[Omp] = G1 /\ on'[Omp] \in loads
             /\ loads' = loads \ {on'[Omp]} /\ omp' = omp
    <2>1. RetrySafe' BY <1>1, <1>2, <1>3, <1>6, <1>7, RetryStays
    <2>2. OmpSafe' BY <1>7, TryApart DEF OmpSafe
    <2>3. \A g \in Groups : LoadOf(g)' => LoadOf(g) BY <1>4, <1>7 DEF LoadOf
    <2>4. \A g \in Groups : \A l \in Layers : Coming(g, l) => Coming(g, l)' \/ l \in mem'[g]
      BY <1>6, <1>7 DEF Coming, PutNow, PutOn
    <2> QED BY <1>3, <1>4, <2>1, <2>2, <2>3, <2>4, HandlersStand
  <1>8. CASE /\ loads = {} /\ loads' = {} /\ Head(omp) \in Tasks /\ omp # <<>> /\ omp' = Tail(omp)
             /\ todo'[Omp] = (IF Head(omp).put THEN PutTask ELSE R1)
             /\ on'[Omp] = Work(Head(omp).g, Head(omp).l)
    <2>1. PICK e \in Tasks : e = Head(omp) BY <1>8
    <2>2. /\ loads = {} /\ loads' = {} /\ omp # <<>> /\ omp' = Tail(omp)
          /\ todo'[Omp] = (IF e.put THEN PutTask ELSE R1) /\ on'[Omp] = Work(e.g, e.l)
      BY <1>8, <2>1
    <2>3. e.put \in BOOLEAN /\ e.g \in Groups /\ e.l \in Layers BY DEF Tasks
    <2>4. Work(e.g, e.l).g = e.g /\ Work(e.g, e.l).l = e.l BY DEF Work
    <2>5. e.put => PutNow(e.g, e.l)' BY <2>2 DEF PutNow
    <2>6. RetrySafe' /\ (~e.put => e.l \in mem[e.g])
      BY <1>1, <1>2, <1>3, <1>5, <2>1, <2>2, <2>5, RetryShrinks
    <2>7. OmpSafe'
      <3>1. CASE e.put BY <2>2, <3>1, TryApart DEF OmpSafe
      <3>2. CASE ~e.put BY <1>3, <2>2, <2>4, <2>6, <3>2, TryApart DEF OmpSafe
      <3> QED BY <3>1, <3>2
    <2>8. /\ \A x \in Groups : LoadOn(x)' => LoadOn(x)
          /\ ~e.put => LoadOn(e.g)
      BY <1>1, <2>1, <2>2, LoadOnShrinks
    <2>9. ASSUME NEW g \in Groups, LoadOf(g)' PROVE LoadOf(g)
      <3>1. LoadOn(g) => LoadOf(g) BY DEF LoadOn, LoadOf
      <3>2. todo'[Omp] \in GetPts /\ on'[Omp].g = g => LoadOf(g)
        BY <1>5, <2>2, <2>4, <2>8, <3>1
      <3> QED BY <1>4, <2>2, <2>8, <2>9, <3>1, <3>2 DEF LoadOf, LoadOn
    <2>10. ASSUME NEW g \in Groups, NEW l \in Layers, Coming(g, l) PROVE Coming(g, l)'
      <3>1. \A x \in Groups : \A k \in Layers :
              PutOn(x, k) <=> PutOn(x, k)' \/ (e.put /\ x = e.g /\ k = e.l)
        BY <1>1, <2>1, <2>2, OmpShrinks
      <3>2. PutOn(g, l) BY <1>6, <2>10 DEF Coming, PutNow
      <3> QED BY <2>5, <3>1, <3>2 DEF Coming, PutNow
    <2> QED BY <1>3, <1>4, <2>6, <2>7, <2>9, <2>10, HandlersStand
  <1> QED BY <1>3, <1>7, <1>8

\* A run starts, or starts again.
LEMMA FreshLoad == Fresh => LoadInv
  <1> SUFFICES ASSUME Fresh PROVE LoadInv
    OBVIOUS
  <1>1. Handlers \subseteq Threads /\ Main \in Threads /\ Omp \in Threads BY DEF Threads
  <1>2. /\ todo[Main] = <<>> /\ todo[Omp] = <<>> /\ loads = {} /\ omp = <<>>
        /\ \A g \in Groups : rows[g] # 0
    BY <1>1 DEF Fresh
  <1>3. Unzip # <<>> /\ <<>> \notin GetPts BY MainHeads, OmpHeads DEF GetPts, MissPts
  <1>4. \A g \in Groups : ~LoadOf(g) BY <1>2, <1>3 DEF LoadOf
  <1>5. EvictAlone BY <1>4 DEF EvictAlone
  <1>6. RetrySafe BY <1>2 DEF RetrySafe
  <1>7. OmpSafe BY <1>2, TryApart DEF OmpSafe
  <1> QED BY <1>2, <1>4, <1>5, <1>6, <1>7 DEF LoadInv, LoadRow, Arrives

LEMMA FreshLoadNext == Fresh' => LoadInv'
  BY FreshLoad, PTL

LEMMA LoadStep ==
  ASSUME OperatorWaits, Inv, LoadInv, [NextWithCandidates]_vars
  PROVE  LoadInv'
  <1>1. Forms /\ Traffic /\ Data BY DEF Inv
  <1>2. ASSUME NEW t \in Threads, Step(t) PROVE LoadInv'
    <2>1. CASE t \in Handlers
      <3>1. HandlerForm(t) /\ Types BY <1>1, <2>1 DEF Forms
      <3>2. HandlerMove(t) BY <1>2, <2>1, <3>1, HandlerSteps
      <3> QED BY <1>1, <2>1, <3>2, HandlerLoad
    <2>2. CASE t = Main BY <1>1, <1>2, <2>2, MainLoad
    <2>3. CASE t = Omp BY <1>1, <1>2, <2>3, OmpLoad
    <2> QED BY <2>1, <2>2, <2>3 DEF Threads
  <1>3. ASSUME StopCall \/ UNCHANGED vars PROVE LoadInv' BY <1>1, <1>3, MainLoad
  <1>4. ASSUME NEW g \in Groups, Save(g) \/ \E l \in Layers : Load(g, l) PROVE LoadInv'
    BY <1>1, <1>4, MainLoad
  <1>5. ASSUME NEW h \in Handlers, ListCandidates(h) \/ \E g \in Groups : Handle(h, g)
        PROVE  LoadInv'
    BY <1>1, <1>5, HandleLoad
  <1>6. ASSUME NEW t \in Threads, ReadStatus(t) PROVE LoadInv'
    <2>1. t = Main \/ t \in Handlers BY <1>6 DEF ReadStatus, Threads
    <2> QED BY <1>1, <1>6, <2>1, MainLoad, HandleLoad
  <1>7. ASSUME NEW g \in Groups, SchedulerEvicts(g) PROVE LoadInv' BY <1>1, <1>7, EvictsLoad
  <1>8. ASSUME Commit PROVE LoadInv' BY <1>1, <1>8, CommitLoad
  <1>9. ASSUME Serve PROVE LoadInv' BY <1>1, <1>9, ServeLoad
  <1>10. ASSUME Reborn PROVE LoadInv'
    <2>1. Fresh' BY <1>1, <1>10, RebornFresh
    <2> QED BY <2>1, FreshLoadNext
  <1> QED
    BY <1>2, <1>3, <1>4, <1>5, <1>6, <1>7, <1>8, <1>9, <1>10
    DEF NextWithCandidates, Next, Crash, Exit, Abort

\* A load that is about to give up is at its second try, and there it does not miss.
LEMMA NobodyLost ==
  ASSUME Inv, LoadInv
  PROVE  Served
  <1> SUFFICES ASSUME NEW t \in Threads, Lost(t) PROVE FALSE
    BY DEF Served
  <1>1. /\ todo[t] # <<>> /\ Head(todo[t]) \in {"load", "load_again"}
        /\ IF rows[on[t].g] = 1 THEN file[FileOf[on[t].g][on[t].l]] # "full"
           ELSE Head(todo[t]) = "load_again"
    BY DEF Lost, Asks, At, Complete
  <1>2. t = Omp
    <2>1. ASSUME t \in Handlers PROVE FALSE
      <3>1. HandlerForm(t) BY <2>1 DEF Inv, Forms
      <3>2. todo[t] \in PersistPts \cup EvictPts \cup {Py} \cup DropPts \cup PlainPts
        BY <3>1 DEF HandlerForm
      <3> QED BY <1>1, <3>2, HandlerHeads DEF PersistPts, EvictPts, DropPts, PlainPts
    <2>2. ASSUME t = Main PROVE FALSE
      <3>1. MainForm BY DEF Inv, Forms
      <3> QED BY <1>1, <2>2, <3>1, MainHeads DEF MainForm, StopPts, FlushPts
    <2> QED BY <2>1, <2>2 DEF Threads
  <1>3. todo[Omp] \notin {M1, M2} BY DEF LoadInv, OmpSafe
  <1>4. todo[Omp] = L2 /\ on[Omp].g \in Groups /\ on[Omp].l \in Layers
    <2>1. OmpForm BY DEF Inv, Forms
    <2> QED BY <1>1, <1>2, <1>3, <2>1, OmpHeads DEF OmpForm, GetPts, MissPts
  <1>5. Head(L2) = "load" BY OmpHeads
  <1>6. rows[on[Omp].g] = 1 /\ file[FileOf[on[Omp].g][on[Omp].l]] # "full"
    BY <1>1, <1>2, <1>4, <1>5
  <1>7. OnDisk BY DEF Inv, Data
  <1> QED BY <1>4, <1>6, <1>7 DEF OnDisk

\* Mem::get with load_misses_unlocked: when the operator's calls wait for the
\* requests they race with, a load of a group Record::has reports finds its layer,
\* in Mem or on disk, at its second try at the latest.
THEOREM StoreLoadsServed ==
  (Spec => []LoadsServed) /\ (SpecWithCandidates => []LoadsServed)
  <1>1. Init => LoadInv BY InitFresh, FreshLoad
  <1>2. (OperatorWaits => Inv) /\ (OperatorWaits => LoadInv) /\ [NextWithCandidates]_vars
          => (OperatorWaits => LoadInv)'
    BY LoadStep, OperatorStays
  <1>3. (OperatorWaits => Inv) /\ (OperatorWaits => LoadInv) => LoadsServed
    BY NobodyLost DEF LoadsServed
  <1>4. SpecWithCandidates => [](OperatorWaits => Inv) BY StoreInvariant
  <1>5. SpecWithCandidates => [](OperatorWaits => LoadInv)
    BY <1>1, <1>2, <1>4, PTL DEF SpecWithCandidates
  <1> QED BY <1>3, <1>4, <1>5, SpecSteps, PTL
=============================================================================
