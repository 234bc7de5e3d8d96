---------------------------- MODULE MCTaskQueue ----------------------------
(* A request of two layers (P1, then P2), a layer of a second request and a  *)
(* save; two threads shutting down.                                         *)
EXTENDS TaskQueue

MCItems == {[id |-> "r1.1", level |-> 1, bundle |-> 1, key |-> 1],
            [id |-> "r1.2", level |-> 2, bundle |-> 1, key |-> 2],
            [id |-> "r2.1", level |-> 1, bundle |-> 2, key |-> 1],
            [id |-> "sync.2", level |-> 0, bundle |-> 0, key |-> 2],
            [id |-> "save", level |-> 3, bundle |-> 0, key |-> -1]}
LiveItems == {x \in MCItems : x.id \in {"r1.1", "r1.2", "save"}}
=============================================================================
