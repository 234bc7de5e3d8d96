------------------------------ MODULE Executor ------------------------------
(***************************************************************************)
(* What a task queue promises its clients: a task that was accepted runs   *)
(* exactly once, one task at a time, and nothing accepted is left when the *)
(* queue is closed.  The order is not promised here.                       *)
(***************************************************************************)
CONSTANTS Items, None

VARIABLES phase, pending, current, finished
exVars == <<phase, pending, current, finished>>

ExInit == /\ phase = "open" /\ pending = {} /\ current = None /\ finished = {}

Accept(x) == /\ phase = "open"
             /\ x \notin pending \cup finished \cup {current}
             /\ pending' = pending \cup {x}
             /\ UNCHANGED <<phase, current, finished>>
Begin(x) == /\ current = None
            /\ pending' = pending \ {x} /\ current' = x
            /\ UNCHANGED <<phase, finished>>
End == /\ current # None
       /\ finished' = finished \cup {current} /\ current' = None
       /\ UNCHANGED <<phase, pending>>
Closing == /\ phase = "open"
           /\ phase' = "closing"
           /\ UNCHANGED <<pending, current, finished>>
Closed == /\ pending = {} /\ current = None /\ phase # "closed"
          /\ phase' = "closed"
          /\ UNCHANGED <<pending, current, finished>>

ExNext == \/ \E x \in Items : Accept(x)
          \/ \E x \in pending : Begin(x)
          \/ End \/ Closing \/ Closed

ExSpec == ExInit /\ [][ExNext]_exVars
=============================================================================
