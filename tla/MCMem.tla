------------------------------- MODULE MCMem -------------------------------
(* Small instances of Mem.                                                    *)
EXTENDS Mem

CONSTANTS g1, g2, b1, b2, b3
MCGroups == {g1, g2}
OneTensor == {1}
MCBuffers == {b1, b2, b3}
MCSizeOf == [b \in MCBuffers |-> IF b = b1 THEN 2 ELSE 1]

\* One chunk, and a prompt of two that begins with it.
MCBatches == {<<g1>>, <<g1, g2>>}

\* force_evict_to_size is evict_to_size without the look at the switch.
MCCalls == {[op |-> "groups", n |-> 1], [op |-> "size", n |-> 1],
            [op |-> "remove", g |-> g1], [op |-> "clear"]}
OnlyGroups == {[op |-> "groups", n |-> 1]}
=============================================================================
