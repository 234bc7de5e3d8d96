------------------------------- MODULE MCFlow -------------------------------
(* Three blocks.  A save of one layer with two chunks, the same once more,  *)
(* a save of two layers with one chunk, a load of each, and a save whose    *)
(* second layer is too large for the pool.                                  *)
EXTENDS Flow

MCCalls == {"saveWide", "resaveWide", "saveDeep", "loadWide", "loadDeep", "saveHuge"}
MCOp == [c \in MCCalls |-> IF c \in {"loadWide", "loadDeep"} THEN "get" ELSE "put"]
Wide == <<<<"a", "b">>>>
Deep == <<<<"c">>, <<"d">>>>
MCKeys == [c \in MCCalls |-> CASE c \in {"saveWide", "resaveWide", "loadWide"} -> Wide
                               [] c \in {"saveDeep", "loadDeep"} -> Deep
                               [] OTHER -> <<<<"e">>, <<"f", "g", "h", "i">>>>]
=============================================================================
