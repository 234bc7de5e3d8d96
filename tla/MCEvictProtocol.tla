-------------------------- MODULE MCEvictProtocol --------------------------
(* Small instances of EvictProtocol.                                        *)
EXTENDS EvictProtocol

CONSTANTS r0, r1, g1, g2, q1, q2

RanksOne == {r0}
RanksTwo == {r0, r1}
GroupsTwo == {g1, g2}
ReqsOne == {q1}
ReqsTwo == {q1, q2}

\* A prompt of two blocks and its prefix: a hit behind a miss is possible.
PromptsChain == {<<g1>>, <<g1, g2>>}

\* Lease-expired groups only, one or two at a time.
CountsLeased == {<<1, 0>>, <<2, 0>>}
============================================================================
