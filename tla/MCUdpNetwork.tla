--------------------------- MODULE MCUdpNetwork ---------------------------
(* Two processes, one of them with two nodes, send each other requests, of *)
(* which one has a long answer.                                            *)
EXTENDS UdpNetwork

CONSTANTS n1, n2, a, b1, b2, toB, toA

MCNet == {n1, n2}
MCAddr == {a, b1, b2}
MCNetOf == [x \in MCAddr |-> IF x = a THEN n1 ELSE n2]
MCRequest == {toB, toA}
MCSource == [r \in MCRequest |-> IF r = toB THEN a ELSE b1]
MCTarget == [r \in MCRequest |-> IF r = toB THEN b1 ELSE a]
MCLong == {<<toB, "answer">>}
MCRepeated == {<<toA, "answer">>}
MCMortal == {b1}
MCCuttable == {<<n2, b1>>}
=============================================================================
