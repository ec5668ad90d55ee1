------------------------------ MODULE MCLookUp ------------------------------
(* Four nodes, numbered by their distance to the target.                   *)
EXTENDS LookUp

MCNode == 1 .. 4
MCDist == [n \in MCNode |-> n]
=============================================================================
