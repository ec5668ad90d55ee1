------------------------------- MODULE MCRpc -------------------------------
(* Two calls from one node to another, one of them of a type that has no   *)
(* first-handler and is never dropped.                                     *)
EXTENDS Rpc

CONSTANTS a, b, ping, put

MCNode == {a, b}
MCCall == {ping, put}
MCCaller == [c \in MCCall |-> a]
MCCallee == [c \in MCCall |-> b]
MCIntroduces == {ping}
=============================================================================
