---------------------------- MODULE MCOverlay ----------------------------
(* Two nodes join through a third, the first by its address; one of them   *)
(* stores a value, the other one looks for it.                             *)
EXTENDS Overlay

CONSTANTS boot, p, g, joinP, joinG, putP, getG

MCNode == {boot, p, g}
MCOp == {joinP, joinG, putP, getG}
MCKind == [o \in MCOp |-> CASE o = putP -> "put" [] o = getG -> "get" [] OTHER -> "join"]
MCBy == [o \in MCOp |-> IF o \in {joinP, putP} THEN p ELSE g]
MCVia == [o \in MCOp |-> boot]
MCByAddress == {joinP}
MCFollows == [o \in MCOp |-> CASE o = putP -> {joinP} [] o = getG -> {joinG, putP} [] OTHER -> {}]
=============================================================================
