--------------------------- MODULE MCRoutingTable ---------------------------
(* Four contacts of one bucket: calls for different buckets share nothing. *)
EXTENDS RoutingTable

CONSTANTS c1, c2, c3, c4, low, t1, t2, t3

MCContact == {c1, c2, c3, c4}
MCBucketOf == [c \in MCContact |-> low]
MCThread == {t1, t2, t3}
Symmetry == Permutations(MCContact) \cup Permutations(MCThread)
=============================================================================
