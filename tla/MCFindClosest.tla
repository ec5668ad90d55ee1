--------------------------- MODULE MCFindClosest ---------------------------
(* Ids of four bits, and a choice of contacts in every bucket: the owner   *)
(* itself among them, which is filed with the farthest ids.                *)
EXTENDS FindClosest

Bits(a, b, c, d) == [i \in 0 .. 3 |-> <<a, b, c, d>>[i + 1]]

MCOwner == Bits(0, 1, 0, 1)
MCContact == {MCOwner,
              Bits(1, 0, 0, 0), Bits(1, 0, 1, 1), Bits(1, 1, 0, 1),
              Bits(0, 0, 0, 1), Bits(0, 0, 1, 0), Bits(0, 0, 1, 1),
              Bits(0, 1, 1, 0), Bits(0, 1, 1, 1),
              Bits(0, 1, 0, 0)}
MCBucket == 0 .. 3
MCBucketOf == [c \in MCContact |-> BucketIndex(MCOwner, c)]
=============================================================================
