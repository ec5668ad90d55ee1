---------------------------- MODULE FindClosest ----------------------------
(***************************************************************************)
(* RoutingTable.FindClosest (pkg/kademlia/common/routing_table.go) on the  *)
(* tables KBucket's operations build: the K contacts it returns for a      *)
(* target, which find_node replies carry and lookups start from.  KBucket  *)
(* is what RoutingTable implements, so the tables are those the code can   *)
(* have while pings do not overlap.                                        *)
(***************************************************************************)
EXTENDS KBucket, XorMetric

CONSTANT Owner      \* id of the node that owns the table

ASSUME OwnerAssumption == Owner \in Id /\ Contact \subseteq Id
ASSUME BucketAssumption ==
    /\ Bucket = 0 .. IdBits - 1
    /\ BucketOf = [c \in Contact |-> BucketIndex(Owner, c)]
ASSUME SizeAssumption == K \in Nat

\* A bucket, or nothing beyond the ends of the table.
BucketAt(b) == IF b \in Bucket THEN order[b] ELSE <<>>

\* How many nodes the loop over a bucket appends at most: it appends first
\* and breaks when there are enough after that.
Room(nodes, remaining) ==
    IF Len(nodes) < remaining THEN remaining - Len(nodes) ELSE 1

Taken(nodes, s, remaining) ==
    nodes \o SubSeq(s, 1, Min({Len(s), Room(nodes, remaining)}))

\* Mutant of Around: the buckets below are never looked at.
AboveOnly(nodes, home, offset, remaining) ==
    Taken(nodes, BucketAt(home + offset), remaining)

\* One iteration of the expansion: the bucket below, then the one above.
Around(nodes, home, offset, remaining) ==
    Taken(Taken(nodes, BucketAt(home - offset), remaining),
          BucketAt(home + offset), remaining)

\* otherBucketNodes when the expansion from bucket home ends.
Gathered(home, remaining) ==
    LET after[offset \in 0 .. IdBits - 1] ==
            IF offset = 0 THEN <<>>
            ELSE IF Len(after[offset - 1]) >= remaining THEN after[offset - 1]
            ELSE Around(after[offset - 1], home, offset, remaining)
    IN  after[IdBits - 1]

\* sort.Slice: the r-th of the nodes is the one that r - 1 of them are closer
\* than (no two ids are equally far from the target).
SortedByDistance(nodes, target) ==
    [r \in DOMAIN nodes |->
        CHOOSE n \in ToSet(nodes) :
            Cardinality({m \in ToSet(nodes) : CloserTo(m, target, n)}) = r - 1]

Truncated(s, n) == SubSeq(s, 1, Min({n, Len(s)}))

\* FindClosest(target): the home bucket of the target, in its own order, and
\* when that is fewer than K the closest of the nodes gathered around it.
Closest(target) ==
    LET home == BucketIndex(Owner, target)
        near == BucketAt(home)
        remaining == K - Len(near)
    IN  IF Len(near) >= K THEN Truncated(near, K)
        ELSE near \o Truncated(
                SortedByDistance(Gathered(home, remaining), target), remaining)

Known == UNION {ToSet(order[b]) : b \in Bucket}

-----------------------------------------------------------------------------
\* The distance of the bit arrays is the XOR metric: of two contacts, the
\* one that agrees with the target on the first bit they differ in is closer
\* (CloserTo, and through it LookUp's and FindClosest's choices).
CloserByFirstDifference ==
    \A a, b \in Known : a # b => \A target \in Id :
        CloserTo(a, target, b) <=> a[DiffBit(a, b)] = target[DiffBit(a, b)]

\* FindClosest returns K contacts, or all there are when they are fewer than
\* K, without repetition, although it stops gathering as soon as it can.
ReturnsKContacts ==
    \A target \in Id : LET r == Closest(target) IN
        /\ IsInjective(r) /\ ToSet(r) \subseteq Known
        /\ Len(r) = Min({K, Cardinality(Known)})

\* The result holds the closest known contact whenever the bucket of the
\* target holds a contact: what makes every hop of a lookup get closer.  The
\* owner's own id is the exception, as contact and as target: it shares the
\* bucket of the ids that differ from it in bit 0.
ReturnsClosestContact ==
    \A target \in Id \ {Owner} :
        LET home == ToSet(order[BucketIndex(Owner, target)]) \ {Owner} IN
        home # {} =>
            \E i \in DOMAIN Closest(target) : \A c \in Known :
                ~CloserTo(c, target, Closest(target)[i])
=============================================================================
