------------------------------ MODULE KBucket ------------------------------
(***************************************************************************)
(* What a routing table promises: each bucket is a list of at most K       *)
(* distinct contacts, a contact heard from goes to its end, a new one is   *)
(* added while there is room, and only takes the place of another one when *)
(* the bucket is full.                                                     *)
(***************************************************************************)
EXTENDS Naturals, Sequences, SequencesExt

CONSTANTS Contact, Bucket, BucketOf, K

VARIABLE order      \* the contacts of each bucket

Init == order = [b \in Bucket |-> <<>>]

\* A contact of the bucket is heard from.
Touch(b) ==
    \E i \in DOMAIN order[b] :
        order' = [order EXCEPT ![b] = Append(RemoveAt(@, i), @[i])]

\* A new contact, and room for it.
Add(c) ==
    LET b == BucketOf[c] IN
    /\ \A i \in DOMAIN order[b] : order[b][i] # c
    /\ Len(order[b]) < K
    /\ order' = [order EXCEPT ![b] = Append(@, c)]

\* A new contact takes the place of a contact of a full bucket.
Replace(c) ==
    LET b == BucketOf[c] IN
    /\ \A i \in DOMAIN order[b] : order[b][i] # c
    /\ Len(order[b]) = K
    /\ \E i \in DOMAIN order[b] :
           order' = [order EXCEPT ![b] = Append(RemoveAt(@, i), c)]

Next ==
    \/ \E b \in Bucket : Touch(b)
    \/ \E c \in Contact : Add(c) \/ Replace(c)

Spec == Init /\ [][Next]_order
=============================================================================
