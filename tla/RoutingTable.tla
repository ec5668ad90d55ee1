---------------------------- MODULE RoutingTable ----------------------------
(***************************************************************************)
(* The k-buckets of a Kademlia node (pkg/kademlia/common/routing_table.go) *)
(* under concurrent calls of NewContact.  Every message a node receives is *)
(* handled in a goroutine of its own and registers its sender, so several  *)
(* threads run NewContact at once.  bucketLock is held for each critical   *)
(* section but released while the least recently seen contact is pinged:   *)
(* one call is one atomic step when the bucket has room, and two steps     *)
(* around an arbitrarily long ping when it is full.                        *)
(***************************************************************************)
EXTENDS Naturals, Sequences, FiniteSets, SequencesExt

CONSTANTS
    Contact,        \* the node ids that call, or are called by, this node
    NoContact,      \* none: what a thread that is not pinging has in hand
    Bucket,         \* the indices of the buckets contacts fall in
    BucketOf,       \* Contact -> Bucket: the index NewContact computes
    K,              \* max nodes per bucket
    Thread,         \* goroutines that call NewContact
    MaxTime         \* bound on the clock, in seconds (TLC only)

ASSUME BucketOfAssumption == BucketOf \in [Contact -> Bucket]
ASSUME NoContactAssumption == NoContact \notin Contact
ASSUME KAssumption == K \in Nat \ {0}

VARIABLES
    buckets,        \* the live buckets, least recently seen contact first
    incoming,       \* nodeInfo of a call that waits for its ping, or none
    victim,         \* the contact that call is pinging (leastRecent)
    now,            \* time.Now().Unix(), shifted: the zero time is Never
    overlapped      \* history: two calls pinged for one bucket at once

vars == <<buckets, incoming, victim, now, overlapped>>

\* LastSeen of a contact that was only added: the zero time.Time.
Never == 0

Entry == [id : Contact, seen : Nat]

Ids(s) == {s[i].id : i \in DOMAIN s}

\* The loops that rebuild a bucket without one node, whatever its copies.
Without(s, c) ==
    LET keep == {i \in DOMAIN s : s[i].id # c}
        Nth(j) == CHOOSE i \in keep : Cardinality({h \in keep : h <= i}) = j
    IN  [j \in 1 .. Cardinality(keep) |-> s[Nth(j)]]

\* The index of the first entry for c, the one the search loops stop at.
FirstIndex(s, c) ==
    CHOOSE i \in DOMAIN s : s[i].id = c /\ \A h \in 1 .. i - 1 : s[h].id # c

\* The entry the snapshot loop ends with: the first of the oldest ones.
LeastRecent(s) ==
    s[CHOOSE i \in DOMAIN s :
        /\ \A h \in DOMAIN s : s[i].seen <= s[h].seen
        /\ \A h \in 1 .. i - 1 : s[i].seen < s[h].seen]

\* Mutant of MovedToEnd: refreshed where it is.
RefreshedInPlace(s, c, t) ==
    [i \in DOMAIN s |-> IF s[i].id = c THEN [id |-> c, seen |-> t] ELSE s[i]]

\* "Move to the end": the bucket rebuilt without c, then c with LastSeen = t.
MovedToEnd(s, c, t) == Append(Without(s, c), [id |-> c, seen |-> t])

\* Mutants of Replaced: the head dropped whatever answered, the new contact
\* forgotten, the new contact in the place of the old one.
ReplacedHead(s, old, new) == Append(Tail(s), [id |-> new, seen |-> Never])
OnlyRemoved(s, old, new) == RemoveAt(s, FirstIndex(s, old))
ReplacedInPlace(s, old, new) ==
    [s EXCEPT ![FirstIndex(s, old)] = [id |-> new, seen |-> Never]]

\* The oldest entry dropped in place, then the new contact at the end.
Replaced(s, old, new) ==
    Append(RemoveAt(s, FirstIndex(s, old)), [id |-> new, seen |-> Never])

\* Mutant of HasRoom: one contact too many.
HasRoomForOneMore(s) == Len(s) <= K

HasRoom(s) == Len(s) < K

\* The call of t is between its two critical sections.
Pings(t) == incoming[t] # NoContact

\* A call is pinging the victim of bucket b.
PingedFor(b) == \E t \in Thread : Pings(t) /\ BucketOf[incoming[t]] = b

\* Mutant of Return: the snapshot's contact is kept.
ReturnKeepingVictim(t) ==
    /\ incoming' = [incoming EXCEPT ![t] = NoContact]
    /\ UNCHANGED victim

Return(t) ==
    /\ incoming' = [incoming EXCEPT ![t] = NoContact]
    /\ victim' = [victim EXCEPT ![t] = NoContact]

-----------------------------------------------------------------------------
\* NewRoutingTable: every bucket is empty.
Init ==
    /\ buckets = [b \in Bucket |-> <<>>]
    /\ incoming = [t \in Thread |-> NoContact]
    /\ victim = [t \in Thread |-> NoContact]
    /\ now = Never + 1
    /\ overlapped = FALSE

\* The contact is already in its bucket: refreshed and moved to the end.
SeeKnown(t, c) ==
    LET b == BucketOf[c] IN
    /\ ~Pings(t)
    /\ c \in Ids(buckets[b])
    /\ buckets' = [buckets EXCEPT ![b] = MovedToEnd(@, c, now)]
    /\ UNCHANGED <<incoming, victim, now, overlapped>>

\* A new contact and a bucket with room: appended, never yet "seen".
AddNew(t, c) ==
    LET b == BucketOf[c] IN
    /\ ~Pings(t)
    /\ c \notin Ids(buckets[b])
    /\ HasRoom(buckets[b])
    /\ buckets' = [buckets EXCEPT ![b] = Append(@, [id |-> c, seen |-> Never])]
    /\ UNCHANGED <<incoming, victim, now, overlapped>>

\* A full bucket: a victim is chosen from a snapshot, the lock is released
\* and the ping is sent.
PingLeastRecent(t, c) ==
    LET b == BucketOf[c] IN
    /\ ~Pings(t)
    /\ c \notin Ids(buckets[b])
    /\ ~HasRoom(buckets[b])
    /\ incoming' = [incoming EXCEPT ![t] = c]
    /\ victim' = [victim EXCEPT ![t] = LeastRecent(buckets[b]).id]
    /\ overlapped' = (overlapped \/ PingedFor(b))
    /\ UNCHANGED <<buckets, now>>

\* The ping timed out.  The live bucket is read again: if the victim is still
\* there it makes place for the new contact, otherwise the call gives up.
PingFails(t) ==
    LET b == BucketOf[incoming[t]] IN
    /\ Pings(t)
    /\ buckets' = IF victim[t] \in Ids(buckets[b])
                  THEN [buckets EXCEPT ![b] = Replaced(@, victim[t], incoming[t])]
                  ELSE buckets
    /\ Return(t)
    /\ UNCHANGED <<now, overlapped>>

\* The victim answered: it is put at the end of the live bucket and the new
\* contact is dropped.
PingAnswered(t) ==
    LET b == BucketOf[incoming[t]] IN
    /\ Pings(t)
    /\ buckets' = [buckets EXCEPT ![b] = MovedToEnd(@, victim[t], now)]
    /\ Return(t)
    /\ UNCHANGED <<now, overlapped>>

Tick ==
    /\ now < MaxTime
    /\ now' = now + 1
    /\ UNCHANGED <<buckets, incoming, victim, overlapped>>

NewContact(t) ==
    \/ \E c \in Contact : SeeKnown(t, c) \/ AddNew(t, c) \/ PingLeastRecent(t, c)
    \/ PingFails(t)
    \/ PingAnswered(t)

Next == Tick \/ \E t \in Thread : NewContact(t)

Spec == Init /\ [][Next]_vars

-----------------------------------------------------------------------------
TypeOK ==
    /\ buckets \in [Bucket -> Seq(Entry)]
    /\ incoming \in [Thread -> Contact \cup {NoContact}]
    /\ victim \in [Thread -> Contact \cup {NoContact}]
    /\ \A t \in Thread : victim[t] = NoContact <=> ~Pings(t)
    /\ now \in Nat \ {Never}
    /\ overlapped \in BOOLEAN

SortedBySeen(s) ==
    \A i, j \in DOMAIN s :
        (i < j /\ s[j].seen # Never) => s[i].seen <= s[j].seen

\* Recency order: along a bucket, the contacts that have been heard from are
\* sorted by the time they were last heard from, so moving to the end keeps
\* the order NewContact's choice of a victim relies on, however the calls and
\* the pings in flight interleave.
RecencyOrder == \A b \in Bucket : SortedBySeen(buckets[b])

\* A contact only ever leaves its bucket in the step in which the thread that
\* pinged it learns that it did not answer, and the contact that thread was
\* bringing in is in the bucket afterwards: no other interleaving of
\* refreshes, answers and replacements drops a live contact.
EvictionFollowsFailedPing ==
    [][\A c \in Contact : LET b == BucketOf[c] IN
          (c \in Ids(buckets[b]) /\ c \notin Ids(buckets'[b])) =>
              \E t \in Thread : /\ Pings(t) /\ victim[t] = c
                               /\ ~Pings(t)'
                               /\ incoming[t] \in Ids(buckets'[b])]_vars

NoDuplicatesIn(s) == \A i, j \in DOMAIN s : s[i].id = s[j].id => i = j

\* A full bucket without duplicates stays full: however many threads replace
\* or move its contacts at once, no place of the bucket is lost.
FullStaysFull ==
    [][\A b \in Bucket :
          (Len(buckets[b]) >= K /\ NoDuplicatesIn(buckets[b]))
              => Len(buckets'[b]) >= K]_vars

-----------------------------------------------------------------------------
(* The properties of a table as long as no two calls have pinged for one   *)
(* bucket at once: what it does while callers are far apart, and would     *)
(* always do if a bucket stayed reserved while its victim is pinged.       *)

\* "k int // max nodes per bucket" (routing_table.go:18).
BucketWithinK == \A b \in Bucket : Len(buckets[b]) <= K

\* "Check if node already exists in bucket" (routing_table.go:63): a contact
\* has one entry, although the entry is added after the lock was given up.
NoDuplicates == \A b \in Bucket : NoDuplicatesIn(buckets[b])

NoOverlap ==
    \A t, u \in Thread :
        /\ Pings(t) /\ Pings(u)
        /\ BucketOf[incoming[t]] = BucketOf[incoming[u]]
        => t = u

\* What keeps both: while a thread pings, its bucket stays full, its victim
\* stays in the bucket and the contact it brings stays out of it.
PingInFullBucket ==
    \A t \in Thread : Pings(t) =>
        LET s == buckets[BucketOf[incoming[t]]] IN
        Len(s) = K /\ victim[t] \in Ids(s) /\ incoming[t] \notin Ids(s)

Serial == NoOverlap /\ BucketWithinK /\ NoDuplicates /\ PingInFullBucket

\* Until pings of a bucket first overlap, buckets stay within K and without
\* duplicates, whatever is refreshed between a ping and its end.
SerialInv == ~overlapped => Serial

\* The contacts of each bucket in order, without the times.
Order == [b \in Bucket |-> [i \in DOMAIN buckets[b] |-> buckets[b][i].id]]

Abstract == INSTANCE KBucket WITH order <- Order

\* Until then the table implements k-buckets: it starts as KBucket does, and
\* each of its steps is a step of KBucket or leaves the order of contacts.
RefinesKBucket == Abstract!Init /\ [][overlapped' \/ Abstract!Next]_Order
=============================================================================
