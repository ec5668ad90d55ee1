------------------------- MODULE RoutingTableProofs -------------------------
(***************************************************************************)
(* Proofs, for every set of contacts, buckets and threads and every K, of  *)
(* the properties of RoutingTable: type correctness and recency order for  *)
(* all interleavings, and, until pings of a bucket first overlap, that     *)
(* buckets stay within K and without duplicates, and that the table then   *)
(* implements KBucket: what the loops of NewContact do to a bucket is what *)
(* KBucket says in terms of the positions of its contacts.                 *)
(***************************************************************************)
EXTENDS RoutingTable, FiniteSetTheorems, SequenceTheorems, WellFoundedInduction,
        TLAPS

-----------------------------------------------------------------------------
(* Counting the indices that Without keeps.                                *)

LEMMA LeastNatural ==
    ASSUME NEW S, S \subseteq Nat, S # {}
    PROVE  \E m \in S : \A n \in S : m <= n
  <1>1. PICK m \in S : \A n \in S : <<n, m>> \notin OpToRel(<, Nat)
    BY NatLessThanWellFounded, WFMin, Zenon
  <1>2. \A n \in S : ~(n < m)
    BY <1>1, Zenon DEF OpToRel
  <1> QED  BY <1>2

\* How many indices of a set are at most i.
UpTo(keep, i) == Cardinality({h \in keep : h <= i})

LEMMA UpToFacts ==
    ASSUME NEW n \in Nat, NEW keep \in SUBSET (1 .. n)
    PROVE  /\ \A i \in 0 .. n : UpTo(keep, i) \in Nat
           /\ UpTo(keep, 0) = 0
           /\ UpTo(keep, n) = Cardinality(keep)
           /\ \A i \in 1 .. n : UpTo(keep, i) =
                IF i \in keep THEN UpTo(keep, i - 1) + 1 ELSE UpTo(keep, i - 1)
           /\ \A i, j \in 0 .. n : i <= j => UpTo(keep, i) <= UpTo(keep, j)
  <1> DEFINE S(i) == {h \in keep : h <= i}
  <1>0. \A h \in keep : h \in Nat /\ 1 <= h /\ h <= n
    OBVIOUS
  <1>1. IsFiniteSet(1 .. n)
    BY FS_Interval
  <1>2. \A i \in 0 .. n : S(i) \subseteq 1 .. n /\ IsFiniteSet(S(i))
    BY <1>1, FS_Subset
  <1>3. \A i \in 0 .. n : UpTo(keep, i) \in Nat
    BY <1>2, FS_CardinalityType DEF UpTo
  <1>4. UpTo(keep, 0) = 0
    <2>0. \A h \in keep : ~(h <= 0)
      BY <1>0
    <2>1. S(0) = {}
      BY <2>0
    <2> QED  BY <2>1, FS_EmptySet DEF UpTo
  <1>5. UpTo(keep, n) = Cardinality(keep)
    <2>1. S(n) = keep
      BY <1>0
    <2> QED  BY <2>1 DEF UpTo
  <1>6. ASSUME NEW i \in 1 .. n
        PROVE  UpTo(keep, i) =
                 IF i \in keep THEN UpTo(keep, i - 1) + 1 ELSE UpTo(keep, i - 1)
    <2>1. \A h \in keep : h <= i <=> h <= i - 1 \/ h = i
      BY <1>0
    <2>2. S(i) = IF i \in keep THEN S(i - 1) \cup {i} ELSE S(i - 1)
      BY <2>1
    <2>3. i - 1 \in 0 .. n /\ ~(i <= i - 1)
      OBVIOUS
    <2>4. IsFiniteSet(S(i - 1)) /\ i \notin S(i - 1)
      BY <1>2, <2>3
    <2> QED  BY <2>2, <2>4, FS_AddElement DEF UpTo
  <1>7. ASSUME NEW i \in 0 .. n, NEW j \in 0 .. n, i <= j
        PROVE  UpTo(keep, i) <= UpTo(keep, j)
    <2>0. \A h \in keep : h <= i => h <= j
      BY <1>0, <1>7
    <2>1. S(i) \subseteq S(j)
      BY <2>0
    <2> QED  BY <1>2, <2>1, FS_Subset DEF UpTo
  <1> QED  BY <1>3, <1>4, <1>5, <1>6, <1>7

\* The indices Without picks: there is a j-th one, and only one.
LEMMA NthExists ==
    ASSUME NEW n \in Nat, NEW keep \in SUBSET (1 .. n),
           NEW j \in 1 .. Cardinality(keep)
    PROVE  \E i \in keep : UpTo(keep, i) = j
  <1> DEFINE S == {i \in 0 .. n : UpTo(keep, i) >= j}
  <1>0. /\ \A i \in 0 .. n : UpTo(keep, i) \in Nat
        /\ UpTo(keep, 0) = 0
        /\ UpTo(keep, n) = Cardinality(keep)
        /\ \A i \in 1 .. n : UpTo(keep, i) =
             IF i \in keep THEN UpTo(keep, i - 1) + 1 ELSE UpTo(keep, i - 1)
    BY UpToFacts
  <1>1. n \in S
    BY <1>0
  <1>2. PICK m \in S : \A i \in S : m <= i
    <2>1. S \subseteq Nat /\ S # {}
      BY <1>1
    <2> HIDE DEF S
    <2> QED  BY <2>1, LeastNatural
  <1>3. m \in 1 .. n
    BY <1>0, <1>2
  <1>4. UpTo(keep, m - 1) < j
    <2>1. m - 1 \in 0 .. n /\ m - 1 \notin S
      BY <1>2, <1>3
    <2> QED  BY <1>0, <2>1
  <1>5. UpTo(keep, m) = IF m \in keep THEN UpTo(keep, m - 1) + 1
                                      ELSE UpTo(keep, m - 1)
    BY <1>0, <1>3
  <1>6. UpTo(keep, m - 1) \in Nat
    BY <1>0, <1>3
  <1>7. m \in keep
    BY <1>2, <1>4, <1>5, <1>6
  <1> QED  BY <1>0, <1>2, <1>4, <1>5, <1>6, <1>7

\* Without(s, c) is the subsequence of s that leaves out c, and nothing else.
LEMMA WithoutIsSubsequence ==
    ASSUME NEW s \in Seq(Entry), NEW c
    PROVE  /\ Without(s, c) \in Seq(Entry)
           /\ \E g \in [DOMAIN Without(s, c) -> DOMAIN s] :
                /\ \A j \in DOMAIN Without(s, c) : Without(s, c)[j] = s[g[j]]
                /\ \A i, j \in DOMAIN Without(s, c) : i < j => g[i] < g[j]
                /\ \A j \in DOMAIN Without(s, c) : s[g[j]].id # c
                /\ \A i \in DOMAIN s : s[i].id # c =>
                      \E j \in DOMAIN Without(s, c) : g[j] = i
           /\ Len(Without(s, c)) = Cardinality({i \in DOMAIN s : s[i].id # c})
  <1> DEFINE n == Len(s)
             keep == {i \in DOMAIN s : s[i].id # c}
             m == Cardinality(keep)
             Nth(j) == CHOOSE i \in keep : UpTo(keep, i) = j
             g == [j \in 1 .. m |-> Nth(j)]
  <1>1. n \in Nat /\ keep \in SUBSET (1 .. n) /\ DOMAIN s = 1 .. n
    OBVIOUS
  <1>2. m \in Nat
    BY <1>1, UpToFacts
  <1>3. Without(s, c) = [j \in 1 .. m |-> s[Nth(j)]]
    BY DEF Without, UpTo
  <1>4. \A j \in 1 .. m : Nth(j) \in keep /\ UpTo(keep, Nth(j)) = j
    <2> SUFFICES ASSUME NEW j \in 1 .. m
                 PROVE  Nth(j) \in keep /\ UpTo(keep, Nth(j)) = j
      OBVIOUS
    <2>1. \E i \in keep : UpTo(keep, i) = j
      <3> HIDE DEF keep
      <3> QED  BY <1>1, NthExists
    <2> QED  BY <2>1
  <1>5. \A i, j \in 1 .. m : i < j => Nth(i) < Nth(j)
    <2> SUFFICES ASSUME NEW i \in 1 .. m, NEW j \in 1 .. m, i < j
                 PROVE  Nth(i) < Nth(j)
      OBVIOUS
    <2>1. /\ Nth(i) \in 1 .. n /\ Nth(j) \in 1 .. n
          /\ UpTo(keep, Nth(i)) = i /\ UpTo(keep, Nth(j)) = j
      <3> HIDE DEF keep, Nth
      <3> QED  BY <1>1, <1>4
    <2>2. Nth(j) <= Nth(i) => UpTo(keep, Nth(j)) <= UpTo(keep, Nth(i))
      <3> HIDE DEF keep, Nth
      <3>1. \A h, k \in 0 .. n : h <= k => UpTo(keep, h) <= UpTo(keep, k)
        BY <1>1, UpToFacts
      <3> QED  BY <1>1, <2>1, <3>1
    <2> HIDE DEF keep, Nth
    <2> QED  BY <1>1, <1>2, <2>1, <2>2
  <1>9. \A i \in keep : UpTo(keep, i) \in 1 .. m /\ Nth(UpTo(keep, i)) = i
    <2> SUFFICES ASSUME NEW i \in keep
                 PROVE  UpTo(keep, i) \in 1 .. m /\ Nth(UpTo(keep, i)) = i
      OBVIOUS
    <2> DEFINE j == UpTo(keep, i)
    <2> HIDE DEF keep, Nth, m, g
    <2>0. /\ \A h \in 0 .. n : UpTo(keep, h) \in Nat
          /\ UpTo(keep, n) = m
          /\ \A h \in 1 .. n : UpTo(keep, h) =
               IF h \in keep THEN UpTo(keep, h - 1) + 1 ELSE UpTo(keep, h - 1)
          /\ \A h, k \in 0 .. n : h <= k => UpTo(keep, h) <= UpTo(keep, k)
      BY <1>1, UpToFacts DEF m
    <2>1. i \in 1 .. n
      BY <1>1
    <2>2. j = UpTo(keep, i - 1) + 1 /\ UpTo(keep, i - 1) \in Nat
      <3>1. i - 1 \in 0 .. n
        BY <1>1, <2>1
      <3> QED  BY <2>0, <2>1, <3>1
    <2>3. j <= m
      BY <1>1, <2>0, <2>1
    <2>4. j \in 1 .. m
      BY <1>2, <2>2, <2>3
    <2>5. Nth(j) \in keep /\ UpTo(keep, Nth(j)) = j
      BY <1>4, <2>4
    <2>6. \A h, k \in keep : h < k => UpTo(keep, h) < UpTo(keep, k)
      <3> SUFFICES ASSUME NEW h \in keep, NEW k \in keep, h < k
                   PROVE  UpTo(keep, h) < UpTo(keep, k)
        OBVIOUS
      <3>1. h \in 1 .. n /\ k \in 1 .. n /\ h <= k - 1
        BY <1>1
      <3>2. h \in 0 .. n /\ k - 1 \in 0 .. n
        BY <1>1, <3>1
      <3>3. UpTo(keep, h) <= UpTo(keep, k - 1) /\ UpTo(keep, k - 1) \in Nat
        BY <2>0, <3>1, <3>2
      <3>4. UpTo(keep, k) = UpTo(keep, k - 1) + 1 /\ UpTo(keep, h) \in Nat
        BY <2>0, <3>1, <3>2
      <3> QED  BY <3>3, <3>4
    <2>7. Nth(j) \in 1 .. n
      BY <1>1, <2>5
    <2>8. ~(i < Nth(j)) /\ ~(Nth(j) < i)
      BY <1>2, <2>4, <2>5, <2>6
    <2> QED  BY <1>1, <2>1, <2>4, <2>7, <2>8
  <1> HIDE DEF Nth, m, g
  <1>6. /\ DOMAIN Without(s, c) = 1 .. m
        /\ \A j \in 1 .. m : Without(s, c)[j] = s[Nth(j)] /\ s[Nth(j)] \in Entry
    <2>1. \A j \in 1 .. m : Nth(j) \in DOMAIN s
      BY <1>4
    <2>2. \A i \in DOMAIN s : s[i] \in Entry
      OBVIOUS
    <2> QED  BY <1>3, <2>1, <2>2
  <1>7. Without(s, c) \in Seq(Entry)
    BY <1>2, <1>3, <1>6
  <1>8. /\ g \in [DOMAIN Without(s, c) -> DOMAIN s]
        /\ \A j \in DOMAIN Without(s, c) : Without(s, c)[j] = s[g[j]]
        /\ \A i, j \in DOMAIN Without(s, c) : i < j => g[i] < g[j]
        /\ \A j \in DOMAIN Without(s, c) : s[g[j]].id # c
        /\ \A i \in DOMAIN s : s[i].id # c =>
              \E j \in DOMAIN Without(s, c) : g[j] = i
    <2> USE DEF g
    <2>1. \A j \in 1 .. m : Nth(j) \in DOMAIN s /\ s[Nth(j)].id # c
      BY <1>4
    <2>2. \A i \in DOMAIN s : s[i].id # c => \E j \in 1 .. m : Nth(j) = i
      BY <1>9
    <2> HIDE DEF keep
    <2> QED  BY <1>5, <1>6, <2>1, <2>2
  <1>10. Len(Without(s, c)) = Cardinality(keep)
    BY <1>2, <1>6, <1>7 DEF m
  <1> QED
    <2>1. \E h \in [DOMAIN Without(s, c) -> DOMAIN s] :
            /\ \A j \in DOMAIN Without(s, c) : Without(s, c)[j] = s[h[j]]
            /\ \A i, j \in DOMAIN Without(s, c) : i < j => h[i] < h[j]
            /\ \A j \in DOMAIN Without(s, c) : s[h[j]].id # c
            /\ \A i \in DOMAIN s : s[i].id # c =>
                  \E j \in DOMAIN Without(s, c) : h[j] = i
      <3> HIDE DEF keep, n
      <3>1. \A j \in DOMAIN Without(s, c) : Without(s, c)[j] = s[g[j]]
        BY <1>6, <1>8 DEF g
      <3> QED  BY <1>8, <3>1
    <2> QED  BY <1>7, <1>10, <2>1

LEMMA RemoveAtFacts ==
    ASSUME NEW S, NEW s \in Seq(S), NEW p \in 1 .. Len(s)
    PROVE  /\ RemoveAt(s, p) \in Seq(S)
           /\ Len(RemoveAt(s, p)) = Len(s) - 1
           /\ \A j \in 1 .. Len(s) - 1 :
                RemoveAt(s, p)[j] = IF j < p THEN s[j] ELSE s[j + 1]
  <1> DEFINE u == SubSeq(s, 1, p - 1)
             v == SubSeq(s, p + 1, Len(s))
  <1>1. /\ u \in Seq(S)
        /\ Len(u) = p - 1
        /\ \A j \in 1 .. p - 1 : u[j] = s[j]
    OBVIOUS
  <1>2. /\ v \in Seq(S)
        /\ Len(v) = Len(s) - p
        /\ \A j \in 1 .. Len(s) - p : v[j] = s[p + j]
    OBVIOUS
  <1>3. RemoveAt(s, p) = u \o v
    BY DEF RemoveAt
  <1> HIDE DEF u, v
  <1>4. /\ u \o v \in Seq(S)
        /\ Len(u \o v) = Len(u) + Len(v)
        /\ \A j \in 1 .. Len(u) + Len(v) :
             (u \o v)[j] = IF j <= Len(u) THEN u[j] ELSE v[j - Len(u)]
    BY <1>1, <1>2, ConcatProperties
  <1>5. Len(u) + Len(v) = Len(s) - 1
    BY <1>1, <1>2
  <1>6. ASSUME NEW j \in 1 .. Len(s) - 1
        PROVE  RemoveAt(s, p)[j] = IF j < p THEN s[j] ELSE s[j + 1]
    <2>1. CASE j < p
      BY <1>1, <1>3, <1>4, <1>5, <2>1
    <2>2. CASE ~(j < p)
      <3>1. j - (p - 1) \in 1 .. Len(s) - p /\ ~(j <= p - 1)
        BY <2>2
      <3>2. (u \o v)[j] = v[j - (p - 1)]
        BY <1>1, <1>4, <1>5, <3>1
      <3>3. v[j - (p - 1)] = s[p + (j - (p - 1))]
        BY <1>2, <3>1
      <3>4. p + (j - (p - 1)) = j + 1
        OBVIOUS
      <3> QED  BY <1>3, <2>2, <3>2, <3>3, <3>4
    <2> QED  BY <2>1, <2>2
  <1> QED  BY <1>3, <1>4, <1>5, <1>6

LEMMA FirstIndexFacts ==
    ASSUME NEW s \in Seq(Entry), NEW c \in Ids(s)
    PROVE  FirstIndex(s, c) \in DOMAIN s /\ s[FirstIndex(s, c)].id = c
  <1> DEFINE S == {i \in DOMAIN s : s[i].id = c}
  <1>1. S \subseteq Nat /\ S # {}
    BY DEF Ids
  <1>2. PICK m \in S : \A i \in S : m <= i
    <2> HIDE DEF S
    <2> QED  BY <1>1, LeastNatural
  <1>3. s[m].id = c /\ m \in DOMAIN s /\ \A h \in 1 .. m - 1 : s[h].id # c
    <2>1. ASSUME NEW h \in 1 .. m - 1
          PROVE  s[h].id # c
      <3>1. h \in DOMAIN s /\ ~(m <= h)
        BY <1>2
      <3> QED  BY <1>2, <3>1
    <2> QED  BY <1>2, <2>1
  <1> QED  BY <1>3 DEF FirstIndex

\* The victim of a ping is one of the entries of the snapshot.
LEMMA LeastRecentFacts ==
    ASSUME NEW s \in Seq(Entry), Len(s) > 0
    PROVE  LeastRecent(s).id \in Ids(s)
  <1> DEFINE S == {s[i].seen : i \in DOMAIN s}
  <1>1. DOMAIN s = 1 .. Len(s) /\ \A i \in DOMAIN s : s[i].seen \in Nat
    <2>1. \A i \in DOMAIN s : s[i] \in Entry
      OBVIOUS
    <2> QED  BY <2>1 DEF Entry
  <1>2. PICK m \in S : \A x \in S : m <= x
    <2>1. S \subseteq Nat /\ S # {}
      BY <1>1
    <2> HIDE DEF S
    <2> QED  BY <2>1, LeastNatural
  <1> DEFINE T == {i \in DOMAIN s : s[i].seen = m}
  <1>3. PICK i \in T : \A h \in T : i <= h
    <2>1. T \subseteq Nat /\ T # {}
      BY <1>1, <1>2
    <2> HIDE DEF T
    <2> QED  BY <2>1, LeastNatural
  <1>4. /\ i \in DOMAIN s
        /\ \A h \in DOMAIN s : s[i].seen <= s[h].seen
        /\ \A h \in 1 .. i - 1 : s[i].seen < s[h].seen
    <2>1. \A h \in DOMAIN s : m <= s[h].seen
      BY <1>2
    <2>2. ASSUME NEW h \in 1 .. i - 1
          PROVE  s[i].seen < s[h].seen
      <3>1. h \in DOMAIN s /\ ~(i <= h)
        BY <1>1, <1>3
      <3>2. h \notin T
        BY <1>3, <3>1
      <3> QED  BY <1>1, <1>2, <1>3, <2>1, <3>1, <3>2
    <2> QED  BY <1>3, <2>1, <2>2
  <1>5. \E h \in DOMAIN s : LeastRecent(s) = s[h]
    BY <1>4 DEF LeastRecent
  <1> QED  BY <1>5 DEF Ids

-----------------------------------------------------------------------------
(* The contacts of a changed bucket, and how many entries it has.          *)

LEMMA EntriesTyped ==
    ASSUME NEW s \in Seq(Entry)
    PROVE  \A i \in DOMAIN s : s[i] \in Entry /\ s[i].id \in Contact
  <1>1. \A i \in DOMAIN s : s[i] \in Entry
    OBVIOUS
  <1> QED  BY <1>1 DEF Entry

LEMMA AppendFacts ==
    ASSUME NEW s \in Seq(Entry), NEW e \in Entry
    PROVE  /\ Append(s, e) \in Seq(Entry)
           /\ Len(Append(s, e)) = Len(s) + 1
           /\ Ids(Append(s, e)) = Ids(s) \cup {e.id}
           /\ (NoDuplicatesIn(s) /\ e.id \notin Ids(s)) => NoDuplicatesIn(Append(s, e))
  <1> DEFINE u == Append(s, e)
  <1>1. /\ u \in Seq(Entry) /\ Len(u) = Len(s) + 1
        /\ DOMAIN u = 1 .. Len(s) + 1 /\ DOMAIN s = 1 .. Len(s)
        /\ \A i \in DOMAIN s : u[i] = s[i]
        /\ u[Len(s) + 1] = e
        /\ Len(s) \in Nat
    OBVIOUS
  <1> HIDE DEF u
  <1>2. \A i \in DOMAIN u : i \in DOMAIN s \/ i = Len(s) + 1
    BY <1>1
  <1>3. Ids(u) = Ids(s) \cup {e.id}
    <2>1. Ids(u) \subseteq Ids(s) \cup {e.id}
      BY <1>1, <1>2 DEF Ids
    <2>2. \A i \in DOMAIN s : i \in DOMAIN u
      BY <1>1
    <2>3. Len(s) + 1 \in DOMAIN u
      BY <1>1
    <2>4. Ids(s) \subseteq Ids(u) /\ e.id \in Ids(u)
      BY <1>1, <2>2, <2>3 DEF Ids
    <2> QED  BY <2>1, <2>4
  <1>4. ASSUME NoDuplicatesIn(s), e.id \notin Ids(s)
        PROVE  NoDuplicatesIn(u)
    <2>1. \A i \in DOMAIN s : u[i].id # e.id
      BY <1>1, <1>4 DEF Ids
    <2> QED  BY <1>1, <1>2, <1>4, <2>1 DEF NoDuplicatesIn
  <1> QED  BY <1>1, <1>3, <1>4 DEF u

LEMMA WithoutFacts ==
    ASSUME NEW s \in Seq(Entry), NEW c
    PROVE  /\ Without(s, c) \in Seq(Entry)
           /\ Ids(Without(s, c)) = Ids(s) \ {c}
           /\ NoDuplicatesIn(s) =>
                /\ NoDuplicatesIn(Without(s, c))
                /\ Len(Without(s, c)) = IF c \in Ids(s) THEN Len(s) - 1 ELSE Len(s)
  <1> DEFINE u == Without(s, c)
             keep == {i \in DOMAIN s : s[i].id # c}
  <1>1. u \in Seq(Entry) /\ Len(u) = Cardinality(keep)
    BY WithoutIsSubsequence
  <1>2. PICK g \in [DOMAIN u -> DOMAIN s] :
          /\ \A j \in DOMAIN u : u[j] = s[g[j]]
          /\ \A i, j \in DOMAIN u : i < j => g[i] < g[j]
          /\ \A j \in DOMAIN u : s[g[j]].id # c
          /\ \A i \in DOMAIN s : s[i].id # c => \E j \in DOMAIN u : g[j] = i
    BY WithoutIsSubsequence
  <1> HIDE DEF u
  <1>3. Ids(u) = Ids(s) \ {c}
    <2>1. Ids(u) \subseteq Ids(s) \ {c}
      BY <1>2 DEF Ids
    <2>2. ASSUME NEW i \in DOMAIN s, s[i].id # c
          PROVE  s[i].id \in Ids(u)
      BY <1>2, <2>2 DEF Ids
    <2>3. Ids(s) \ {c} \subseteq Ids(u)
      BY <2>2 DEF Ids
    <2> QED  BY <2>1, <2>3
  <1>4. ASSUME NoDuplicatesIn(s)
        PROVE  NoDuplicatesIn(u)
    <2> SUFFICES ASSUME NEW i \in DOMAIN u, NEW j \in DOMAIN u, u[i].id = u[j].id
                 PROVE  i = j
      BY DEF NoDuplicatesIn
    <2>1. g[i] = g[j]
      BY <1>2, <1>4 DEF NoDuplicatesIn
    <2>2. i \in Nat /\ j \in Nat /\ g[i] \in Nat
      BY <1>1
    <2>3. ~(i < j) /\ ~(j < i)
      BY <1>2, <2>1, <2>2
    <2> QED  BY <2>2, <2>3
  <1>5. ASSUME NoDuplicatesIn(s)
        PROVE  Len(u) = IF c \in Ids(s) THEN Len(s) - 1 ELSE Len(s)
    <2>1. IsFiniteSet(DOMAIN s) /\ Cardinality(DOMAIN s) = Len(s) /\ Len(s) \in Nat
      <3>1. DOMAIN s = 1 .. Len(s) /\ Len(s) \in Nat
        OBVIOUS
      <3> DEFINE n == Len(s)
      <3>2. n \in Nat
        BY <3>1
      <3> HIDE DEF n
      <3>3. IsFiniteSet(1 .. n)
        BY <3>2, FS_Interval
      <3>4. Cardinality(1 .. n) = n
        <4>1. Cardinality(1 .. n) = IF 1 > n THEN 0 ELSE n - 1 + 1
          BY <3>2, FS_Interval
        <4> QED  BY <3>2, <4>1
      <3> QED  BY <3>1, <3>3, <3>4 DEF n
    <2>2. CASE c \notin Ids(s)
      <3>1. keep = DOMAIN s
        BY <2>2 DEF Ids
      <3> QED  BY <1>1, <2>1, <2>2, <3>1
    <2>3. CASE c \in Ids(s)
      <3>1. PICK p \in DOMAIN s : s[p].id = c
        BY <2>3 DEF Ids
      <3>2. keep = DOMAIN s \ {p}
        BY <1>5, <3>1 DEF NoDuplicatesIn
      <3>3. Cardinality(DOMAIN s \ {p}) = Cardinality(DOMAIN s) - 1
        BY <2>1, <3>1, FS_RemoveElement
      <3> QED  BY <1>1, <2>1, <2>3, <3>2, <3>3
    <2> QED  BY <2>2, <2>3
  <1> QED  BY <1>1, <1>3, <1>4, <1>5 DEF u

\* Moving a contact to the end drops nobody.
LEMMA MovedToEndFacts ==
    ASSUME NEW s \in Seq(Entry), NEW c \in Contact, NEW t \in Nat
    PROVE  /\ Ids(MovedToEnd(s, c, t)) = Ids(s) \cup {c}
           /\ NoDuplicatesIn(s) =>
                /\ NoDuplicatesIn(MovedToEnd(s, c, t))
                /\ Len(MovedToEnd(s, c, t)) =
                      IF c \in Ids(s) THEN Len(s) ELSE Len(s) + 1
  <1> DEFINE u == Without(s, c)
             e == [id |-> c, seen |-> t]
  <1>1. e \in Entry /\ e.id = c
    BY DEF Entry
  <1>2. /\ u \in Seq(Entry)
        /\ Ids(u) = Ids(s) \ {c}
        /\ NoDuplicatesIn(s) =>
             /\ NoDuplicatesIn(u)
             /\ Len(u) = IF c \in Ids(s) THEN Len(s) - 1 ELSE Len(s)
    BY WithoutFacts
  <1> HIDE DEF u, e
  <1>3. /\ Len(Append(u, e)) = Len(u) + 1
        /\ Ids(Append(u, e)) = Ids(u) \cup {e.id}
        /\ (NoDuplicatesIn(u) /\ e.id \notin Ids(u)) => NoDuplicatesIn(Append(u, e))
    BY <1>1, <1>2, AppendFacts
  <1>4. MovedToEnd(s, c, t) = Append(u, e)
    BY DEF MovedToEnd, u, e
  <1>5. Len(s) \in Nat
    OBVIOUS
  <1> QED  BY <1>1, <1>2, <1>3, <1>4, <1>5

\* Replacing drops one entry of the old contact, and no other contact.
LEMMA ReplacedFacts ==
    ASSUME NEW s \in Seq(Entry), NEW old \in Ids(s), NEW new \in Contact
    PROVE  /\ Ids(s) \ {old} \subseteq Ids(Replaced(s, old, new))
           /\ new \in Ids(Replaced(s, old, new))
           /\ Len(Replaced(s, old, new)) = Len(s)
           /\ NoDuplicatesIn(s) =>
                Ids(Replaced(s, old, new)) = (Ids(s) \ {old}) \cup {new}
           /\ (NoDuplicatesIn(s) /\ new \notin Ids(s)) =>
                NoDuplicatesIn(Replaced(s, old, new))
  <1> DEFINE p == FirstIndex(s, old)
             u == RemoveAt(s, p)
             e == [id |-> new, seen |-> Never]
  <1>1. e \in Entry /\ e.id = new
    BY DEF Entry, Never
  <1>2. p \in 1 .. Len(s) /\ s[p].id = old /\ Len(s) \in Nat /\ DOMAIN s = 1 .. Len(s)
    BY FirstIndexFacts
  <1> HIDE DEF p, e
  <1>3. /\ u \in Seq(Entry)
        /\ Len(u) = Len(s) - 1
        /\ \A j \in 1 .. Len(s) - 1 : u[j] = IF j < p THEN s[j] ELSE s[j + 1]
    BY <1>2, RemoveAtFacts
  <1> HIDE DEF u
  <1>4. DOMAIN u = 1 .. Len(s) - 1
    BY <1>2, <1>3
  <1>5. /\ Len(Append(u, e)) = Len(u) + 1
        /\ Ids(Append(u, e)) = Ids(u) \cup {e.id}
        /\ (NoDuplicatesIn(u) /\ e.id \notin Ids(u)) => NoDuplicatesIn(Append(u, e))
    BY <1>1, <1>3, AppendFacts
  <1>6. Replaced(s, old, new) = Append(u, e)
    BY DEF Replaced, u, p, e
  <1>7. Ids(s) \ {old} \subseteq Ids(u)
    <2>1. ASSUME NEW i \in DOMAIN s, s[i].id # old
          PROVE  s[i].id \in Ids(u)
      <3>1. i \in 1 .. Len(s) /\ i # p
        BY <1>2, <2>1
      <3>2. CASE i < p
        <4>1. i \in 1 .. Len(s) - 1
          BY <1>2, <3>1, <3>2
        <4>2. u[i] = s[i]
          BY <1>3, <3>2, <4>1
        <4> QED  BY <1>4, <4>1, <4>2 DEF Ids
      <3>3. CASE ~(i < p)
        <4>1. i - 1 \in 1 .. Len(s) - 1 /\ ~(i - 1 < p) /\ (i - 1) + 1 = i
          BY <1>2, <3>1, <3>3
        <4>2. u[i - 1] = s[i]
          BY <1>3, <4>1
        <4> QED  BY <1>4, <4>1, <4>2 DEF Ids
      <3> QED  BY <3>2, <3>3
    <2> QED  BY <2>1 DEF Ids
  <1> DEFINE g == [j \in DOMAIN u |-> IF j < p THEN j ELSE j + 1]
  <1>8. /\ \A j \in DOMAIN u : g[j] \in DOMAIN s /\ u[j] = s[g[j]] /\ g[j] # p
        /\ \A i, j \in DOMAIN u : g[i] = g[j] => i = j
    BY <1>2, <1>3, <1>4
  <1> HIDE DEF g
  <1>9. ASSUME NoDuplicatesIn(s)
        PROVE  NoDuplicatesIn(u) /\ Ids(u) = Ids(s) \ {old}
    <2>1. NoDuplicatesIn(u)
      BY <1>8, <1>9 DEF NoDuplicatesIn
    <2>2. ASSUME NEW j \in DOMAIN u
          PROVE  u[j].id \in Ids(s) \ {old}
      <3>1. s[g[j]].id # s[p].id
        BY <1>2, <1>8, <1>9 DEF NoDuplicatesIn
      <3> QED  BY <1>2, <1>8, <3>1 DEF Ids
    <2>3. Ids(u) \subseteq Ids(s) \ {old}
      BY <2>2 DEF Ids
    <2> QED  BY <1>7, <2>1, <2>3
  <1> DEFINE r == Replaced(s, old, new)
  <1>10. Ids(r) = Ids(u) \cup {new}
    BY <1>1, <1>5, <1>6
  <1>11. Len(r) = Len(s)
    <2>1. Len(r) = Len(u) + 1
      BY <1>5, <1>6
    <2> QED  BY <1>2, <1>3, <2>1
  <1>12. (NoDuplicatesIn(u) /\ new \notin Ids(u)) => NoDuplicatesIn(r)
    BY <1>1, <1>5, <1>6
  <1> HIDE DEF r
  <1>13. Ids(s) \ {old} \subseteq Ids(r) /\ new \in Ids(r)
    BY <1>7, <1>10
  <1>14. ASSUME NoDuplicatesIn(s)
         PROVE  Ids(r) = (Ids(s) \ {old}) \cup {new}
    BY <1>9, <1>10, <1>14
  <1>15. ASSUME NoDuplicatesIn(s), new \notin Ids(s)
         PROVE  NoDuplicatesIn(r)
    BY <1>9, <1>12, <1>15
  <1> QED  BY <1>11, <1>13, <1>14, <1>15 DEF r

-----------------------------------------------------------------------------
(* Type correctness and recency order, for every interleaving.             *)

\* What every bucket satisfies at time t.
BucketOK(s, t) ==
    /\ s \in Seq(Entry)
    /\ SortedBySeen(s)
    /\ \A i \in DOMAIN s : s[i].seen <= t

LEMMA SubsequenceOK ==
    ASSUME NEW t \in Nat, NEW s, BucketOK(s, t), NEW u \in Seq(Entry),
           NEW g \in [DOMAIN u -> DOMAIN s],
           \A j \in DOMAIN u : u[j] = s[g[j]],
           \A i, j \in DOMAIN u : i < j => g[i] < g[j]
    PROVE  BucketOK(u, t)
  <1>1. \A i \in DOMAIN u : g[i] \in DOMAIN s
    OBVIOUS
  <1>2. SortedBySeen(u)
    BY <1>1 DEF BucketOK, SortedBySeen
  <1>3. \A i \in DOMAIN u : u[i].seen <= t
    BY <1>1 DEF BucketOK
  <1> QED  BY <1>2, <1>3 DEF BucketOK

\* An entry may be appended if it was just seen, or only added.
LEMMA AppendOK ==
    ASSUME NEW t \in Nat, NEW s, BucketOK(s, t), NEW e \in Entry,
           e.seen = t \/ e.seen = Never
    PROVE  BucketOK(Append(s, e), t)
  <1> DEFINE u == Append(s, e)
  <1>1. /\ s \in Seq(Entry) /\ u \in Seq(Entry)
        /\ DOMAIN u = 1 .. Len(s) + 1 /\ DOMAIN s = 1 .. Len(s)
        /\ \A i \in DOMAIN s : u[i] = s[i]
        /\ u[Len(s) + 1] = e
        /\ Len(s) \in Nat
    BY DEF BucketOK
  <1> HIDE DEF u
  <1>2. \A i \in DOMAIN s : s[i].seen <= t
    BY DEF BucketOK
  <1>3. \A i \in DOMAIN u : i \in DOMAIN s \/ i = Len(s) + 1
    BY <1>1
  <1>4. SortedBySeen(u)
    <2> SUFFICES ASSUME NEW i \in DOMAIN u, NEW j \in DOMAIN u, i < j,
                        u[j].seen # Never
                 PROVE  u[i].seen <= u[j].seen
      BY DEF SortedBySeen
    <2>1. i \in DOMAIN s
      BY <1>1
    <2>2. CASE j \in DOMAIN s
      BY <1>1, <2>1, <2>2 DEF BucketOK, SortedBySeen
    <2>3. CASE j = Len(s) + 1
      BY <1>1, <1>2, <2>1, <2>3
    <2> QED  BY <1>3, <2>2, <2>3
  <1>5. \A i \in DOMAIN u : u[i].seen <= t
    BY <1>1, <1>2, <1>3 DEF Never
  <1> QED  BY <1>1, <1>4, <1>5 DEF BucketOK, u

LEMMA MovedToEndOK ==
    ASSUME NEW t \in Nat, NEW s, BucketOK(s, t), NEW c \in Contact
    PROVE  BucketOK(MovedToEnd(s, c, t), t)
  <1>1. s \in Seq(Entry)
    BY DEF BucketOK
  <1>2. Without(s, c) \in Seq(Entry)
    BY <1>1, WithoutIsSubsequence
  <1> DEFINE u == Without(s, c)
  <1>3. BucketOK(u, t)
    <2>1. PICK g \in [DOMAIN u -> DOMAIN s] :
            /\ \A j \in DOMAIN u : u[j] = s[g[j]]
            /\ \A i, j \in DOMAIN u : i < j => g[i] < g[j]
      BY <1>1, WithoutIsSubsequence
    <2>2. u \in Seq(Entry)
      BY <1>2
    <2> HIDE DEF u
    <2> QED  BY <2>1, <2>2, SubsequenceOK
  <1>4. [id |-> c, seen |-> t] \in Entry
    BY DEF Entry
  <1> QED  BY <1>3, <1>4, AppendOK DEF MovedToEnd

LEMMA ReplacedOK ==
    ASSUME NEW t \in Nat, NEW s, BucketOK(s, t),
           NEW old \in Ids(s), NEW new \in Contact
    PROVE  BucketOK(Replaced(s, old, new), t)
  <1> DEFINE p == FirstIndex(s, old)
             u == RemoveAt(s, p)
             g == [j \in DOMAIN u |-> IF j < p THEN j ELSE j + 1]
  <1>1. s \in Seq(Entry)
    BY DEF BucketOK
  <1>2. p \in 1 .. Len(s)
    BY <1>1, FirstIndexFacts
  <1> HIDE DEF p
  <1>3. /\ u \in Seq(Entry)
        /\ Len(u) = Len(s) - 1
        /\ \A j \in 1 .. Len(s) - 1 : u[j] = IF j < p THEN s[j] ELSE s[j + 1]
    BY <1>1, <1>2, RemoveAtFacts
  <1> HIDE DEF u
  <1>4. DOMAIN u = 1 .. Len(s) - 1 /\ DOMAIN s = 1 .. Len(s)
    BY <1>1, <1>3
  <1>5. /\ g \in [DOMAIN u -> DOMAIN s]
        /\ \A j \in DOMAIN u : u[j] = s[g[j]]
        /\ \A i, j \in DOMAIN u : i < j => g[i] < g[j]
    BY <1>1, <1>2, <1>3, <1>4
  <1> HIDE DEF g
  <1>6. BucketOK(u, t)
    BY <1>3, <1>5, SubsequenceOK
  <1>7. [id |-> new, seen |-> Never] \in Entry
    BY DEF Entry, Never
  <1> QED  BY <1>6, <1>7, AppendOK DEF Replaced, u, p

LEMMA LaterOK ==
    ASSUME NEW t \in Nat, NEW s, BucketOK(s, t)
    PROVE  BucketOK(s, t + 1)
  <1>1. \A i \in DOMAIN s : s[i] \in Entry
    BY DEF BucketOK
  <1>2. \A i \in DOMAIN s : s[i].seen \in Nat
    BY <1>1 DEF Entry
  <1> QED  BY <1>2 DEF BucketOK

\* The pings in flight, without what they do to a bucket.
PingsOK ==
    /\ incoming \in [Thread -> Contact \cup {NoContact}]
    /\ victim \in [Thread -> Contact \cup {NoContact}]
    /\ \A t \in Thread : victim[t] = NoContact <=> ~Pings(t)

\* The strengthening of RecencyOrder: nothing was seen in the future, without
\* which an entry refreshed at the present time could not be last.
IInv ==
    /\ DOMAIN buckets = Bucket /\ buckets = [b \in Bucket |-> buckets[b]]
    /\ \A b \in Bucket : BucketOK(buckets[b], now)
    /\ PingsOK
    /\ now \in Nat \ {Never}

HistoryOK == overlapped \in BOOLEAN

LEMMA IInvImplies == IInv => (HistoryOK => TypeOK) /\ RecencyOrder
  BY DEF HistoryOK,  IInv, BucketOK, TypeOK, RecencyOrder, PingsOK

LEMMA InitIInv == Init => IInv
  <1> SUFFICES ASSUME Init PROVE IInv
    OBVIOUS
  <1>1. <<>> \in Seq(Entry)
    OBVIOUS
  <1>2. \A b \in Bucket : BucketOK(buckets[b], now)
    BY <1>1 DEF Init, BucketOK, SortedBySeen
  <1> QED  BY <1>2 DEF Init, IInv, PingsOK, Pings, Never

\* A step that changes one bucket into one that is fine, and nothing else of
\* the table.
LEMMA BucketChanged ==
    ASSUME IInv, NEW b \in Bucket, NEW s, BucketOK(s, now),
           buckets' = [buckets EXCEPT ![b] = s], now' = now, PingsOK'
    PROVE  IInv'
  <1>1. \A a \in Bucket : BucketOK(buckets'[a], now)
    BY DEF IInv
  <1>2. DOMAIN buckets' = Bucket /\ buckets' = [a \in Bucket |-> buckets'[a]]
    BY DEF IInv
  <1>3. \A a \in Bucket : BucketOK(buckets'[a], now')
    BY <1>1
  <1> QED  BY <1>2, <1>3 DEF IInv

LEMMA ReturnOK ==
    ASSUME PingsOK, NEW t \in Thread, Return(t)
    PROVE  PingsOK'
  BY DEF PingsOK, Return, Pings

LEMMA NextIInv == IInv /\ [Next]_vars => IInv'
  <1> SUFFICES ASSUME IInv, [Next]_vars PROVE IInv'
    OBVIOUS
  <1> USE BucketOfAssumption, NoContactAssumption
  <1>0. PingsOK /\ now \in Nat
    BY DEF IInv
  <1>1. CASE Tick
    <2>1. PingsOK'
      BY <1>0, <1>1 DEF Tick, PingsOK, Pings
    <2>2. \A b \in Bucket : BucketOK(buckets[b], now + 1)
      BY <1>0, LaterOK DEF IInv
    <2> QED  BY <1>0, <1>1, <2>1, <2>2 DEF Tick, IInv, Never, BucketOK
  <1>2. ASSUME NEW t \in Thread, NEW c \in Contact, SeeKnown(t, c)
        PROVE  IInv'
    <2> DEFINE b == BucketOf[c]
    <2>1. b \in Bucket
      OBVIOUS
    <2>2. BucketOK(MovedToEnd(buckets[b], c, now), now)
      BY <1>0, <2>1, MovedToEndOK DEF IInv
    <2>3. PingsOK'
      BY <1>0, <1>2 DEF SeeKnown, PingsOK, Pings
    <2> QED  BY <1>2, <2>1, <2>2, <2>3, BucketChanged DEF SeeKnown
  <1>3. ASSUME NEW t \in Thread, NEW c \in Contact, AddNew(t, c)
        PROVE  IInv'
    <2> DEFINE b == BucketOf[c]
               e == [id |-> c, seen |-> Never]
    <2>1. b \in Bucket /\ e \in Entry
      BY DEF Entry, Never
    <2>2. BucketOK(Append(buckets[b], e), now)
      BY <1>0, <2>1, AppendOK DEF IInv
    <2>3. PingsOK'
      BY <1>0, <1>3 DEF AddNew, PingsOK, Pings
    <2> QED  BY <1>3, <2>1, <2>2, <2>3, BucketChanged DEF AddNew
  <1>4. ASSUME NEW t \in Thread, NEW c \in Contact, PingLeastRecent(t, c)
        PROVE  IInv'
    <2> DEFINE s == buckets[BucketOf[c]]
    <2>1. s \in Seq(Entry) /\ Len(s) > 0
      BY <1>4, KAssumption DEF PingLeastRecent, HasRoom, IInv, BucketOK
    <2>2. LeastRecent(s).id \in Contact
      <3>1. LeastRecent(s).id \in Ids(s)
        BY <2>1, LeastRecentFacts
      <3>2. \A i \in DOMAIN s : s[i] \in Entry
        BY <2>1
      <3> QED  BY <3>1, <3>2 DEF Ids, Entry
    <2>3. PingsOK'
      BY <1>0, <1>4, <2>2 DEF PingLeastRecent, PingsOK, Pings
    <2> QED  BY <1>4, <2>3 DEF PingLeastRecent, IInv, BucketOK
  <1>5. ASSUME NEW t \in Thread, PingFails(t)
        PROVE  IInv'
    <2> DEFINE b == BucketOf[incoming[t]]
    <2>1. incoming[t] \in Contact /\ b \in Bucket
      BY <1>0, <1>5 DEF PingFails, PingsOK, Pings
    <2>2. PingsOK'
      BY <1>0, <1>5, ReturnOK DEF PingFails
    <2>3. CASE victim[t] \in Ids(buckets[b])
      <3>1. BucketOK(Replaced(buckets[b], victim[t], incoming[t]), now)
        BY <1>0, <2>1, <2>3, ReplacedOK DEF IInv
      <3> QED  BY <1>5, <2>1, <2>2, <2>3, <3>1, BucketChanged DEF PingFails
    <2>4. CASE victim[t] \notin Ids(buckets[b])
      BY <1>5, <2>2, <2>4 DEF PingFails, IInv, BucketOK
    <2> QED  BY <2>3, <2>4
  <1>6. ASSUME NEW t \in Thread, PingAnswered(t)
        PROVE  IInv'
    <2> DEFINE b == BucketOf[incoming[t]]
    <2>1. /\ incoming[t] \in Contact /\ victim[t] \in Contact /\ b \in Bucket
      BY <1>0, <1>6 DEF PingAnswered, PingsOK, Pings
    <2>2. PingsOK'
      BY <1>0, <1>6, ReturnOK DEF PingAnswered
    <2>3. BucketOK(MovedToEnd(buckets[b], victim[t], now), now)
      BY <1>0, <2>1, MovedToEndOK DEF IInv
    <2> QED  BY <1>6, <2>1, <2>2, <2>3, BucketChanged DEF PingAnswered
  <1>7. CASE UNCHANGED vars
    BY <1>7 DEF vars, IInv, BucketOK, PingsOK, Pings
  <1> QED  BY <1>1, <1>2, <1>3, <1>4, <1>5, <1>6, <1>7 DEF Next, NewContact

THEOREM Inductive == Spec => []IInv
  BY InitIInv, NextIInv, PTL DEF Spec

\* The table is well typed, whatever the interleaving of calls and pings.
THEOREM TypeCorrect == Spec => []TypeOK
  <1>1. Init => HistoryOK
    BY DEF Init, HistoryOK
  <1>2. HistoryOK /\ [Next]_vars => HistoryOK'
    <2> SUFFICES ASSUME HistoryOK, [Next]_vars PROVE HistoryOK'
      OBVIOUS
    <2>1. ASSUME NEW t \in Thread, NEW c \in Contact, PingLeastRecent(t, c)
          PROVE  HistoryOK'
      BY <2>1 DEF PingLeastRecent, HistoryOK
    <2>2. CASE UNCHANGED overlapped
      BY <2>2 DEF HistoryOK
    <2> QED
      BY <2>1, <2>2
      DEF Next, NewContact, Tick, SeeKnown, AddNew, PingFails, PingAnswered, vars
  <1> QED  BY <1>1, <1>2, Inductive, IInvImplies, PTL DEF Spec

\* The contacts of a bucket that have been heard from are in the order they
\* were last heard from, whatever the interleaving of calls and pings.
THEOREM RecencyOrderHolds == Spec => []RecencyOrder
  BY Inductive, IInvImplies, PTL

-----------------------------------------------------------------------------
(* What a step may do to a bucket, for every interleaving.                 *)

\* The bucket a call works on, with its contents.
LEMMA BucketTyped ==
    ASSUME IInv, NEW c \in Contact
    PROVE  /\ BucketOf[c] \in Bucket
           /\ buckets[BucketOf[c]] \in Seq(Entry)
           /\ DOMAIN buckets = Bucket
           /\ now \in Nat
  BY BucketOfAssumption DEF IInv, BucketOK

LEMMA PingTyped ==
    ASSUME IInv, NEW t \in Thread, Pings(t)
    PROVE  incoming[t] \in Contact /\ victim[t] \in Contact
  BY DEF IInv, PingsOK, Pings

\* Nobody leaves a bucket, and a full one without duplicates stays full.
Kept(s, u) ==
    /\ Ids(s) \subseteq Ids(u)
    /\ NoDuplicatesIn(s) /\ Len(s) >= K => Len(u) >= K

LEMMA MoveKeeps ==
    ASSUME NEW s \in Seq(Entry), NEW c \in Contact, NEW t \in Nat
    PROVE  Kept(s, MovedToEnd(s, c, t))
  <1> DEFINE u == MovedToEnd(s, c, t)
  <1>1. /\ Ids(u) = Ids(s) \cup {c}
        /\ NoDuplicatesIn(s) => Len(u) = IF c \in Ids(s) THEN Len(s) ELSE Len(s) + 1
    BY MovedToEndFacts
  <1>2. Len(s) \in Nat
    OBVIOUS
  <1> HIDE DEF u
  <1>3. NoDuplicatesIn(s) => Len(u) >= Len(s) /\ Len(u) \in Nat
    BY <1>1, <1>2
  <1>4. NoDuplicatesIn(s) /\ Len(s) >= K => Len(u) >= K
    BY <1>2, <1>3, KAssumption
  <1> QED  BY <1>1, <1>4 DEF Kept, u

LEMMA AppendKeeps ==
    ASSUME NEW s \in Seq(Entry), NEW e \in Entry
    PROVE  Kept(s, Append(s, e))
  <1>1. Ids(Append(s, e)) = Ids(s) \cup {e.id} /\ Len(Append(s, e)) = Len(s) + 1
    BY AppendFacts
  <1>2. Len(s) \in Nat
    OBVIOUS
  <1>3. Len(s) >= K => Len(Append(s, e)) >= K
    BY <1>1, <1>2, KAssumption
  <1> QED  BY <1>1, <1>3 DEF Kept

\* Every step keeps every bucket, or is a failed ping that replaces the victim
\* in the bucket of the new contact and keeps the others.
LEMMA StepKeeps ==
    ASSUME IInv, [Next]_vars
    PROVE  \/ \A b \in Bucket : Kept(buckets[b], buckets'[b])
           \/ \E t \in Thread :
                LET b == BucketOf[incoming[t]] IN
                /\ Pings(t) /\ ~Pings(t)'
                /\ victim[t] \in Ids(buckets[b])
                /\ buckets' = [buckets EXCEPT
                                 ![b] = Replaced(@, victim[t], incoming[t])]
  <1>0. \A s : Kept(s, s)
    BY DEF Kept
  <1>1. CASE UNCHANGED buckets
    BY <1>0, <1>1
  <1>2. ASSUME NEW t \in Thread, NEW c \in Contact, SeeKnown(t, c)
        PROVE  \A b \in Bucket : Kept(buckets[b], buckets'[b])
    <2> DEFINE b == BucketOf[c]
    <2>1. Kept(buckets[b], MovedToEnd(buckets[b], c, now))
      BY BucketTyped, MoveKeeps
    <2> QED  BY <1>0, <1>2, <2>1, BucketTyped DEF SeeKnown
  <1>3. ASSUME NEW t \in Thread, NEW c \in Contact, AddNew(t, c)
        PROVE  \A b \in Bucket : Kept(buckets[b], buckets'[b])
    <2> DEFINE b == BucketOf[c]
               e == [id |-> c, seen |-> Never]
    <2>1. e \in Entry
      BY DEF Entry, Never
    <2>2. Kept(buckets[b], Append(buckets[b], e))
      BY <2>1, BucketTyped, AppendKeeps
    <2> QED  BY <1>0, <1>3, <2>2, BucketTyped DEF AddNew
  <1>4. ASSUME NEW t \in Thread, PingAnswered(t)
        PROVE  \A b \in Bucket : Kept(buckets[b], buckets'[b])
    <2> DEFINE b == BucketOf[incoming[t]]
    <2>1. incoming[t] \in Contact /\ victim[t] \in Contact
      BY <1>4, PingTyped DEF PingAnswered
    <2>2. Kept(buckets[b], MovedToEnd(buckets[b], victim[t], now))
      BY <2>1, BucketTyped, MoveKeeps
    <2> QED  BY <1>0, <1>4, <2>1, <2>2, BucketTyped DEF PingAnswered
  <1>5. ASSUME NEW t \in Thread, PingFails(t), ~ UNCHANGED buckets
        PROVE  LET b == BucketOf[incoming[t]] IN
               /\ Pings(t) /\ ~Pings(t)'
               /\ victim[t] \in Ids(buckets[b])
               /\ buckets' = [buckets EXCEPT
                                ![b] = Replaced(@, victim[t], incoming[t])]
    <2>1. incoming'[t] = NoContact
      BY <1>5 DEF PingFails, Return, IInv, PingsOK
    <2> QED  BY <1>5, <2>1 DEF PingFails, Pings
  <1> QED  BY <1>1, <1>2, <1>3, <1>4, <1>5
           DEF Next, NewContact, Tick, PingLeastRecent, vars

LEMMA StepEvicts ==
    ASSUME IInv, [Next]_vars, NEW c \in Contact,
           c \in Ids(buckets[BucketOf[c]]), c \notin Ids(buckets'[BucketOf[c]])
    PROVE  \E t \in Thread : /\ Pings(t) /\ victim[t] = c
                             /\ ~Pings(t)'
                             /\ incoming[t] \in Ids(buckets'[BucketOf[c]])
  <1>1. BucketOf[c] \in Bucket
    BY BucketTyped
  <1>2. ~ \A b \in Bucket : Kept(buckets[b], buckets'[b])
    BY <1>1 DEF Kept
  <1>3. PICK t \in Thread :
          LET b == BucketOf[incoming[t]] IN
          /\ Pings(t) /\ ~Pings(t)'
          /\ victim[t] \in Ids(buckets[b])
          /\ buckets' = [buckets EXCEPT
                           ![b] = Replaced(@, victim[t], incoming[t])]
    BY <1>2, StepKeeps
  <1> DEFINE b == BucketOf[incoming[t]]
  <1>4. incoming[t] \in Contact
    BY <1>3, PingTyped
  <1>5. b \in Bucket /\ buckets[b] \in Seq(Entry) /\ DOMAIN buckets = Bucket
    BY <1>4, BucketTyped
  <1>6. BucketOf[c] = b
    BY <1>1, <1>3, <1>5
  <1>7. buckets'[b] = Replaced(buckets[b], victim[t], incoming[t])
    BY <1>3, <1>5
  <1>8. /\ Ids(buckets[b]) \ {victim[t]} \subseteq Ids(buckets'[b])
        /\ incoming[t] \in Ids(buckets'[b])
    BY <1>3, <1>4, <1>5, <1>7, ReplacedFacts
  <1> QED  BY <1>3, <1>6, <1>8

\* A contact leaves its bucket only when a ping of it fails, and the contact
\* that ping was for is then in the bucket: no interleaving of calls and
\* pings drops anybody else.
THEOREM EvictionFollows == Spec => EvictionFollowsFailedPing
  <1>1. IInv /\ [Next]_vars =>
          [\A c \in Contact : LET b == BucketOf[c] IN
             (c \in Ids(buckets[b]) /\ c \notin Ids(buckets'[b])) =>
                 \E t \in Thread : /\ Pings(t) /\ victim[t] = c
                                  /\ ~Pings(t)'
                                  /\ incoming[t] \in Ids(buckets'[b])]_vars
    BY StepEvicts
  <1> QED  BY <1>1, Inductive, PTL DEF Spec, EvictionFollowsFailedPing

LEMMA StepKeepsFull ==
    ASSUME IInv, [Next]_vars, NEW b \in Bucket,
           Len(buckets[b]) >= K, NoDuplicatesIn(buckets[b])
    PROVE  Len(buckets'[b]) >= K
  <1>1. CASE \A a \in Bucket : Kept(buckets[a], buckets'[a])
    BY <1>1 DEF Kept
  <1>2. ASSUME NEW t \in Thread, Pings(t),
               victim[t] \in Ids(buckets[BucketOf[incoming[t]]]),
               buckets' = [buckets EXCEPT ![BucketOf[incoming[t]]] =
                             Replaced(@, victim[t], incoming[t])]
        PROVE  Len(buckets'[b]) >= K
    <2> DEFINE a == BucketOf[incoming[t]]
    <2>1. incoming[t] \in Contact
      BY <1>2, PingTyped
    <2>2. a \in Bucket /\ buckets[a] \in Seq(Entry) /\ DOMAIN buckets = Bucket
      BY <2>1, BucketTyped
    <2>3. Len(Replaced(buckets[a], victim[t], incoming[t])) = Len(buckets[a])
      BY <1>2, <2>1, <2>2, ReplacedFacts
    <2>4. Len(buckets'[b]) = Len(buckets[b])
      BY <1>2, <2>2, <2>3
    <2> QED  BY <2>4
  <1> QED  BY <1>1, <1>2, StepKeeps

\* A full bucket without duplicates never loses a place.
THEOREM FullStays == Spec => FullStaysFull
  <1>1. IInv /\ [Next]_vars =>
          [\A b \in Bucket :
             (Len(buckets[b]) >= K /\ NoDuplicatesIn(buckets[b]))
                 => Len(buckets'[b]) >= K]_vars
    BY StepKeepsFull
  <1> QED  BY <1>1, Inductive, PTL DEF Spec, FullStaysFull

-----------------------------------------------------------------------------
(* A table whose pings have not overlapped in a bucket so far.             *)

LEMMA InitSerial == Init => Serial
  <1> SUFFICES ASSUME Init PROVE Serial
    OBVIOUS
  <1>2. \A t \in Thread : ~Pings(t)
    BY DEF Init, Pings
  <1>3. BucketWithinK /\ NoDuplicates
    BY KAssumption DEF Init, BucketWithinK, NoDuplicates, NoDuplicatesIn
  <1> QED  BY <1>2, <1>3 DEF Serial, NoOverlap, PingInFullBucket

\* A bucket as it should be, and what each ping relies on.
Sound(s) == Len(s) <= K /\ NoDuplicatesIn(s)

PingSafe(t) ==
    LET s == buckets[BucketOf[incoming[t]]] IN
    Len(s) = K /\ victim[t] \in Ids(s) /\ incoming[t] \notin Ids(s)

LEMMA SerialParts ==
    /\ BucketWithinK /\ NoDuplicates <=> \A b \in Bucket : Sound(buckets[b])
    /\ PingInFullBucket <=> \A t \in Thread : Pings(t) => PingSafe(t)
  BY DEF BucketWithinK, NoDuplicates, Sound, PingInFullBucket, PingSafe

\* A step that changes one bucket, when every ping after it was in flight
\* before it, is safe if the bucket is sound afterwards and either no ping of
\* that bucket goes on or the bucket has the same contacts as before.
LEMMA OneBucket ==
    ASSUME IInv, Serial, NEW b \in Bucket, NEW s, Sound(s),
           buckets' = [buckets EXCEPT ![b] = s],
           \A t \in Thread : Pings(t)' => /\ Pings(t)
                                          /\ incoming'[t] = incoming[t]
                                          /\ victim'[t] = victim[t],
           \/ \A t \in Thread : Pings(t)' => BucketOf[incoming[t]] # b
           \/ Ids(s) = Ids(buckets[b]) /\ Len(s) = Len(buckets[b])
    PROVE  (BucketWithinK /\ NoDuplicates /\ PingInFullBucket)'
  <1>1. DOMAIN buckets = Bucket /\ \A a \in Bucket : Sound(buckets[a])
    BY SerialParts DEF Serial, IInv
  <1>2. \A a \in Bucket : buckets'[a] = IF a = b THEN s ELSE buckets[a]
    BY <1>1
  <1>3. \A a \in Bucket : Sound(buckets'[a])
    BY <1>1, <1>2
  <1>4. ASSUME NEW t \in Thread, Pings(t)'
        PROVE  PingSafe(t)'
    <2>1. PingSafe(t) /\ Pings(t) /\ incoming'[t] = incoming[t] /\ victim'[t] = victim[t]
      BY <1>4, SerialParts DEF Serial
    <2>2. BucketOf[incoming[t]] \in Bucket
      BY <2>1, PingTyped, BucketTyped
    <2> QED  BY <1>2, <1>4, <2>1, <2>2 DEF PingSafe
  <1>5. (BucketWithinK /\ NoDuplicates)'
    BY <1>3 DEF BucketWithinK, NoDuplicates, Sound
  <1>6. PingInFullBucket'
    BY <1>4 DEF PingInFullBucket, PingSafe
  <1> QED  BY <1>5, <1>6

LEMMA NextSerial ==
    ASSUME IInv, Serial, [Next]_vars, ~overlapped'
    PROVE  Serial'
  <1>1. NoOverlap'
    <2>1. ASSUME NEW t \in Thread, NEW c \in Contact, PingLeastRecent(t, c)
          PROVE  NoOverlap'
      <3>1. incoming' = [incoming EXCEPT ![t] = c] /\ DOMAIN incoming = Thread
        BY <2>1 DEF PingLeastRecent, IInv, PingsOK
      <3>2. \A u \in Thread : Pings(u) => BucketOf[incoming[u]] # BucketOf[c]
        BY <2>1 DEF PingLeastRecent, PingedFor
      <3>3. \A u \in Thread : u # t => incoming'[u] = incoming[u]
        BY <3>1
      <3>4. incoming'[t] = c
        BY <3>1
      <3> QED  BY <3>2, <3>3, <3>4 DEF Serial, NoOverlap, Pings
    <2>2. ASSUME \A t \in Thread : Pings(t)' => Pings(t) /\ incoming'[t] = incoming[t]
          PROVE  NoOverlap'
      BY <2>2 DEF Serial, NoOverlap
    <2>3. ASSUME NEW t \in Thread, PingFails(t) \/ PingAnswered(t)
          PROVE  NoOverlap'
      <3>1. incoming' = [incoming EXCEPT ![t] = NoContact] /\ DOMAIN incoming = Thread
        BY <2>3 DEF PingFails, PingAnswered, Return, IInv, PingsOK
      <3> QED  BY <2>2, <3>1 DEF Pings
    <2>4. ASSUME NEW t \in Thread, NEW c \in Contact, SeeKnown(t, c) \/ AddNew(t, c)
          PROVE  NoOverlap'
      BY <2>2, <2>4 DEF SeeKnown, AddNew, Pings
    <2>5. CASE Tick \/ UNCHANGED vars
      BY <2>2, <2>5 DEF Tick, vars, Pings
    <2> QED  BY <2>1, <2>3, <2>4, <2>5 DEF Next, NewContact
  <1> SUFFICES (BucketWithinK /\ NoDuplicates /\ PingInFullBucket)'
    BY <1>1 DEF Serial
  <1>2. /\ \A b \in Bucket : Sound(buckets[b])
        /\ \A t \in Thread : Pings(t) => PingSafe(t)
    BY SerialParts DEF Serial
  <1>3. ASSUME NEW t \in Thread, NEW c \in Contact, SeeKnown(t, c)
        PROVE  (BucketWithinK /\ NoDuplicates /\ PingInFullBucket)'
    <2> DEFINE b == BucketOf[c]
               s == buckets[b]
               u == MovedToEnd(s, c, now)
    <2>1. b \in Bucket /\ s \in Seq(Entry) /\ now \in Nat /\ c \in Ids(s)
      BY <1>3, BucketTyped DEF SeeKnown
    <2>2. Sound(s)
      BY <1>2, <2>1
    <2>3. Ids(u) = Ids(s) /\ Len(u) = Len(s) /\ NoDuplicatesIn(u)
      <3> HIDE DEF s
      <3>1. c \in Ids(s) /\ NoDuplicatesIn(s)
        BY <2>1, <2>2 DEF Sound
      <3>2. /\ Ids(u) = Ids(s) \cup {c} /\ NoDuplicatesIn(u)
            /\ Len(u) = IF c \in Ids(s) THEN Len(s) ELSE Len(s) + 1
        BY <2>1, <3>1, MovedToEndFacts
      <3> HIDE DEF u
      <3> QED  BY <3>1, <3>2
    <2>4. Sound(u)
      BY <2>2, <2>3 DEF Sound
    <2>5. buckets' = [buckets EXCEPT ![b] = u] /\ UNCHANGED <<incoming, victim>>
      BY <1>3 DEF SeeKnown
    <2> HIDE DEF u
    <2> QED  BY <2>1, <2>3, <2>4, <2>5, OneBucket DEF Pings
  <1>4. ASSUME NEW t \in Thread, NEW c \in Contact, AddNew(t, c)
        PROVE  (BucketWithinK /\ NoDuplicates /\ PingInFullBucket)'
    <2> DEFINE b == BucketOf[c]
               s == buckets[b]
               e == [id |-> c, seen |-> Never]
               u == Append(s, e)
    <2>1. b \in Bucket /\ s \in Seq(Entry)
      BY BucketTyped
    <2>2. Sound(s) /\ c \notin Ids(s) /\ Len(s) < K
      BY <1>2, <1>4, <2>1 DEF AddNew, HasRoom
    <2>3. e \in Entry /\ e.id = c
      BY DEF Entry, Never
    <2>4. Len(u) = Len(s) + 1 /\ NoDuplicatesIn(u)
      BY <2>1, <2>2, <2>3, AppendFacts DEF Sound
    <2>5. Len(s) \in Nat
      BY <2>1
    <2>6. Len(u) <= K
      BY <2>2, <2>4, <2>5, KAssumption
    <2>7. buckets' = [buckets EXCEPT ![b] = u] /\ UNCHANGED <<incoming, victim>>
      BY <1>4 DEF AddNew
    <2>8. \A x \in Thread : Pings(x) => BucketOf[incoming[x]] # b
      BY <1>2, <2>2, <2>5, KAssumption DEF PingSafe
    <2> HIDE DEF u
    <2>9. Sound(u)
      BY <2>4, <2>6 DEF Sound
    <2>10. \A x \in Thread : Pings(x)' => Pings(x)
      BY <2>7 DEF Pings
    <2> QED  BY <2>1, <2>7, <2>8, <2>9, <2>10, OneBucket
  <1>5. ASSUME NEW t \in Thread, NEW c \in Contact, PingLeastRecent(t, c)
        PROVE  (BucketWithinK /\ NoDuplicates /\ PingInFullBucket)'
    <2> DEFINE s == buckets[BucketOf[c]]
    <2>1. BucketOf[c] \in Bucket /\ s \in Seq(Entry)
      BY BucketTyped
    <2>2. Sound(s) /\ c \notin Ids(s) /\ ~(Len(s) < K)
      BY <1>2, <1>5, <2>1 DEF PingLeastRecent, HasRoom
    <2>3. Len(s) \in Nat
      BY <2>1
    <2>4. Len(s) = K /\ Len(s) > 0
      BY <2>2, <2>3, KAssumption DEF Sound
    <2>5. LeastRecent(s).id \in Ids(s)
      BY <2>1, <2>4, LeastRecentFacts
    <2>6. /\ incoming' = [incoming EXCEPT ![t] = c]
          /\ victim' = [victim EXCEPT ![t] = LeastRecent(s).id]
          /\ buckets' = buckets
          /\ DOMAIN incoming = Thread /\ DOMAIN victim = Thread
      BY <1>5 DEF PingLeastRecent, IInv, PingsOK
    <2>7. PingSafe(t)'
      BY <2>2, <2>4, <2>5, <2>6 DEF PingSafe
    <2>8. ASSUME NEW x \in Thread, x # t, Pings(x)'
          PROVE  PingSafe(x)'
      <3>1. incoming'[x] = incoming[x] /\ victim'[x] = victim[x]
        BY <2>6, <2>8
      <3>2. PingSafe(x)
        BY <1>2, <2>8, <3>1 DEF Pings
      <3> QED  BY <2>6, <3>1, <3>2 DEF PingSafe
    <2>9. PingInFullBucket'
      BY <2>7, <2>8 DEF PingInFullBucket, PingSafe
    <2>10. (BucketWithinK /\ NoDuplicates)'
      BY <1>2, <2>6 DEF BucketWithinK, NoDuplicates, Sound
    <2> QED  BY <2>9, <2>10
  <1>6. ASSUME NEW t \in Thread, Pings(t), Return(t)
        PROVE  /\ \A x \in Thread : Pings(x)' => /\ Pings(x) /\ x # t
                                                 /\ incoming'[x] = incoming[x]
                                                 /\ victim'[x] = victim[x]
               /\ \A x \in Thread :
                    Pings(x)' => BucketOf[incoming[x]] # BucketOf[incoming[t]]
    <2>1. \A x \in Thread : Pings(x)' => /\ Pings(x) /\ x # t
                                         /\ incoming'[x] = incoming[x]
                                         /\ victim'[x] = victim[x]
      BY <1>6 DEF Return, Pings, IInv, PingsOK
    <2> QED  BY <1>6, <2>1 DEF Serial, NoOverlap
  <1>7. ASSUME NEW t \in Thread, PingFails(t)
        PROVE  (BucketWithinK /\ NoDuplicates /\ PingInFullBucket)'
    <2> DEFINE b == BucketOf[incoming[t]]
               s == buckets[b]
               u == Replaced(s, victim[t], incoming[t])
    <2>1. Pings(t) /\ Return(t) /\ incoming[t] \in Contact
      BY <1>7, PingTyped DEF PingFails
    <2>2. b \in Bucket /\ s \in Seq(Entry)
      BY <2>1, BucketTyped
    <2>3. Sound(s) /\ victim[t] \in Ids(s) /\ incoming[t] \notin Ids(s)
      BY <1>2, <2>1, <2>2 DEF PingSafe
    <2>4. Len(u) = Len(s) /\ NoDuplicatesIn(u)
      BY <2>1, <2>2, <2>3, ReplacedFacts DEF Sound
    <2>5. Sound(u)
      BY <2>3, <2>4 DEF Sound
    <2>6. buckets' = [buckets EXCEPT ![b] = u]
      BY <1>7, <2>3 DEF PingFails
    <2> HIDE DEF u
    <2> QED  BY <1>6, <2>1, <2>2, <2>5, <2>6, OneBucket
  <1>8. ASSUME NEW t \in Thread, PingAnswered(t)
        PROVE  (BucketWithinK /\ NoDuplicates /\ PingInFullBucket)'
    <2> DEFINE b == BucketOf[incoming[t]]
               s == buckets[b]
               u == MovedToEnd(s, victim[t], now)
    <2>1. Pings(t) /\ Return(t) /\ incoming[t] \in Contact /\ victim[t] \in Contact
      BY <1>8, PingTyped DEF PingAnswered
    <2>2. b \in Bucket /\ s \in Seq(Entry) /\ now \in Nat
      BY <2>1, BucketTyped
    <2>3. Sound(s) /\ victim[t] \in Ids(s)
      BY <1>2, <2>1, <2>2 DEF PingSafe
    <2>4. Len(u) = Len(s) /\ NoDuplicatesIn(u)
      BY <2>1, <2>2, <2>3, MovedToEndFacts DEF Sound
    <2>5. Sound(u)
      BY <2>3, <2>4 DEF Sound
    <2>6. buckets' = [buckets EXCEPT ![b] = u]
      BY <1>8 DEF PingAnswered
    <2> HIDE DEF u
    <2> QED  BY <1>6, <2>1, <2>2, <2>5, <2>6, OneBucket
  <1>9. CASE Tick \/ UNCHANGED vars
    <2>1. UNCHANGED <<buckets, incoming, victim>>
      BY <1>9 DEF Tick, vars
    <2> QED  BY <2>1 DEF Serial, BucketWithinK, NoDuplicates, PingInFullBucket, Pings
  <1> QED  BY <1>3, <1>4, <1>5, <1>7, <1>8, <1>9 DEF Next, NewContact

\* An overlap is not forgotten.
LEMMA OverlapStays == [Next]_vars /\ ~overlapped' => ~overlapped
  BY DEF Next, NewContact, Tick, SeeKnown, AddNew, PingLeastRecent, PingFails,
         PingAnswered, vars

\* Until pings of a bucket first overlap, a bucket never has more than K
\* contacts nor two entries of one contact: a ping keeps its bucket full, its
\* victim in it and its new contact out of it until it returns.
THEOREM SerialCorrect == Spec => []SerialInv
  <1>1. Init => SerialInv
    BY InitSerial DEF SerialInv
  <1>2. IInv /\ SerialInv /\ [Next]_vars => SerialInv'
    <2> SUFFICES ASSUME IInv, SerialInv, [Next]_vars, ~overlapped'
                 PROVE  Serial'
      BY DEF SerialInv
    <2>1. Serial
      BY OverlapStays DEF SerialInv
    <2> QED  BY <2>1, NextSerial
  <1> QED  BY <1>1, <1>2, Inductive, PTL DEF Spec

-----------------------------------------------------------------------------
(* Rebuilding a bucket without a contact removes one position.             *)

\* g lists the numbers of S in increasing order.
Enumerates(g, n, S) ==
    /\ n \in Nat /\ S \subseteq Nat
    /\ g \in [1 .. n -> S]
    /\ \A i, j \in 1 .. n : i < j => g[i] < g[j]
    /\ \A i \in S : \E j \in 1 .. n : g[j] = i

\* A set of numbers is listed in increasing order in one way only.
LEMMA OneEnumeration ==
    ASSUME NEW n, NEW S, NEW g, NEW h, Enumerates(g, n, S), Enumerates(h, n, S)
    PROVE  \A j \in 1 .. n : g[j] = h[j]
  <1> USE DEF Enumerates
  <1> DEFINE D == {j \in 1 .. n : g[j] # h[j]}
  <1> SUFFICES ASSUME D # {} PROVE FALSE
    OBVIOUS
  <1>1. PICK m \in D : \A j \in D : m <= j
    <2>1. D \subseteq Nat
      OBVIOUS
    <2> HIDE DEF D
    <2> QED  BY <2>1, LeastNatural
  <1>2. m \in 1 .. n /\ g[m] \in Nat /\ h[m] \in Nat /\ g[m] # h[m]
    OBVIOUS
  <1>3. \A k \in 1 .. n : k < m => g[k] = h[k]
    BY <1>1
  <1>4. ~(g[m] < h[m])
    <2> SUFFICES ASSUME g[m] < h[m] PROVE FALSE
      OBVIOUS
    <2>1. PICK k \in 1 .. n : h[k] = g[m]
      BY <1>2
    <2>2. k < m
      BY <1>2, <2>1
    <2> QED  BY <1>2, <1>3, <2>1, <2>2
  <1>5. ~(h[m] < g[m])
    <2> SUFFICES ASSUME h[m] < g[m] PROVE FALSE
      OBVIOUS
    <2>1. PICK k \in 1 .. n : g[k] = h[m]
      BY <1>2
    <2>2. k < m
      BY <1>2, <2>1
    <2> QED  BY <1>2, <1>3, <2>1, <2>2
  <1> QED  BY <1>2, <1>4, <1>5

LEMMA WithoutIsRemoval ==
    ASSUME NEW s \in Seq(Entry), NEW p \in DOMAIN s, NoDuplicatesIn(s)
    PROVE  Without(s, s[p].id) = RemoveAt(s, p)
  <1> DEFINE c == s[p].id
             u == Without(s, c)
             n == Len(s) - 1
             S == DOMAIN s \ {p}
  <1>1. DOMAIN s = 1 .. Len(s) /\ Len(s) \in Nat /\ p \in 1 .. Len(s) /\ n \in Nat
    OBVIOUS
  <1>2. c \in Ids(s)
    BY DEF Ids
  <1>3. u \in Seq(Entry) /\ Len(u) = n
    BY <1>2, WithoutFacts
  <1>4. PICK g \in [DOMAIN u -> DOMAIN s] :
          /\ \A j \in DOMAIN u : u[j] = s[g[j]]
          /\ \A i, j \in DOMAIN u : i < j => g[i] < g[j]
          /\ \A j \in DOMAIN u : s[g[j]].id # c
          /\ \A i \in DOMAIN s : s[i].id # c => \E j \in DOMAIN u : g[j] = i
    BY WithoutIsSubsequence
  <1>5. \A i \in DOMAIN s : s[i].id # c <=> i # p
    BY DEF NoDuplicatesIn
  <1>6. /\ RemoveAt(s, p) \in Seq(Entry)
        /\ Len(RemoveAt(s, p)) = n
        /\ \A j \in 1 .. n : RemoveAt(s, p)[j] = IF j < p THEN s[j] ELSE s[j + 1]
    BY <1>1, RemoveAtFacts
  <1> DEFINE h == [j \in 1 .. n |-> IF j < p THEN j ELSE j + 1]
             v == RemoveAt(s, p)
  <1>7. DOMAIN u = 1 .. n
    <2> HIDE DEF u, n
    <2> QED  BY <1>3
  <1>8. DOMAIN v = 1 .. n
    <2> HIDE DEF n
    <2> QED  BY <1>6
  <1> HIDE DEF u, v, c
  <1>9. Enumerates(h, n, S)
    <2>1. h \in [1 .. n -> S] /\ \A i, j \in 1 .. n : i < j => h[i] < h[j]
      BY <1>1
    <2>2. ASSUME NEW i \in S
          PROVE  \E j \in 1 .. n : h[j] = i
      <3>1. CASE i < p
        <4>1. i \in 1 .. n /\ h[i] = i
          BY <1>1, <3>1
        <4> QED  BY <4>1
      <3>2. CASE ~(i < p)
        <4>1. i - 1 \in 1 .. n /\ h[i - 1] = i
          BY <1>1, <2>2, <3>2
        <4> QED  BY <4>1
      <3> QED  BY <3>1, <3>2
    <2> QED  BY <1>1, <2>1, <2>2 DEF Enumerates
  <1>10. Enumerates(g, n, S)
    <2> HIDE DEF h, n
    <2>1. \A j \in 1 .. n : g[j] \in S
      BY <1>4, <1>5, <1>7
    <2>2. g \in [1 .. n -> S]
      BY <1>7, <2>1
    <2>3. \A i \in S : s[i].id # c
      BY <1>5
    <2>4. S \subseteq Nat /\ n \in Nat
      BY <1>1
    <2> HIDE DEF S
    <2>5. \A i \in S : \E j \in 1 .. n : g[j] = i
      BY <1>4, <1>7, <2>3 DEF S
    <2>6. \A i, j \in 1 .. n : i < j => g[i] < g[j]
      BY <1>4, <1>7
    <2> QED  BY <2>2, <2>4, <2>5, <2>6 DEF Enumerates
  <1>11. \A j \in 1 .. n : g[j] = h[j]
    <2> HIDE DEF h, S, n
    <2>1. Enumerates(h, n, S)
      BY <1>9
    <2>2. Enumerates(g, n, S)
      BY <1>10
    <2>3. \A a, b, m, T : Enumerates(a, m, T) /\ Enumerates(b, m, T)
                           => \A j \in 1 .. m : a[j] = b[j]
      BY OneEnumeration
    <2> QED  BY <2>1, <2>2, <2>3
  <1>12. \A j \in 1 .. n : u[j] = v[j]
    BY <1>4, <1>6, <1>7, <1>11 DEF v
  <1>13. u = v
    <2> HIDE DEF n
    <2> QED  BY <1>3, <1>6, <1>7, <1>8, <1>12 DEF v
  <1> QED  BY <1>13 DEF u, v, c

-----------------------------------------------------------------------------
(* A bucket as KBucket sees it.                                            *)

\* The contacts of a bucket in order.
Labels(s) == [i \in DOMAIN s |-> s[i].id]

LEMMA LabelsTyped ==
    ASSUME NEW s \in Seq(Entry)
    PROVE  /\ Labels(s) \in Seq(Contact)
           /\ Len(Labels(s)) = Len(s)
           /\ DOMAIN Labels(s) = 1 .. Len(s) /\ DOMAIN s = 1 .. Len(s)
           /\ \A i \in 1 .. Len(s) : Labels(s)[i] = s[i].id
  <1>1. DOMAIN s = 1 .. Len(s) /\ Len(s) \in Nat
    OBVIOUS
  <1>2. \A i \in 1 .. Len(s) : s[i].id \in Contact
    BY <1>1, EntriesTyped
  <1>3. Labels(s) = [i \in 1 .. Len(s) |-> s[i].id]
    BY <1>1 DEF Labels
  <1>4. Labels(s) \in Seq(Contact)
    BY <1>1, <1>2, <1>3
  <1>5. DOMAIN Labels(s) = 1 .. Len(s)
    BY <1>3
  <1>6. Len(Labels(s)) = Len(s)
    BY <1>1, <1>4, <1>5
  <1> QED  BY <1>1, <1>3, <1>4, <1>5, <1>6

LEMMA SameSequence ==
    ASSUME NEW S, NEW a \in Seq(S), NEW b \in Seq(S), Len(a) = Len(b),
           \A i \in 1 .. Len(a) : a[i] = b[i]
    PROVE  a = b
  OBVIOUS

LEMMA LabelsAppend ==
    ASSUME NEW s \in Seq(Entry), NEW e \in Entry
    PROVE  Labels(Append(s, e)) = Append(Labels(s), e.id)
  <1> DEFINE a == Labels(Append(s, e))
             b == Append(Labels(s), e.id)
  <1>1. /\ Append(s, e) \in Seq(Entry) /\ Len(Append(s, e)) = Len(s) + 1
        /\ \A i \in 1 .. Len(s) + 1 :
             Append(s, e)[i] = IF i <= Len(s) THEN s[i] ELSE e
        /\ Len(s) \in Nat
    OBVIOUS
  <1>2. /\ a \in Seq(Contact) /\ Len(a) = Len(s) + 1
        /\ \A i \in 1 .. Len(s) + 1 : a[i] = Append(s, e)[i].id
    BY <1>1, LabelsTyped
  <1>3. /\ Labels(s) \in Seq(Contact) /\ Len(Labels(s)) = Len(s)
        /\ \A i \in 1 .. Len(s) : Labels(s)[i] = s[i].id
    BY LabelsTyped
  <1>4. e.id \in Contact
    BY DEF Entry
  <1>5. /\ b \in Seq(Contact) /\ Len(b) = Len(s) + 1
        /\ \A i \in 1 .. Len(s) + 1 :
             b[i] = IF i <= Len(s) THEN Labels(s)[i] ELSE e.id
    BY <1>3, <1>4
  <1> HIDE DEF a, b
  <1>6. \A i \in 1 .. Len(s) + 1 : a[i] = b[i]
    <2> SUFFICES ASSUME NEW i \in 1 .. Len(s) + 1
                 PROVE  a[i] = b[i]
      OBVIOUS
    <2>1. CASE i <= Len(s)
      <3>1. i \in 1 .. Len(s)
        BY <1>1, <2>1
      <3> QED  BY <1>1, <1>2, <1>3, <1>5, <2>1, <3>1
    <2>2. CASE ~(i <= Len(s))
      BY <1>1, <1>2, <1>5, <2>2
    <2> QED  BY <2>1, <2>2
  <1>7. a = b
    BY <1>2, <1>5, <1>6, SameSequence
  <1> QED  BY <1>7 DEF a, b

LEMMA LabelsRemoveAt ==
    ASSUME NEW s \in Seq(Entry), NEW p \in 1 .. Len(s)
    PROVE  Labels(RemoveAt(s, p)) = RemoveAt(Labels(s), p)
  <1> DEFINE u == RemoveAt(s, p)
             a == Labels(u)
             b == RemoveAt(Labels(s), p)
  <1>1. /\ u \in Seq(Entry) /\ Len(u) = Len(s) - 1
        /\ \A j \in 1 .. Len(s) - 1 : u[j] = IF j < p THEN s[j] ELSE s[j + 1]
    BY RemoveAtFacts
  <1>2. /\ a \in Seq(Contact) /\ Len(a) = Len(s) - 1
        /\ \A j \in 1 .. Len(s) - 1 : a[j] = u[j].id
    <2> HIDE DEF u
    <2> QED  BY <1>1, LabelsTyped
  <1>3. /\ Labels(s) \in Seq(Contact) /\ Len(Labels(s)) = Len(s)
        /\ \A i \in 1 .. Len(s) : Labels(s)[i] = s[i].id
    BY LabelsTyped
  <1>4. /\ b \in Seq(Contact) /\ Len(b) = Len(s) - 1
        /\ \A j \in 1 .. Len(s) - 1 :
             b[j] = IF j < p THEN Labels(s)[j] ELSE Labels(s)[j + 1]
    <2> DEFINE l == Labels(s)
    <2>1. l \in Seq(Contact) /\ Len(l) = Len(s) /\ p \in 1 .. Len(l)
      BY <1>3
    <2> HIDE DEF l
    <2>2. /\ RemoveAt(l, p) \in Seq(Contact) /\ Len(RemoveAt(l, p)) = Len(l) - 1
          /\ \A j \in 1 .. Len(l) - 1 :
               RemoveAt(l, p)[j] = IF j < p THEN l[j] ELSE l[j + 1]
      BY <2>1, RemoveAtFacts
    <2> QED  BY <2>1, <2>2 DEF l
  <1> HIDE DEF u, a, b
  <1>5. \A j \in 1 .. Len(s) - 1 : a[j] = b[j]
    <2> SUFFICES ASSUME NEW j \in 1 .. Len(s) - 1
                 PROVE  a[j] = b[j]
      OBVIOUS
    <2>1. j \in 1 .. Len(s) /\ j + 1 \in 1 .. Len(s)
      OBVIOUS
    <2> QED  BY <1>1, <1>2, <1>3, <1>4, <2>1
  <1>6. a = b
    BY <1>2, <1>4, <1>5, SameSequence
  <1> QED  BY <1>6 DEF a, b, u

\* Moving to the end and replacing, in terms of positions.
LEMMA LabelsMovedToEnd ==
    ASSUME NEW s \in Seq(Entry), NoDuplicatesIn(s), NEW c \in Ids(s), NEW t \in Nat
    PROVE  \E i \in DOMAIN Labels(s) :
             Labels(MovedToEnd(s, c, t)) =
               Append(RemoveAt(Labels(s), i), Labels(s)[i])
  <1> DEFINE e == [id |-> c, seen |-> t]
  <1>1. PICK i \in DOMAIN s : s[i].id = c
    BY DEF Ids
  <1>2. i \in 1 .. Len(s) /\ i \in DOMAIN Labels(s) /\ Labels(s)[i] = c
    BY <1>1, LabelsTyped
  <1>3. Without(s, c) = RemoveAt(s, i)
    BY <1>1, WithoutIsRemoval
  <1>4. e \in Entry /\ e.id = c
    BY <1>1, EntriesTyped DEF Entry
  <1>5. RemoveAt(s, i) \in Seq(Entry)
    BY <1>2, RemoveAtFacts
  <1> HIDE DEF e
  <1>6. Labels(Append(RemoveAt(s, i), e)) = Append(RemoveAt(Labels(s), i), c)
    BY <1>2, <1>4, <1>5, LabelsAppend, LabelsRemoveAt
  <1> QED  BY <1>2, <1>3, <1>6 DEF MovedToEnd, e

LEMMA LabelsReplaced ==
    ASSUME NEW s \in Seq(Entry), NEW old \in Ids(s), NEW new \in Contact
    PROVE  \E i \in DOMAIN Labels(s) :
             Labels(Replaced(s, old, new)) = Append(RemoveAt(Labels(s), i), new)
  <1> DEFINE e == [id |-> new, seen |-> Never]
             p == FirstIndex(s, old)
  <1>1. p \in DOMAIN s
    BY FirstIndexFacts
  <1> HIDE DEF p
  <1>2. p \in 1 .. Len(s) /\ p \in DOMAIN Labels(s)
    BY <1>1, LabelsTyped
  <1>3. e \in Entry /\ e.id = new
    BY DEF Entry, Never
  <1>4. RemoveAt(s, p) \in Seq(Entry)
    BY <1>2, RemoveAtFacts
  <1> HIDE DEF e
  <1>5. Labels(Append(RemoveAt(s, p), e)) = Append(RemoveAt(Labels(s), p), new)
    BY <1>2, <1>3, <1>4, LabelsAppend, LabelsRemoveAt
  <1> QED  BY <1>2, <1>5 DEF Replaced, e, p

-----------------------------------------------------------------------------
(* The refinement.                                                         *)

LEMMA OrderOf ==
    ASSUME IInv, NEW b \in Bucket
    PROVE  Order[b] = Labels(buckets[b])
  BY DEF Order, Labels

LEMMA OrderChanged ==
    ASSUME IInv, NEW b \in Bucket, NEW u, buckets' = [buckets EXCEPT ![b] = u]
    PROVE  Order' = [Order EXCEPT ![b] = Labels(u)]
  <1>1. DOMAIN buckets = Bucket
    BY DEF IInv
  <1>2. Order' = [a \in Bucket |-> Labels(buckets'[a])]
    BY DEF Order, Labels
  <1>3. Order = [a \in Bucket |-> Labels(buckets[a])]
    BY DEF Order, Labels
  <1>4. \A a \in Bucket : buckets'[a] = IF a = b THEN u ELSE buckets[a]
    BY <1>1
  <1> QED  BY <1>2, <1>3, <1>4

LEMMA InitRefines == Init => Abstract!Init
  <1> SUFFICES ASSUME Init PROVE Abstract!Init
    OBVIOUS
  <1>1. <<>> \in Seq(Entry)
    OBVIOUS
  <1>2. Labels(<<>>) = <<>>
    BY DEF Labels
  <1>3. Order = [b \in Bucket |-> <<>>]
    BY <1>2 DEF Init, Order, Labels
  <1> QED  BY <1>3 DEF Abstract!Init

LEMMA NextRefines ==
    ASSUME IInv, Serial, [Next]_vars
    PROVE  [Abstract!Next]_Order
  <1>1. /\ \A b \in Bucket : NoDuplicatesIn(buckets[b])
        /\ \A t \in Thread : Pings(t) => PingSafe(t)
    BY SerialParts DEF Serial, NoDuplicates
  <1>2. CASE UNCHANGED buckets
    BY <1>2 DEF Order
  <1>3. ASSUME NEW b \in Bucket, NEW c \in Ids(buckets[b]),
               buckets' = [buckets EXCEPT ![b] = MovedToEnd(@, c, now)]
        PROVE  Abstract!Touch(b)
    <2> DEFINE s == buckets[b]
               u == MovedToEnd(s, c, now)
    <2>1. s \in Seq(Entry) /\ NoDuplicatesIn(s) /\ now \in Nat
      BY <1>1 DEF IInv, BucketOK
    <2>2. PICK i \in DOMAIN Labels(s) :
            Labels(u) = Append(RemoveAt(Labels(s), i), Labels(s)[i])
      BY <2>1, LabelsMovedToEnd
    <2>3. buckets' = [buckets EXCEPT ![b] = u]
      BY <1>3
    <2> HIDE DEF u
    <2>4. Order' = [Order EXCEPT ![b] = Labels(u)] /\ Order[b] = Labels(s)
      BY <2>3, OrderChanged, OrderOf
    <2> QED  BY <2>2, <2>4 DEF Abstract!Touch, Abstract!RemoveAt, RemoveAt
  <1>4. ASSUME NEW b \in Bucket, NEW c, c \notin Ids(buckets[b])
        PROVE  /\ \A i \in DOMAIN Order[b] : Order[b][i] # c
               /\ Len(Order[b]) = Len(buckets[b])
    <2>1. buckets[b] \in Seq(Entry)
      BY DEF IInv, BucketOK
    <2> QED  BY <1>4, <2>1, OrderOf, LabelsTyped DEF Ids
  <1>5. ASSUME NEW t \in Thread, NEW c \in Contact, SeeKnown(t, c)
        PROVE  \E b \in Bucket : Abstract!Touch(b)
    BY <1>3, <1>5, BucketTyped DEF SeeKnown
  <1>6. ASSUME NEW t \in Thread, NEW c \in Contact, AddNew(t, c)
        PROVE  Abstract!Add(c)
    <2> DEFINE b == BucketOf[c]
               s == buckets[b]
               e == [id |-> c, seen |-> Never]
    <2>1. b \in Bucket /\ s \in Seq(Entry)
      BY BucketTyped
    <2>2. /\ \A i \in DOMAIN Order[b] : Order[b][i] # c
          /\ Len(Order[b]) < K
      BY <1>4, <1>6, <2>1 DEF AddNew, HasRoom
    <2>3. e \in Entry /\ e.id = c
      BY DEF Entry, Never
    <2>4. Labels(Append(s, e)) = Append(Labels(s), c)
      <3> HIDE DEF e
      <3> QED  BY <2>1, <2>3, LabelsAppend
    <2>5. Order' = [Order EXCEPT ![b] = Append(Labels(s), c)]
      BY <1>6, <2>1, <2>4, OrderChanged DEF AddNew
    <2>6. Order[b] = Labels(s)
      BY <2>1, OrderOf
    <2> QED  BY <2>2, <2>5, <2>6 DEF Abstract!Add
  <1>7. ASSUME NEW t \in Thread, PingFails(t)
        PROVE  Abstract!Replace(incoming[t])
    <2> DEFINE c == incoming[t]
               b == BucketOf[c]
               s == buckets[b]
               u == Replaced(s, victim[t], c)
    <2>1. Pings(t) /\ c \in Contact
      BY <1>7, PingTyped DEF PingFails
    <2>2. b \in Bucket /\ s \in Seq(Entry)
      BY <2>1, BucketTyped
    <2>3. Len(s) = K /\ victim[t] \in Ids(s) /\ c \notin Ids(s)
      BY <1>1, <2>1 DEF PingSafe
    <2>4. /\ \A i \in DOMAIN Order[b] : Order[b][i] # c
          /\ Len(Order[b]) = K
      BY <1>4, <2>2, <2>3
    <2>5. PICK i \in DOMAIN Labels(s) : Labels(u) = Append(RemoveAt(Labels(s), i), c)
      BY <2>1, <2>2, <2>3, LabelsReplaced
    <2>6. buckets' = [buckets EXCEPT ![b] = u]
      BY <1>7, <2>3 DEF PingFails
    <2> HIDE DEF u
    <2>7. Order' = [Order EXCEPT ![b] = Labels(u)] /\ Order[b] = Labels(s)
      BY <2>2, <2>6, OrderChanged, OrderOf
    <2> QED  BY <2>4, <2>5, <2>7 DEF Abstract!Replace, Abstract!RemoveAt, RemoveAt
  <1>8. ASSUME NEW t \in Thread, PingAnswered(t)
        PROVE  \E b \in Bucket : Abstract!Touch(b)
    <2> DEFINE b == BucketOf[incoming[t]]
    <2>1. Pings(t) /\ incoming[t] \in Contact
      BY <1>8, PingTyped DEF PingAnswered
    <2>2. b \in Bucket /\ victim[t] \in Ids(buckets[b])
      BY <1>1, <2>1, BucketTyped DEF PingSafe
    <2>3. buckets' = [buckets EXCEPT ![b] = MovedToEnd(@, victim[t], now)]
      BY <1>8 DEF PingAnswered
    <2> QED  BY <1>3, <2>2, <2>3
  <1>9. ASSUME NEW t \in Thread, PingFails(t)
        PROVE  incoming[t] \in Contact
    BY <1>9, PingTyped DEF PingFails
  <1> QED
    BY <1>2, <1>5, <1>6, <1>7, <1>8, <1>9
       DEF Next, NewContact, Tick, PingLeastRecent, vars, Abstract!Next

\* Until pings of a bucket first overlap, NewContact implements k-buckets.
THEOREM Refinement == Spec => RefinesKBucket
  <1>1. IInv /\ SerialInv /\ [Next]_vars => [overlapped' \/ Abstract!Next]_Order
    BY OverlapStays, NextRefines DEF SerialInv
  <1> QED  BY <1>1, InitRefines, Inductive, SerialCorrect, PTL DEF Spec, RefinesKBucket
=============================================================================
