---------------------------- MODULE LookUpProofs ----------------------------
(***************************************************************************)
(* Proofs, for every network, K, Alpha and length of the answers, of the   *)
(* safety properties of LookUp.                                            *)
(***************************************************************************)
EXTENDS LookUp, FiniteSetTheorems, TLAPS

\* No node the lookup has learned of is forgotten: it was asked or it waits.
NothingForgotten == learned \subseteq probed \cup ToSet(unprobed)

\* The counter of the main goroutine is the number of running queries, until
\* the lookup times out and nobody looks at it.
Counted == phase \notin {"drain", "done"} => inflight = Cardinality(queries)

\* A query is only sent once a node was kept.
NotEmptyHanded ==
    /\ queries # {} => kClosest # {}
    /\ phase \in {"merge", "launch", "drain"} => kClosest # {}

\* Nothing is asked before the start.  The loop only waits with nothing left
\* to ask, or with every slot taken or lost since the last answer.
QueueServed ==
    /\ phase = "start" => probed = {}
    /\ phase \in {"start", "merge", "launch"} => lost = 0
    /\ phase = "select" =>
          /\ Cardinality(queries) + lost <= Alpha
          /\ Cardinality(queries) + lost = Alpha \/ learned \subseteq probed
    /\ phase = "drain" => lost = Alpha
    /\ phase = "done" /\ lost < Alpha => learned \subseteq probed

IInv ==
    /\ TypeOK
    /\ IsFiniteSet(kClosest) /\ IsFiniteSet(queries)
    /\ asked = probed
    /\ KeepsKClosest
    /\ AtMostAlphaQueries
    /\ Counted
    /\ NothingForgotten
    /\ QueueServed
    /\ NotEmptyHanded

-----------------------------------------------------------------------------
\* What the loops do to the set of the nodes in the queue.
LEMMA AppendToSet ==
    ASSUME NEW s \in Seq(Node), NEW n \in Node
    PROVE  ToSet(Append(s, n)) = ToSet(s) \cup {n}
  <1>1. DOMAIN s = 1 .. Len(s) /\ DOMAIN Append(s, n) = 1 .. Len(s) + 1
    OBVIOUS
  <1>2. ToSet(s) \cup {n} \subseteq ToSet(Append(s, n))
    <2>1. \A i \in DOMAIN s : Append(s, n)[i] = s[i]
      OBVIOUS
    <2>2. Append(s, n)[Len(s) + 1] = n
      OBVIOUS
    <2> QED  BY <1>1, <2>1, <2>2 DEF ToSet
  <1>3. ToSet(Append(s, n)) \subseteq ToSet(s) \cup {n}
    <2>1. \A i \in 1 .. Len(s) + 1 :
              Append(s, n)[i] = IF i = Len(s) + 1 THEN n ELSE s[i]
      OBVIOUS
    <2> QED  BY <1>1, <2>1 DEF ToSet
  <1> QED  BY <1>2, <1>3

LEMMA TailToSet ==
    ASSUME NEW s \in Seq(Node), s # <<>>
    PROVE  /\ Head(s) \in Node
           /\ Tail(s) \in Seq(Node)
           /\ ToSet(s) \subseteq {Head(s)} \cup ToSet(Tail(s))
  <1>1. Head(s) \in Node /\ Tail(s) \in Seq(Node)
    OBVIOUS
  <1>2. ASSUME NEW i \in DOMAIN s
        PROVE  s[i] \in {Head(s)} \cup ToSet(Tail(s))
    <2>1. CASE i = 1
      BY <2>1
    <2>2. CASE i # 1
      <3>1. i - 1 \in DOMAIN Tail(s) /\ Tail(s)[i - 1] = s[i]
        BY <2>2
      <3> QED  BY <3>1 DEF ToSet
    <2> QED  BY <2>1, <2>2
  <1> QED  BY <1>1, <1>2 DEF ToSet

\* The first list has at most Alpha places, and as many queries.
LEMMA InitialList ==
    ASSUME NEW initial \in BoundedSeq(Node, Alpha)
    PROVE  LET T == ToSet(initial)
               Q == {<<initial[i], i>> : i \in DOMAIN initial}
           IN  /\ T \subseteq Node /\ IsFiniteSet(T)
               /\ Cardinality(T) \in Nat /\ Cardinality(T) <= Alpha
               /\ Q \subseteq T \X (0 .. Alpha) /\ IsFiniteSet(Q)
               /\ Q # {} => T # {}
               /\ Cardinality(Q) = Len(initial)
               /\ Len(initial) \in 0 .. Alpha
  <1> DEFINE T == ToSet(initial)
             Q == {<<initial[i], i>> : i \in DOMAIN initial}
  <1>1. PICK m \in 0 .. Alpha : initial \in [1 .. m -> Node]
    BY DEF BoundedSeq, SeqOf
  <1>2. m \in Nat /\ m <= Alpha /\ DOMAIN initial = 1 .. m /\ Len(initial) = m
    BY <1>1, AlphaAssumption
  <1>3. IsFiniteSet(1 .. m) /\ Cardinality(1 .. m) = m
    BY <1>2, FS_Interval
  <1>4. IsFiniteSet(T) /\ Cardinality(T) <= m
    <2>1. initial \in Surjection(1 .. m, T)
      BY <1>1 DEF Surjection, ToSet
    <2> QED  BY <1>3, <2>1, FS_Surjection
  <1>5. Cardinality(T) \in Nat
    BY <1>4, FS_CardinalityType
  <1>6. IsFiniteSet(Q) /\ Cardinality(Q) = m
    <2> DEFINE f == [i \in 1 .. m |-> <<initial[i], i>>]
    <2>1. \A i \in 1 .. m : f[i] = <<initial[i], i>>
      OBVIOUS
    <2>2. f \in [1 .. m -> Q]
      BY <1>2, <2>1
    <2>3. \A x, y \in 1 .. m : f[x] = f[y] => x = y
      BY <2>1
    <2>4. \A q \in Q : \E x \in 1 .. m : f[x] = q
      BY <1>2, <2>1
    <2> HIDE DEF f, Q
    <2>5. f \in Bijection(1 .. m, Q)
      <3>1. f \in Injection(1 .. m, Q)
        BY <2>2, <2>3 DEF Injection, IsInjective
      <3>2. f \in Surjection(1 .. m, Q)
        BY <2>2, <2>4 DEF Surjection
      <3> QED  BY <3>1, <3>2 DEF Bijection
    <2>6. ExistsBijection(1 .. m, Q)
      BY <2>5 DEF ExistsBijection
    <2> QED  BY <1>3, <2>6, FS_Bijection
  <1>7. Q \subseteq T \X (0 .. Alpha)
    <2>1. \A i \in DOMAIN initial : i \in 0 .. Alpha /\ initial[i] \in T
      BY <1>2, AlphaAssumption DEF ToSet
    <2> QED  BY <2>1
  <1>8. T \subseteq Node
    BY <1>1 DEF ToSet
  <1>9. Q # {} => T # {}
    BY DEF ToSet
  <1> HIDE DEF T, Q
  <1>10. Cardinality(T) <= Alpha /\ Len(initial) \in 0 .. Alpha
    BY <1>2, <1>4, <1>5, AlphaAssumption
  <1> QED  BY <1>2, <1>4, <1>5, <1>6, <1>7, <1>8, <1>9, <1>10 DEF T, Q

\* One node considered for kClosestNodes: the result stays the K closest.
LEMMA KeepOne ==
    ASSUME TypeOK, IsFiniteSet(kClosest), KeepsKClosest,
           NEW n \in Node, Keep(n), learned' = learned \cup {n}
    PROVE  IsFiniteSet(kClosest') /\ KeepsKClosest' /\ (kClosest # {} => kClosest' # {})
  <1> USE AlphaAssumption
  <1>0. Cardinality(kClosest) \in Nat
    BY FS_CardinalityType
  <1>1. CASE n \in kClosest /\ UNCHANGED kClosest
    BY <1>1 DEF KeepsKClosest
  <1>2. CASE /\ n \notin kClosest
             /\ Cardinality(kClosest) < K
             /\ kClosest' = kClosest \cup {n}
    <2>1. /\ IsFiniteSet(kClosest')
          /\ Cardinality(kClosest') = Cardinality(kClosest) + 1
      BY <1>2, FS_AddElement
    <2>2. learned' = kClosest'
      BY <1>2 DEF KeepsKClosest
    <2> QED  BY <1>0, <1>2, <2>1, <2>2 DEF KeepsKClosest
  <1>3. CASE /\ n \notin kClosest
             /\ Cardinality(kClosest) >= K
             /\ \E f \in kClosest :
                  /\ Farthest(f)
                  /\ kClosest' = IF Displaces(n, f) THEN (kClosest \ {f}) \cup {n}
                                                    ELSE kClosest
    <2>1. PICK f \in kClosest :
            /\ Farthest(f)
            /\ kClosest' = IF Displaces(n, f) THEN (kClosest \ {f}) \cup {n}
                                              ELSE kClosest
      BY <1>3
    <2>2. \A m \in kClosest : Dist[m] \in Nat /\ Dist[m] <= Dist[f]
      BY <2>1, DistAssumption DEF TypeOK, Farthest
    <2>3. \A m \in kClosest : m # f => Dist[m] < Dist[f]
      BY <2>2, DistAssumption DEF TypeOK
    <2>4. \A m \in learned : Dist[m] \in Nat
      BY DistAssumption DEF TypeOK
    <2>5. Dist[n] \in Nat /\ Dist[n] # Dist[f]
      BY <1>3, DistAssumption DEF TypeOK
    <2>6. Cardinality(kClosest) = K
      BY <1>0, <1>3 DEF KeepsKClosest
    <2>7. CASE Displaces(n, f)
      <3>1. kClosest' = (kClosest \ {f}) \cup {n}
        BY <2>1, <2>7
      <3>2. /\ IsFiniteSet(kClosest \ {f})
            /\ Cardinality(kClosest \ {f}) = K - 1
        BY <2>6, FS_RemoveElement
      <3>3. IsFiniteSet(kClosest') /\ Cardinality(kClosest') = K
        BY <1>3, <3>1, <3>2, FS_AddElement
      <3>4. ASSUME NEW x \in kClosest', NEW m \in learned' \ kClosest'
            PROVE  Dist[x] < Dist[m]
        <4>1. m = f \/ m \in learned \ kClosest
          BY <3>1
        <4>2. m \in learned /\ Dist[f] <= Dist[m]
          BY <2>2, <2>4, <4>1 DEF KeepsKClosest
        <4>3. Dist[x] < Dist[f]
          BY <2>3, <2>7, <3>1 DEF Displaces
        <4>4. x \in learned \/ x = n
          BY <3>1 DEF KeepsKClosest
        <4> QED  BY <2>1, <2>2, <2>4, <2>5, <4>2, <4>3, <4>4
      <3> QED  BY <3>1, <3>3, <3>4 DEF KeepsKClosest
    <2>8. CASE ~Displaces(n, f)
      <3>1. kClosest' = kClosest
        BY <2>1, <2>8
      <3>2. Dist[f] < Dist[n]
        BY <2>1, <2>2, <2>5, <2>8 DEF Displaces
      <3>3. ASSUME NEW x \in kClosest', NEW m \in learned' \ kClosest'
            PROVE  Dist[x] < Dist[m]
        <4>1. CASE m = n
          BY <2>1, <2>2, <2>5, <3>1, <3>2, <4>1
        <4>2. CASE m # n
          BY <3>1, <4>2 DEF KeepsKClosest
        <4> QED  BY <4>1, <4>2
      <3> QED  BY <2>6, <3>1, <3>3 DEF KeepsKClosest
    <2> QED  BY <2>7, <2>8
  <1> QED  BY <1>1, <1>2, <1>3 DEF Keep

-----------------------------------------------------------------------------
LEMMA InitIInv == Init => IInv
  <1> SUFFICES ASSUME Init
               PROVE  IInv
    OBVIOUS
  <1> USE DEF Init
  <1>1. TypeOK
    <2>1. <<>> \in Seq(Node)
      OBVIOUS
    <2> QED  BY <2>1, AlphaAssumption DEF TypeOK
  <1>2. /\ IsFiniteSet({}) /\ Cardinality({}) = 0
    BY FS_EmptySet
  <1>3. KeepsKClosest
    BY <1>2, AlphaAssumption DEF KeepsKClosest
  <1>4. AtMostAlphaQueries /\ Counted
    BY <1>2, AlphaAssumption DEF AtMostAlphaQueries, Counted
  <1>5. NothingForgotten /\ QueueServed /\ NotEmptyHanded
    BY DEF NothingForgotten, QueueServed, NotEmptyHanded
  <1> QED  BY <1>1, <1>2, <1>3, <1>4, <1>5 DEF IInv

\* A query that ends leaves one query less.
LEMMA OneQueryLess ==
    ASSUME IInv, NEW q \in queries
    PROVE  /\ q \in Query
           /\ IsFiniteSet(queries \ {q})
           /\ Cardinality(queries) \in Nat /\ Cardinality(queries) > 0
           /\ Cardinality(queries \ {q}) = Cardinality(queries) - 1
           /\ queries # {}
  <1>1. IsFiniteSet(queries) /\ Cardinality(queries) \in Nat
    BY FS_CardinalityType DEF IInv
  <1>2. /\ IsFiniteSet(queries \ {q})
        /\ Cardinality(queries \ {q}) = Cardinality(queries) - 1
    BY <1>1, FS_RemoveElement
  <1>3. Cardinality(queries \ {q}) \in Nat
    BY <1>2, FS_CardinalityType
  <1>4. q \in Query
    BY DEF IInv, TypeOK, Query
  <1> QED  BY <1>1, <1>2, <1>3, <1>4

\* Every step of the lookup keeps the invariant.
LEMMA NextIInv == IInv /\ [Next]_vars => IInv'
  <1> SUFFICES ASSUME IInv, [Next]_vars
               PROVE  IInv'
    OBVIOUS
  <1> USE AlphaAssumption DEF vars, main, history
  <1>0. Cardinality(queries) \in Nat /\ Cardinality(kClosest) \in Nat
    BY FS_CardinalityType DEF IInv
  <1>1. ASSUME NEW initial \in BoundedSeq(Node, Alpha), Begin(initial)
        PROVE  IInv'
    <2> DEFINE T == ToSet(initial)
               Q == {<<initial[i], i>> : i \in DOMAIN initial}
    <2>1. /\ T \subseteq Node /\ IsFiniteSet(T)
          /\ Cardinality(T) \in Nat /\ Cardinality(T) <= Alpha
          /\ Q \subseteq T \X (0 .. Alpha) /\ IsFiniteSet(Q)
          /\ Q # {} => T # {}
          /\ Cardinality(Q) = Len(initial)
          /\ Len(initial) \in 0 .. Alpha
      BY InitialList
    <2>2. /\ kClosest' = T /\ learned' = T /\ asked' = T
          /\ probed' = T /\ queries' = Q /\ inflight' = Len(initial)
          /\ phase' = "select" /\ phase = "start"
          /\ UNCHANGED <<unprobed, rest, lost>>
      BY <1>1 DEF Begin
    <2>3. lost = 0
      BY <2>2 DEF IInv, QueueServed
    <2> HIDE DEF T, Q
    <2>4. TypeOK'
      BY <2>1, <2>2 DEF IInv, TypeOK
    <2>5. KeepsKClosest' /\ AtMostAlphaQueries' /\ Counted'
      BY <2>1, <2>2 DEF KeepsKClosest, AtMostAlphaQueries, Counted
    <2>6. NothingForgotten' /\ QueueServed' /\ NotEmptyHanded'
      BY <2>1, <2>2, <2>3 DEF NothingForgotten, QueueServed, NotEmptyHanded
    <2> QED  BY <2>1, <2>2, <2>4, <2>5, <2>6 DEF IInv
  <1>2. ASSUME NEW q \in Query, NEW list \in Lists, Answer(q, list)
        PROVE  IInv'
    <2>1. list \in Seq(Node)
      <3>1. PICK m \in 0 .. ListMax : list \in [1 .. m -> Node]
        BY DEF Lists, BoundedSeq, SeqOf
      <3> QED  BY <3>1, ListMaxAssumption
    <2>2. /\ phase = "select" /\ q \in queries
          /\ queries' = queries \ {q} /\ inflight' = inflight - 1
          /\ rest' = list /\ lost' = 0 /\ phase' = "merge"
          /\ UNCHANGED <<kClosest, unprobed, probed, learned, asked>>
      BY <1>2 DEF Answer
    <2>3. /\ IsFiniteSet(queries')
          /\ Cardinality(queries) > 0
          /\ Cardinality(queries') = Cardinality(queries) - 1
      BY <2>2, OneQueryLess
    <2>4. inflight' = Cardinality(queries') /\ inflight' \in Nat
      BY <1>0, <2>2, <2>3 DEF IInv, Counted
    <2>5. TypeOK' /\ KeepsKClosest' /\ Counted'
      BY <2>1, <2>2, <2>4 DEF IInv, TypeOK, KeepsKClosest, Counted
    <2>6. AtMostAlphaQueries'
      BY <1>0, <2>3 DEF IInv, AtMostAlphaQueries
    <2>7. NothingForgotten' /\ QueueServed' /\ NotEmptyHanded'
      BY <2>2 DEF IInv, NothingForgotten, QueueServed, NotEmptyHanded
    <2> QED  BY <2>2, <2>3, <2>5, <2>6, <2>7 DEF IInv
  <1>3. ASSUME NEW q \in Query, Fail(q)
        PROVE  IInv'
    <2>2. /\ phase = "select" /\ q \in queries
          /\ queries' = queries \ {q} /\ inflight' = inflight - 1
          /\ lost' = lost + 1
          /\ UNCHANGED <<phase, kClosest, unprobed, probed, rest, learned, asked>>
      BY <1>3 DEF Fail
    <2>3. /\ IsFiniteSet(queries')
          /\ Cardinality(queries) > 0
          /\ Cardinality(queries') = Cardinality(queries) - 1
      BY <2>2, OneQueryLess
    <2>4. /\ inflight' = Cardinality(queries') /\ inflight' \in Nat
          /\ Cardinality(queries') + lost' = Cardinality(queries) + lost
      BY <1>0, <2>2, <2>3 DEF IInv, Counted, TypeOK
    <2>5. lost' \in 0 .. Alpha
      <3>1. Cardinality(queries) + lost <= Alpha /\ lost \in Nat
        BY <2>2 DEF IInv, QueueServed, TypeOK
      <3> QED  BY <1>0, <2>2, <2>3, <3>1
    <2>6. TypeOK' /\ KeepsKClosest' /\ Counted'
      BY <2>2, <2>4, <2>5 DEF IInv, TypeOK, KeepsKClosest, Counted
    <2>7. AtMostAlphaQueries'
      BY <1>0, <2>3 DEF IInv, AtMostAlphaQueries
    <2>8. NothingForgotten' /\ QueueServed' /\ NotEmptyHanded'
      BY <2>2, <2>4 DEF IInv, NothingForgotten, QueueServed, NotEmptyHanded
    <2> QED  BY <2>2, <2>3, <2>6, <2>7, <2>8 DEF IInv
  <1>4. ASSUME NEW q \in Query, Drain(q)
        PROVE  IInv'
    <2>2. /\ phase = "drain" /\ q \in queries
          /\ queries' = queries \ {q}
          /\ UNCHANGED <<main, history>>
      BY <1>4 DEF Drain
    <2>3. /\ IsFiniteSet(queries')
          /\ Cardinality(queries') = Cardinality(queries) - 1
      BY <2>2, OneQueryLess
    <2>4. TypeOK' /\ KeepsKClosest' /\ Counted'
      BY <2>2 DEF IInv, TypeOK, KeepsKClosest, Counted
    <2>5. AtMostAlphaQueries'
      BY <1>0, <2>3 DEF IInv, AtMostAlphaQueries
    <2>6. NothingForgotten' /\ QueueServed' /\ NotEmptyHanded'
      BY <2>2 DEF IInv, NothingForgotten, QueueServed, NotEmptyHanded
    <2> QED  BY <2>2, <2>3, <2>4, <2>5, <2>6 DEF IInv
  <1>5. CASE Merge
    <2> DEFINE n == Head(rest)
    <2>1. /\ phase = "merge" /\ rest # <<>>
          /\ Keep(n) /\ Schedule(n)
          /\ learned' = learned \cup {n}
          /\ rest' = Tail(rest)
          /\ UNCHANGED <<phase, probed, queries, inflight, asked, lost>>
      BY <1>5 DEF Merge
    <2>2. n \in Node /\ rest' \in Seq(Node)
      BY <2>1, TailToSet DEF IInv, TypeOK
    <2> HIDE DEF n
    <2>3. IsFiniteSet(kClosest') /\ KeepsKClosest' /\ (kClosest # {} => kClosest' # {})
      BY <2>1, <2>2, KeepOne DEF IInv
    <2>4. /\ unprobed' \in Seq(Node)
          /\ ToSet(unprobed) \cup {n} \subseteq ToSet(unprobed') \cup probed
      BY <2>1, <2>2, AppendToSet DEF IInv, TypeOK, Schedule, Probed
    <2>5. TypeOK'
      BY <2>1, <2>2, <2>3, <2>4 DEF IInv, TypeOK, KeepsKClosest
    <2>6. NothingForgotten' /\ QueueServed' /\ NotEmptyHanded'
      BY <2>1, <2>3, <2>4 DEF IInv, NothingForgotten, QueueServed, NotEmptyHanded
    <2>7. IsFiniteSet(queries') /\ AtMostAlphaQueries' /\ Counted'
      BY <2>1 DEF IInv, AtMostAlphaQueries, Counted
    <2> QED  BY <2>1, <2>3, <2>5, <2>6, <2>7 DEF IInv
  <1>6. CASE Launch
    <2> DEFINE n == Head(unprobed)
    <2>1. /\ phase = "launch" /\ HasSlot /\ unprobed # <<>>
          /\ Ask(n) /\ unprobed' = Tail(unprobed)
          /\ UNCHANGED <<phase, kClosest, rest, learned, lost>>
      BY <1>6 DEF Launch
    <2>2. /\ n \in Node /\ unprobed' \in Seq(Node)
          /\ ToSet(unprobed) \subseteq {n} \cup ToSet(unprobed')
      BY <2>1, TailToSet DEF IInv, TypeOK
    <2> HIDE DEF n
    <2>3. probed' = probed \cup {n} /\ asked' = probed'
      BY <2>1 DEF IInv, Ask, LaunchQuery, Probed
    <2>4. /\ IsFiniteSet(queries')
          /\ queries' \subseteq probed' \X (0 .. Alpha)
          /\ inflight' = Cardinality(queries') /\ inflight' \in 0 .. Alpha
      <3>1. inflight = Cardinality(queries) /\ inflight < Alpha
        BY <2>1 DEF IInv, Counted, HasSlot
      <3>2. CASE n \in probed
        BY <1>0, <2>1, <3>1, <3>2 DEF Ask, Probed, IInv, TypeOK
      <3>3. CASE n \notin probed
        <4>1. queries' = queries \cup {<<n, 0>>} /\ inflight' = inflight + 1
          BY <2>1, <3>3 DEF Ask, LaunchQuery, Probed
        <4>2. <<n, 0>> \notin queries
          BY <3>3 DEF IInv, TypeOK
        <4>3. /\ IsFiniteSet(queries')
              /\ Cardinality(queries') = Cardinality(queries) + 1
          BY <4>1, <4>2, FS_AddElement DEF IInv
        <4>4. queries' \subseteq probed' \X (0 .. Alpha)
          <5>1. queries \subseteq probed \X (0 .. Alpha) /\ 0 \in 0 .. Alpha
            BY DEF IInv, TypeOK
          <5> QED  BY <2>3, <4>1, <5>1
        <4> QED  BY <1>0, <3>1, <4>1, <4>3, <4>4
      <3> QED  BY <3>2, <3>3
    <2>5. TypeOK'
      BY <2>1, <2>2, <2>3, <2>4 DEF IInv, TypeOK
    <2>6. AtMostAlphaQueries' /\ Counted'
      BY <2>4 DEF AtMostAlphaQueries, Counted
    <2>7. KeepsKClosest' /\ NothingForgotten' /\ QueueServed' /\ NotEmptyHanded'
      BY <2>1, <2>2, <2>3 DEF IInv, KeepsKClosest, NothingForgotten, QueueServed, NotEmptyHanded
    <2> QED  BY <2>1, <2>3, <2>4, <2>5, <2>6, <2>7 DEF IInv
  <1>7. CASE Launched
    <2>1. /\ phase = "launch" /\ phase' = "select"
          /\ ~HasSlot \/ unprobed = <<>>
          /\ UNCHANGED <<kClosest, unprobed, probed, queries, inflight, rest, history>>
      BY <1>7 DEF Launched
    <2>2. unprobed = <<>> => learned \subseteq probed
      BY DEF IInv, NothingForgotten, ToSet
    <2>3. lost = 0 /\ Cardinality(queries) <= Alpha /\ inflight = Cardinality(queries)
      BY <2>1 DEF IInv, QueueServed, AtMostAlphaQueries, Counted
    <2>4. QueueServed'
      BY <1>0, <2>1, <2>2, <2>3 DEF QueueServed, HasSlot
    <2>5. NotEmptyHanded'
      BY <2>1 DEF IInv, NotEmptyHanded
    <2> QED
      BY <2>1, <2>4, <2>5
      DEF IInv, TypeOK, KeepsKClosest, AtMostAlphaQueries, Counted, NothingForgotten
  <1>8. CASE Finish
    <2>1. Cardinality(queries) = 0 /\ lost \in 0 .. Alpha
      BY <1>8 DEF Finish, IInv, Counted, TypeOK
    <2>2. QueueServed'
      BY <1>8, <2>1 DEF Finish, IInv, QueueServed
    <2> QED
      BY <1>8, <2>2
      DEF Finish, IInv, TypeOK, KeepsKClosest, AtMostAlphaQueries, Counted,
          NothingForgotten, NotEmptyHanded
  <1>9. CASE LookupTimeout
    <2>1. queries # {}
      BY <1>9, FS_EmptySet DEF LookupTimeout, IInv, Counted
    <2>2. QueueServed' /\ NotEmptyHanded' /\ Counted'
      BY <1>9, <2>1 DEF LookupTimeout, IInv, QueueServed, NotEmptyHanded, Counted
    <2> QED
      BY <1>9, <2>2
      DEF LookupTimeout, IInv, TypeOK, KeepsKClosest, AtMostAlphaQueries, NothingForgotten
  <1>10. CASE Merged \/ Drained \/ UNCHANGED vars
    BY <1>10
    DEF Merged, Drained, IInv, TypeOK, KeepsKClosest,
        AtMostAlphaQueries, Counted, NothingForgotten, QueueServed, NotEmptyHanded
  <1> QED
    BY <1>1, <1>2, <1>3, <1>4, <1>5, <1>6, <1>7, <1>8, <1>9, <1>10
    DEF Next, Start, QueryEnds, Local

THEOREM Inductive == Spec => []IInv
  BY InitIInv, NextIInv, PTL DEF Spec

\* The variables of LookUp keep their types.
THEOREM TypeCorrect == Spec => []TypeOK
  <1>1. IInv => TypeOK
    BY DEF IInv
  <1> QED  BY <1>1, Inductive, PTL

\* Whatever the nodes answer, in whatever order, and whichever queries fail,
\* kClosestNodes is at all times the K closest of the nodes learned of.
THEOREM ResultIsKClosest == Spec => []KeepsKClosest
  <1>1. IInv => KeepsKClosest
    BY DEF IInv
  <1> QED  BY <1>1, Inductive, PTL

\* There never are more than Alpha queries running: the counter by which the
\* main goroutine limits them is their number, whatever the lookup starts from.
THEOREM BoundedParallelism == Spec => []AtMostAlphaQueries
  <1>1. IInv => AtMostAlphaQueries
    BY DEF IInv
  <1> QED  BY <1>1, Inductive, PTL

\* A lookup that times out returns a result, never the error.
THEOREM TimeoutReturnsResult == Spec => []TimeoutHasResult
  <1>1. IInv => TimeoutHasResult
    BY DEF IInv, NotEmptyHanded, TimeoutHasResult
  <1> QED  BY <1>1, Inductive, PTL

\* A lookup ends having asked all it has learned of, unless it timed out or
\* the last Alpha queries all failed: fewer failures leave nobody unasked.
THEOREM CompleteUnlessLost == Spec => []CompleteUnlessAllLost
  <1>1. IInv => CompleteUnlessAllLost
    BY DEF IInv, QueueServed, CompleteUnlessAllLost
  <1> QED  BY <1>1, Inductive, PTL

\* No query is launched to a node that was asked before, also when the lookup
\* starts from a list that holds nodes twice.
THEOREM NotAskedAgain == Spec => NeverAskedAgain
  <1>1. IInv /\ [Next]_vars => [\A q \in queries' \ queries : q[1] \notin asked]_vars
    <2> SUFFICES ASSUME IInv, Next, NEW q \in queries' \ queries
                 PROVE  q[1] \notin asked
      OBVIOUS
    <2> USE DEF main
    <2>1. CASE Start
      BY <2>1 DEF Start, Begin, IInv, QueueServed
    <2>2. CASE \E p \in Query : QueryEnds(p)
      BY <2>2 DEF QueryEnds, Answer, Fail, Drain
    <2>3. CASE Launch
      <3>1. q = <<Head(unprobed), 0>> /\ Head(unprobed) \notin probed
        BY <2>3 DEF Launch, Ask, LaunchQuery, Probed
      <3> QED  BY <3>1 DEF IInv
    <2>4. CASE Merge \/ Merged \/ Launched \/ Finish \/ Drained \/ LookupTimeout
      BY <2>4 DEF Merge, Merged, Launched, Finish, Drained, LookupTimeout
    <2> QED  BY <2>1, <2>2, <2>3, <2>4 DEF Next, Local
  <1> QED  BY <1>1, Inductive, PTL DEF Spec, NeverAskedAgain

-----------------------------------------------------------------------------
(* Every lookup ends: its steps use up a natural number.                   *)

\* What is left of the main goroutine's turn.
PhaseWork == CASE phase = "start"  -> 5
               [] phase = "merge"  -> 4
               [] phase = "launch" -> 3
               [] phase = "select" -> 2
               [] phase = "drain"  -> 1
               [] OTHER            -> 0

\* The queries that may still end: those that run, one for every node not
\* asked, and before the start those of the list the lookup starts from.
Unanswered ==
    Cardinality(queries) + Cardinality(Node \ probed)
      + (IF phase = "start" THEN Alpha ELSE 0)

\* The steps that are left at most: an answer has ListMax nodes, and each of
\* them is merged and later taken from the queue.
Work == (2 * ListMax + 3) * Unanswered + 2 * Len(rest) + Len(unprobed) + PhaseWork

\* Every step of a lookup is one of finitely many, however long the queue of
\* nodes grows, whoever answers what and whichever queries fail.
EveryStepIsWork == [][Work' < Work]_vars

LEMMA UnansweredType ==
    ASSUME IInv
    PROVE  /\ Cardinality(queries) \in Nat
           /\ IsFiniteSet(Node \ probed)
           /\ Cardinality(Node \ probed) \in Nat
           /\ Unanswered \in Nat
  <1>1. IsFiniteSet(queries) /\ IsFiniteSet(Node \ probed)
    BY NodeAssumption, FS_Difference DEF IInv
  <1>2. Cardinality(queries) \in Nat /\ Cardinality(Node \ probed) \in Nat
    BY <1>1, FS_CardinalityType
  <1> QED  BY <1>1, <1>2, AlphaAssumption DEF Unanswered

\* A query that ends is one less to come.
LEMMA OneAnswerLess ==
    ASSUME IInv, NEW q \in queries, phase # "start", phase' # "start",
           queries' = queries \ {q}, probed' = probed
    PROVE  Unanswered' = Unanswered - 1
  <1>1. Cardinality(queries') = Cardinality(queries) - 1
    BY OneQueryLess
  <1> QED  BY <1>1, UnansweredType DEF Unanswered

\* A query that is launched is one node less to ask and one query to end.
LEMMA AskedNotAnswered ==
    ASSUME IInv, NEW n \in Node, Ask(n), phase # "start", phase' # "start"
    PROVE  Unanswered' = Unanswered
  <1>1. CASE n \in probed
    BY <1>1 DEF Ask, Probed, Unanswered
  <1>2. CASE n \notin probed
    <2>1. probed' = probed \cup {n} /\ queries' = queries \cup {<<n, 0>>}
      BY <1>2 DEF Ask, LaunchQuery, Probed
    <2>2. <<n, 0>> \notin queries
      BY <1>2 DEF IInv, TypeOK
    <2>3. Cardinality(queries') = Cardinality(queries) + 1
      BY <2>1, <2>2, FS_AddElement DEF IInv
    <2>4. Node \ probed' = (Node \ probed) \ {n} /\ n \in Node \ probed
      BY <1>2, <2>1
    <2>5. Cardinality(Node \ probed') = Cardinality(Node \ probed) - 1
      BY <2>4, UnansweredType, FS_RemoveElement
    <2> QED  BY <2>3, <2>5, UnansweredType DEF Unanswered
  <1> QED  BY <1>1, <1>2

\* The start launches at most Alpha queries.
LEMMA StartAsks ==
    ASSUME IInv, IInv', phase = "start", phase' # "start"
    PROVE  Unanswered' \in Nat /\ Unanswered' <= Unanswered
  <1>1. Cardinality(queries) \in Nat
    BY UnansweredType
  <1>2. IsFiniteSet(queries') /\ IsFiniteSet(Node \ probed')
    BY NodeAssumption, FS_Difference DEF IInv
  <1>3. /\ Cardinality(queries') \in Nat /\ Cardinality(queries') <= Alpha
        /\ Cardinality(Node \ probed') \in Nat
    BY <1>2, FS_CardinalityType DEF IInv, AtMostAlphaQueries
  <1>4. Node \ probed = Node
    BY DEF IInv, QueueServed
  <1>5. Cardinality(Node \ probed') <= Cardinality(Node) /\ Cardinality(Node) \in Nat
    <2>1. Node \ probed' \subseteq Node
      OBVIOUS
    <2> QED  BY <2>1, NodeAssumption, FS_Subset, FS_CardinalityType
  <1>6. Unanswered' = Cardinality(queries') + Cardinality(Node \ probed')
    BY <1>3 DEF Unanswered
  <1>7. Unanswered = Cardinality(queries) + Cardinality(Node) + Alpha
    BY <1>4 DEF Unanswered
  <1> QED  BY <1>1, <1>3, <1>5, <1>6, <1>7, AlphaAssumption

\* What Work is made of.
LEMMA WorkType ==
    ASSUME IInv
    PROVE  /\ Len(rest) \in Nat /\ Len(unprobed) \in Nat
           /\ PhaseWork \in 0 .. 5
           /\ Work \in Nat
  <1>1. Len(rest) \in Nat /\ Len(unprobed) \in Nat
    BY DEF IInv, TypeOK
  <1>2. PhaseWork \in 0 .. 5
    BY DEF IInv, TypeOK, PhaseWork
  <1>3. (2 * ListMax + 3) * Unanswered \in Nat
    BY ListMaxAssumption, UnansweredType
  <1> QED  BY <1>1, <1>2, <1>3 DEF Work

\* A step that leaves the answers to come uses up less than it adds.
LEMMA LessWork ==
    ASSUME IInv, Unanswered' \in Nat, Unanswered' <= Unanswered,
           2 * Len(rest') + Len(unprobed') + PhaseWork'
             < 2 * Len(rest) + Len(unprobed) + PhaseWork,
           Len(rest') \in Nat, Len(unprobed') \in Nat, PhaseWork' \in Nat
    PROVE  Work' < Work
  <1> DEFINE c == 2 * ListMax + 3
             d == Unanswered - Unanswered'
             w == c * Unanswered
             z == c * d
  <1>1. c \in Nat /\ Unanswered \in Nat /\ d \in Nat
    BY ListMaxAssumption, UnansweredType
  <1>a. w \in Nat /\ z \in Nat
    <2> HIDE DEF c, d
    <2> QED  BY <1>1
  <1>b. c * Unanswered' = w - z
    <2>1. Unanswered' = Unanswered - d
      BY UnansweredType
    <2>2. c * (Unanswered - d) = w - z
      <3> HIDE DEF c, d
      <3> QED  BY <1>1
    <2> QED  BY <2>1, <2>2
  <1>2. /\ Work = w + 2 * Len(rest) + Len(unprobed) + PhaseWork
        /\ Work' = (w - z) + 2 * Len(rest') + Len(unprobed') + PhaseWork'
    BY <1>b DEF Work
  <1>3. Len(rest) \in Nat /\ Len(unprobed) \in Nat /\ PhaseWork \in Nat
    BY WorkType
  <1> HIDE DEF w, z
  <1> QED  BY <1>a, <1>2, <1>3

\* A step with which a query ends may add what an answer brings.
LEMMA AnswerIsWork ==
    ASSUME IInv, Unanswered' = Unanswered - 1,
           2 * Len(rest') + Len(unprobed') + PhaseWork'
             < 2 * Len(rest) + Len(unprobed) + PhaseWork + 2 * ListMax + 3,
           Len(rest') \in Nat, Len(unprobed') \in Nat, PhaseWork' \in Nat
    PROVE  Work' < Work
  <1> DEFINE c == 2 * ListMax + 3
             w == c * Unanswered
  <1>1. c \in Nat /\ Unanswered \in Nat /\ w \in Nat
    BY ListMaxAssumption, UnansweredType
  <1>2. c * (Unanswered - 1) = w - c
    <2> HIDE DEF c
    <2> QED  BY <1>1
  <1>3. /\ Work = w + 2 * Len(rest) + Len(unprobed) + PhaseWork
        /\ Work' = (w - c) + 2 * Len(rest') + Len(unprobed') + PhaseWork'
    BY <1>2 DEF Work
  <1>4. Len(rest) \in Nat /\ Len(unprobed) \in Nat /\ PhaseWork \in Nat
    BY WorkType
  <1> HIDE DEF w
  <1> QED  BY <1>1, <1>3, <1>4, ListMaxAssumption

\* A lookup takes no more steps than Work is at its start, five and
\* 2 * ListMax + 3 for every node of the network and Alpha times more: the
\* queue, which may hold a node many times, and the answers, which may name it
\* again and again, do not keep it going.
THEOREM LookupUsesUpWork == Spec => [](Work \in Nat) /\ EveryStepIsWork
  <1>1. IInv => Work \in Nat
    BY WorkType
  <1>2. IInv /\ IInv' /\ [Next]_vars => [Work' < Work]_vars
    <2> SUFFICES ASSUME IInv, IInv', Next
                 PROVE  Work' < Work
      OBVIOUS
    <2> USE DEF PhaseWork
    <2>0. /\ Len(rest) \in Nat /\ Len(unprobed) \in Nat
          /\ Len(rest') \in Nat /\ Len(unprobed') \in Nat /\ PhaseWork' \in Nat
      BY DEF IInv, TypeOK
    <2>a. Unanswered \in Nat
      BY UnansweredType
    <2>1. ASSUME NEW initial \in BoundedSeq(Node, Alpha), Begin(initial)
          PROVE  Work' < Work
      <3>1. phase = "start" /\ phase' = "select" /\ UNCHANGED <<rest, unprobed>>
        BY <2>1 DEF Begin
      <3>2. Unanswered' \in Nat /\ Unanswered' <= Unanswered
        BY <3>1, StartAsks
      <3> QED  BY <2>0, <3>1, <3>2, LessWork
    <2>2. ASSUME NEW q \in Query, NEW list \in Lists, Answer(q, list)
          PROVE  Work' < Work
      <3>1. Unanswered' = Unanswered - 1
        BY <2>2, OneAnswerLess DEF Answer
      <3>2. Len(list) <= ListMax
        <4>1. PICK m \in 0 .. ListMax : list \in [1 .. m -> Node]
          BY DEF Lists, BoundedSeq, SeqOf
        <4> QED  BY <4>1, ListMaxAssumption
      <3>3. /\ phase = "select" /\ phase' = "merge"
            /\ rest' = list /\ unprobed' = unprobed
        BY <2>2 DEF Answer
      <3>4. PhaseWork = 2 /\ PhaseWork' = 4
        BY <3>3
      <3>5. 2 * Len(rest') + Len(unprobed') + PhaseWork'
              < 2 * Len(rest) + Len(unprobed) + PhaseWork + 2 * ListMax + 3
        BY <2>0, <3>2, <3>3, <3>4, ListMaxAssumption
      <3> QED  BY <2>0, <3>1, <3>5, AnswerIsWork
    <2>3. ASSUME NEW q \in Query, Fail(q) \/ Drain(q)
          PROVE  Work' < Work
      <3>1. Unanswered' = Unanswered - 1
        BY <2>3, OneAnswerLess DEF Fail, Drain, main
      <3>2. /\ PhaseWork' = PhaseWork /\ PhaseWork \in Nat
            /\ UNCHANGED <<rest, unprobed>>
        BY <2>3 DEF Fail, Drain, main
      <3>3. 2 * Len(rest') + Len(unprobed') + PhaseWork'
              < 2 * Len(rest) + Len(unprobed) + PhaseWork + 2 * ListMax + 3
        BY <2>0, <3>2, ListMaxAssumption
      <3> QED  BY <2>0, <3>1, <3>3, AnswerIsWork
    <2>4. CASE Merge
      <3>1. /\ rest # <<>> /\ rest' = Tail(rest) /\ Schedule(Head(rest))
            /\ UNCHANGED <<phase, probed, queries>>
        BY <2>4 DEF Merge
      <3>2. Unanswered' = Unanswered
        BY <3>1 DEF Unanswered
      <3>3. Len(rest') = Len(rest) - 1
        BY <3>1 DEF IInv, TypeOK
      <3>4. Len(unprobed') <= Len(unprobed) + 1
        BY <3>1 DEF IInv, TypeOK, Schedule
      <3>5. PhaseWork' = PhaseWork /\ PhaseWork \in Nat
        BY <3>1
      <3>6. 2 * Len(rest') + Len(unprobed') + PhaseWork'
              < 2 * Len(rest) + Len(unprobed) + PhaseWork
        BY <2>0, <3>3, <3>4, <3>5
      <3> QED  BY <2>0, <2>a, <3>2, <3>6, LessWork
    <2>5. CASE Launch
      <3>1. /\ unprobed # <<>> /\ unprobed' = Tail(unprobed)
            /\ Ask(Head(unprobed)) /\ phase = "launch" /\ UNCHANGED <<phase, rest>>
        BY <2>5 DEF Launch
      <3>2. Head(unprobed) \in Node /\ Len(unprobed') = Len(unprobed) - 1
        BY <3>1 DEF IInv, TypeOK
      <3>3. Unanswered' = Unanswered
        BY <3>1, <3>2, AskedNotAnswered
      <3>4. PhaseWork' = PhaseWork /\ PhaseWork \in Nat
        BY <3>1
      <3>5. 2 * Len(rest') + Len(unprobed') + PhaseWork'
              < 2 * Len(rest) + Len(unprobed) + PhaseWork
        BY <2>0, <3>1, <3>2, <3>4
      <3> QED  BY <2>0, <2>a, <3>3, <3>5, LessWork
    <2>6. CASE Merged \/ Launched \/ Finish \/ Drained \/ LookupTimeout
      <3>1. Unanswered' = Unanswered
        BY <2>6 DEF Merged, Launched, Finish, Drained, LookupTimeout, Unanswered
      <3>2. PhaseWork' < PhaseWork /\ UNCHANGED <<rest, unprobed>>
        BY <2>6 DEF Merged, Launched, Finish, Drained, LookupTimeout
      <3>3. PhaseWork \in Nat
        BY WorkType
      <3> QED  BY <2>0, <2>a, <3>1, <3>2, <3>3, LessWork
    <2> QED
      BY <2>1, <2>2, <2>3, <2>4, <2>5, <2>6 DEF Next, Start, QueryEnds, Local
  <1>3. Spec => [](Work \in Nat)
    BY <1>1, Inductive, PTL
  <1>4. Spec => EveryStepIsWork
    <2>1. IInv /\ [Next]_vars => IInv'
      BY NextIInv
    <2> QED  BY <1>2, <2>1, Inductive, PTL DEF EveryStepIsWork, Spec
  <1> QED  BY <1>3, <1>4
=============================================================================
