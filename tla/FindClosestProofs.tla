------------------------- MODULE FindClosestProofs -------------------------
(***************************************************************************)
(* What FindClosest answers, for every number of bits, every bucket size   *)
(* and every set of contacts.  The recursive functions of the model are    *)
(* reasoned about by induction on a set of numbers (NatInductionSet), and  *)
(* powers of two by counting subsets (FS_SUBSET).                          *)
(***************************************************************************)
EXTENDS FindClosest, FiniteSetTheorems, SequenceTheorems, WellFoundedInduction,
        TLAPS

-----------------------------------------------------------------------------
(* Numbers.                                                                *)

LEMMA LeastNatural ==
    ASSUME NEW S, S \subseteq Nat, S # {}
    PROVE  \E m \in S : \A n \in S : m <= n
  <1>1. PICK m \in S : \A n \in S : <<n, m>> \notin OpToRel(<, Nat)
    BY NatLessThanWellFounded, WFMin, Zenon
  <1>2. \A n \in S : ~(n < m)
    BY <1>1, Zenon DEF OpToRel
  <1> QED  BY <1>2

\* Induction, with the statement given as the set of numbers it holds of.
LEMMA NatInductionSet ==
    ASSUME NEW S \in SUBSET Nat,
           \A n \in Nat : (\A m \in Nat : m < n => m \in S) => n \in S
    PROVE  \A n \in Nat : n \in S
  <1> SUFFICES ASSUME Nat \ S # {}
               PROVE  FALSE
    OBVIOUS
  <1>1. PICK n \in Nat \ S : \A m \in Nat \ S : n <= m
    BY LeastNatural
  <1>2. \A m \in Nat : m < n => m \in S
    BY <1>1
  <1> QED  BY <1>1, <1>2

LEMMA PowerFacts ==
    ASSUME NEW n \in Nat
    PROVE  2 ^ n \in Nat /\ 2 ^ n >= 1 /\ 2 ^ (n + 1) = 2 * 2 ^ n
  <1> DEFINE S == 1 .. n
             T == 1 .. n + 1
             Old == SUBSET S
             New == {s \in SUBSET T : n + 1 \in s}
  <1>1. /\ IsFiniteSet(S) /\ Cardinality(S) = n
        /\ IsFiniteSet(T) /\ Cardinality(T) = n + 1
    BY FS_Interval
  <1>2. /\ IsFiniteSet(Old) /\ Cardinality(Old) = 2 ^ n
        /\ IsFiniteSet(SUBSET T) /\ Cardinality(SUBSET T) = 2 ^ (n + 1)
    BY <1>1, FS_SUBSET
  <1>3. SUBSET T = Old \cup New /\ Old \cap New = {}
    <2>1. \A i : i \in T <=> i \in S \/ i = n + 1
      OBVIOUS
    <2>2. n + 1 \notin S
      OBVIOUS
    <2> HIDE DEF S, T
    <2> QED  BY <2>1, <2>2
  <1>4. IsFiniteSet(New) /\ Cardinality(New) = Cardinality(Old)
    <2> DEFINE f == [s \in Old |-> s \cup {n + 1}]
    <2>0. S = T \ {n + 1} /\ n + 1 \in T
      OBVIOUS
    <2> HIDE DEF S, T
    <2>1. f \in [Old -> New]
      BY <2>0
    <2>2. \A s, u \in Old : f[s] = f[u] => s = u
      BY <2>0
    <2>3. \A u \in New : \E s \in Old : f[s] = u
      <3> SUFFICES ASSUME NEW u \in New
                   PROVE  \E s \in Old : f[s] = u
        OBVIOUS
      <3>1. u \ {n + 1} \in Old
        BY <2>0
      <3>2. f[u \ {n + 1}] = u
        BY <3>1
      <3> QED  BY <3>1, <3>2
    <2> HIDE DEF Old, New, f
    <2>4. f \in Bijection(Old, New)
      BY <2>1, <2>2, <2>3 DEF Bijection, Injection, Surjection, IsInjective
    <2>5. ExistsBijection(Old, New)
      BY <2>4 DEF ExistsBijection
    <2> QED  BY <1>2, <2>5, FS_Bijection
  <1>5. {} \in Old /\ Cardinality(Old) # 0
    <2>1. {} \in Old
      OBVIOUS
    <2> QED  BY <1>2, <2>1, FS_EmptySet
  <1> HIDE DEF Old, New, S, T
  <1>6. Cardinality(Old) \in Nat
    BY <1>2, FS_CardinalityType
  <1>7. Cardinality(SUBSET T) = Cardinality(Old) + Cardinality(New) - Cardinality({})
    BY <1>2, <1>3, <1>4, FS_Union
  <1>8. Cardinality({}) = 0
    BY FS_EmptySet
  <1> QED  BY <1>2, <1>4, <1>5, <1>6, <1>7, <1>8

-----------------------------------------------------------------------------
(* The number a set of bits stands for.                                    *)

SumOf(S) == MapThenSumSet(Weight, S)

Pick(S) == CHOOSE x \in S : TRUE

LEMMA WeightFacts ==
    ASSUME NEW i \in BitPosition
    PROVE  /\ Weight(i) \in Nat /\ Weight(i) >= 1
           /\ i + 1 \in BitPosition => Weight(i) = 2 * Weight(i + 1)
  <1>1. IdBits \in Nat /\ IdBits - 1 - i \in Nat
    BY IdBitsAssumption DEF BitPosition
  <1>2. Weight(i) \in Nat /\ Weight(i) >= 1
    BY <1>1, PowerFacts DEF Weight
  <1>3. ASSUME i + 1 \in BitPosition
        PROVE  Weight(i) = 2 * Weight(i + 1)
    <2> DEFINE n == IdBits - 1 - (i + 1)
    <2>1. n \in Nat /\ IdBits - 1 - i = n + 1
      BY <1>1, <1>3 DEF BitPosition
    <2>2. 2 ^ (n + 1) = 2 * 2 ^ n
      BY <2>1, PowerFacts
    <2> QED  BY <2>1, <2>2 DEF Weight
  <1> QED  BY <1>2, <1>3

LEMMA BitSets ==
    ASSUME NEW S \in SUBSET BitPosition
    PROVE  /\ IsFiniteSet(S) /\ Cardinality(S) \in Nat
           /\ S = {} => Cardinality(S) = 0
           /\ \A x \in S : /\ S \ {x} \in SUBSET BitPosition
                           /\ Cardinality(S \ {x}) = Cardinality(S) - 1
           /\ S # {} => Pick(S) \in S
  <1>1. IsFiniteSet(BitPosition)
    BY IdBitsAssumption, FS_Interval DEF BitPosition
  <1>2. IsFiniteSet(S) /\ Cardinality(S) \in Nat
    BY <1>1, FS_Subset, FS_CardinalityType
  <1> QED  BY <1>2, FS_EmptySet, FS_RemoveElement DEF Pick

\* A function that adds up the weights of every set of at most n bits.
LEMMA PartialSum ==
    \A n \in Nat :
        \E f \in [{s \in SUBSET BitPosition : Cardinality(s) <= n} -> Nat] :
            \A s \in DOMAIN f :
                f[s] = IF s = {} THEN 0 ELSE Weight(Pick(s)) + f[s \ {Pick(s)}]
  <1> DEFINE D(n) == {s \in SUBSET BitPosition : Cardinality(s) <= n}
             Adds(f) == \A s \in DOMAIN f :
                f[s] = IF s = {} THEN 0 ELSE Weight(Pick(s)) + f[s \ {Pick(s)}]
             Good == {n \in Nat : \E f \in [D(n) -> Nat] : Adds(f)}
  <1>1. ASSUME NEW n \in Nat, \A m \in Nat : m < n => m \in Good
        PROVE  n \in Good
    <2>1. CASE n = 0
      <3> DEFINE f == [s \in D(n) |-> 0]
      <3>1. \A s \in D(n) : s = {}
        BY <2>1, BitSets, FS_EmptySet
      <3>2. f \in [D(n) -> Nat] /\ Adds(f)
        BY <3>1
      <3> QED  BY <3>2
    <2>2. CASE n # 0
      <3>1. n - 1 \in Nat /\ n - 1 < n
        BY <2>2
      <3>2. PICK f \in [D(n - 1) -> Nat] : Adds(f)
        BY <1>1, <3>1
      <3> DEFINE g == [s \in D(n) |-> IF s = {} THEN 0
                                      ELSE Weight(Pick(s)) + f[s \ {Pick(s)}]]
      <3>3. \A s \in D(n) : s # {} =>
              /\ s \ {Pick(s)} \in D(n - 1) /\ s \ {Pick(s)} \in D(n)
              /\ Weight(Pick(s)) \in Nat
        BY BitSets, WeightFacts
      <3> HIDE DEF D
      <3>4. g \in [D(n) -> Nat]
        BY <3>2, <3>3
      <3>5. \A s \in D(n - 1) : s \in D(n)
        <4>1. \A s \in SUBSET BitPosition : Cardinality(s) \in Nat
          BY BitSets
        <4> QED  BY <3>1, <4>1 DEF D
      <3>6. \A s \in D(n - 1) : g[s] = f[s]
        BY <3>2, <3>5
      <3>7. Adds(g)
        <4> SUFFICES ASSUME NEW s \in D(n), s # {}
                     PROVE  g[s] = Weight(Pick(s)) + g[s \ {Pick(s)}]
          OBVIOUS
        <4> QED  BY <3>3, <3>6
      <3> HIDE DEF g
      <3> QED  BY <3>4, <3>7
    <2> QED  BY <2>1, <2>2
  <1>2. Good \in SUBSET Nat
    OBVIOUS
  <1>3. \A n \in Nat : n \in Good
    <2> HIDE DEF Good
    <2> QED  BY <1>1, <1>2, NatInductionSet
  <1> QED  BY <1>3

LEMMA SumOfDefinition ==
    ASSUME NEW S
    PROVE  SumOf(S) = (CHOOSE f : f = [s \in SUBSET S |->
                          IF s = {} THEN 0
                          ELSE Weight(Pick(s)) + f[s \ {Pick(s)}]])[S]
  BY DEF SumOf, MapThenSumSet, MapThenFoldSet, Pick

\* MapThenSumSet takes the bits of a set one at a time, Pick first.
LEMMA SumOfPick ==
    ASSUME NEW S \in SUBSET BitPosition
    PROVE  /\ SumOf(S) \in Nat
           /\ S = {} => SumOf(S) = 0
           /\ S # {} => SumOf(S) = Weight(Pick(S)) + SumOf(S \ {Pick(S)})
  <1> DEFINE D == SUBSET BitPosition
             Step(f, s) == IF s = {} THEN 0
                           ELSE Weight(Pick(s)) + f[s \ {Pick(s)}]
  <1>1. PICK F \in [D -> Nat] : \A s \in D : F[s] = Step(F, s)
    <2> DEFINE n == Cardinality(BitPosition)
    <2>1. n \in Nat /\ D = {s \in SUBSET BitPosition : Cardinality(s) <= n}
      <3>1. BitPosition \in SUBSET BitPosition
        OBVIOUS
      <3>2. \A s \in SUBSET BitPosition : Cardinality(s) <= n
        BY <3>1, BitSets, FS_Subset
      <3> QED  BY <3>1, <3>2, BitSets
    <2> HIDE DEF n, D
    <2> QED  BY <2>1, PartialSum
  <1>2. ASSUME NEW T \in D
        PROVE  SumOf(T) = F[T]
    <2> DEFINE h == [s \in SUBSET T |-> F[s]]
               Eq(f) == f = [s \in SUBSET T |-> Step(f, s)]
               g == CHOOSE f : Eq(f)
    <2>1. \A s \in SUBSET T : s \in D /\ (s # {} => s \ {Pick(s)} \in SUBSET T)
      OBVIOUS
    <2>2. Eq(h)
      <3>1. \A s \in SUBSET T : F[s] = Step(h, s)
        BY <1>1, <2>1
      <3> QED  BY <3>1
    <2>3. Eq(g)
      BY <2>2
    <2> HIDE DEF h, g
    <2>4. \A s \in SUBSET T : g[s] = Step(g, s)
      BY <2>3
    <2> DEFINE Good == {n \in Nat : \A s \in SUBSET T :
                                       Cardinality(s) = n => g[s] = F[s]}
    <2>5. ASSUME NEW n \in Nat, \A m \in Nat : m < n => m \in Good
          PROVE  n \in Good
      <3> SUFFICES ASSUME NEW s \in SUBSET T, Cardinality(s) = n
                   PROVE  g[s] = F[s]
        OBVIOUS
      <3>1. CASE s = {}
        BY <1>1, <2>1, <2>4, <3>1
      <3>2. CASE s # {}
        <4> DEFINE u == s \ {Pick(s)}
        <4>1. u \in SUBSET T /\ Cardinality(u) \in Nat /\ Cardinality(u) < n
          BY <2>1, <3>2, BitSets
        <4>2. g[u] = F[u]
          BY <2>5, <4>1
        <4> QED  BY <1>1, <2>1, <2>4, <3>2, <4>2
      <3> QED  BY <3>1, <3>2
    <2>6. Good \in SUBSET Nat
      OBVIOUS
    <2>7. \A n \in Nat : n \in Good
      <3> HIDE DEF Good
      <3> QED  BY <2>5, <2>6, NatInductionSet
    <2>8. T \in SUBSET T /\ Cardinality(T) \in Nat
      BY BitSets
    <2>9. g[T] = F[T]
      BY <2>7, <2>8
    <2>10. SumOf(T) = g[T]
      BY SumOfDefinition DEF g
    <2> QED  BY <2>9, <2>10
  <1>3. S # {} => S \ {Pick(S)} \in D
    OBVIOUS
  <1> QED  BY <1>1, <1>2, <1>3

\* The order in which the weights are added does not matter.
LEMMA SumOfRemove ==
    ASSUME NEW S \in SUBSET BitPosition, NEW x \in S
    PROVE  SumOf(S) = Weight(x) + SumOf(S \ {x})
  <1> DEFINE Good == {n \in Nat : \A s \in SUBSET BitPosition : \A y \in s :
                         Cardinality(s) = n => SumOf(s) = Weight(y) + SumOf(s \ {y})}
  <1>1. ASSUME NEW n \in Nat, \A m \in Nat : m < n => m \in Good
        PROVE  n \in Good
    <2> SUFFICES ASSUME NEW s \in SUBSET BitPosition, NEW y \in s,
                        Cardinality(s) = n
                 PROVE  SumOf(s) = Weight(y) + SumOf(s \ {y})
      OBVIOUS
    <2> DEFINE p == Pick(s)
    <2>1. p \in s /\ SumOf(s) = Weight(p) + SumOf(s \ {p})
      BY BitSets, SumOfPick
    <2>2. CASE y = p
      BY <2>1, <2>2
    <2>3. CASE y # p
      <3> DEFINE u == s \ {y}
                 v == s \ {p}
                 w == (s \ {p}) \ {y}
      <3> HIDE DEF p
      <3>1. /\ u \in SUBSET BitPosition /\ p \in u
            /\ v \in SUBSET BitPosition /\ y \in v
            /\ w \in SUBSET BitPosition /\ u \ {p} = w /\ v \ {y} = w
        BY <2>1, <2>3
      <3>2. Cardinality(u) = n - 1 /\ Cardinality(v) = n - 1 /\ n - 1 \in Nat
        <4>1. Cardinality(u) = n - 1 /\ Cardinality(v) = n - 1
          BY <2>1, BitSets
        <4>2. Cardinality(u) \in Nat
          BY <3>1, BitSets
        <4> QED  BY <4>1, <4>2
      <3>3. n - 1 < n /\ n - 1 \in Good
        BY <1>1, <3>2
      <3> HIDE DEF u, v, w
      <3>4. SumOf(u) = Weight(p) + SumOf(u \ {p})
        BY <3>1, <3>2, <3>3
      <3>5. SumOf(v) = Weight(y) + SumOf(v \ {y})
        BY <3>1, <3>2, <3>3
      <3>6. Weight(p) \in Nat /\ Weight(y) \in Nat /\ SumOf(w) \in Nat
        BY <2>1, <3>1, WeightFacts, SumOfPick
      <3> DEFINE A == SumOf(s)
                 B == SumOf(u)
                 C == SumOf(v)
      <3>7. A = Weight(p) + C
        BY <2>1 DEF v
      <3>8. B = Weight(p) + SumOf(w) /\ C = Weight(y) + SumOf(w)
        BY <3>1, <3>4, <3>5
      <3> HIDE DEF A, B, C
      <3>9. A = Weight(y) + B
        BY <3>6, <3>7, <3>8
      <3> QED  BY <3>9 DEF A, B, u
    <2> QED  BY <2>2, <2>3
  <1>2. Good \in SUBSET Nat
    OBVIOUS
  <1>3. \A n \in Nat : n \in Good
    <2> HIDE DEF Good
    <2> QED  BY <1>1, <1>2, NatInductionSet
  <1>4. Cardinality(S) \in Nat
    BY BitSets
  <1> QED  BY <1>3, <1>4

\* All the lower bits together weigh less than one bit.
LEMMA LowerBitsWeighLess ==
    ASSUME NEW d \in BitPosition, NEW S \in SUBSET BitPosition,
           \A i \in S : d < i
    PROVE  SumOf(S) < Weight(d)
  <1> DEFINE Good == {n \in Nat :
                 \A e \in BitPosition : \A s \in SUBSET BitPosition :
                    (n = IdBits - 1 - e /\ \A i \in s : e < i)
                        => SumOf(s) < Weight(e)}
  <1>0. IdBits \in Nat /\ BitPosition \subseteq Nat
    BY IdBitsAssumption DEF BitPosition
  <1>1. ASSUME NEW n \in Nat, \A m \in Nat : m < n => m \in Good
        PROVE  n \in Good
    <2> SUFFICES ASSUME NEW e \in BitPosition, NEW s \in SUBSET BitPosition,
                        n = IdBits - 1 - e, \A i \in s : e < i
                 PROVE  SumOf(s) < Weight(e)
      OBVIOUS
    <2>0. Weight(e) \in Nat /\ Weight(e) >= 1
      BY WeightFacts
    <2>1. CASE s = {}
      <3>1. SumOf(s) = 0
        BY <2>1, SumOfPick
      <3> QED  BY <2>0, <3>1
    <2>2. CASE s # {}
      <3> DEFINE u == s \ {e + 1}
      <3>1. e + 1 \in BitPosition
        <4>1. PICK i \in s : e < i
          BY <2>2
        <4> QED  BY <1>0, <4>1 DEF BitPosition
      <3>2. u \in SUBSET BitPosition /\ \A i \in u : e + 1 < i
        BY <1>0
      <3>3. SumOf(u) < Weight(e + 1)
        <4>1. n - 1 = IdBits - 1 - (e + 1) /\ n - 1 \in Nat /\ n - 1 < n
          BY <1>0, <3>1 DEF BitPosition
        <4>2. n - 1 \in Good
          BY <1>1, <4>1
        <4> HIDE DEF u
        <4> QED  BY <3>1, <3>2, <4>1, <4>2
      <3>4. /\ Weight(e) = 2 * Weight(e + 1) /\ Weight(e + 1) \in Nat
            /\ SumOf(u) \in Nat
        BY <3>1, <3>2, WeightFacts, SumOfPick
      <3>5. CASE e + 1 \in s
        <4>1. SumOf(s) = Weight(e + 1) + SumOf(u)
          BY <3>5, SumOfRemove
        <4> HIDE DEF u
        <4> QED  BY <3>3, <3>4, <4>1
      <3>6. CASE e + 1 \notin s
        <4>1. u = s
          BY <3>6
        <4> HIDE DEF u
        <4> QED  BY <3>3, <3>4, <4>1
      <3> QED  BY <3>5, <3>6
    <2> QED  BY <2>1, <2>2
  <1>2. Good \in SUBSET Nat
    OBVIOUS
  <1>3. \A n \in Nat : n \in Good
    <2> HIDE DEF Good
    <2> QED  BY <1>1, <1>2, NatInductionSet
  <1>4. IdBits - 1 - d \in Nat
    BY <1>0 DEF BitPosition
  <1> QED  BY <1>3, <1>4

\* Of two sets of bits that agree above bit d, the one with bit d is larger.
LEMMA FirstBitDecides ==
    ASSUME NEW A \in SUBSET BitPosition, NEW B \in SUBSET BitPosition,
           NEW d \in B, d \notin A,
           \A i \in BitPosition : i < d => (i \in A <=> i \in B)
    PROVE  SumOf(A) < SumOf(B)
  <1> DEFINE Agree(a, b) == /\ d \in b /\ d \notin a
                            /\ \A i \in BitPosition : i < d => (i \in a <=> i \in b)
             Good == {n \in Nat : \A a, b \in SUBSET BitPosition :
                        (Cardinality(a) = n /\ Agree(a, b)) => SumOf(a) < SumOf(b)}
  <1>1. ASSUME NEW n \in Nat, \A m \in Nat : m < n => m \in Good
        PROVE  n \in Good
    <2> SUFFICES ASSUME NEW a \in SUBSET BitPosition, NEW b \in SUBSET BitPosition,
                        Cardinality(a) = n, Agree(a, b)
                 PROVE  SumOf(a) < SumOf(b)
      OBVIOUS
    <2>1. CASE \A i \in a : d < i
      <3>1. SumOf(a) < Weight(d)
        BY <2>1, LowerBitsWeighLess
      <3>2. SumOf(b) = Weight(d) + SumOf(b \ {d})
        BY SumOfRemove
      <3>3. /\ SumOf(b \ {d}) \in Nat /\ SumOf(a) \in Nat
            /\ Weight(d) \in Nat
        BY SumOfPick, WeightFacts
      <3> QED  BY <3>1, <3>2, <3>3
    <2>2. CASE \E i \in a : ~(d < i)
      <3>1. PICK i \in a : ~(d < i)
        BY <2>2
      <3>2. i < d /\ i \in b
        BY <3>1 DEF BitPosition
      <3> DEFINE u == a \ {i}
                 v == b \ {i}
      <3>3. /\ u \in SUBSET BitPosition /\ v \in SUBSET BitPosition
            /\ Agree(u, v)
        BY <3>2
      <3>4. Cardinality(u) = n - 1 /\ Cardinality(u) \in Nat
        BY <3>3, BitSets
      <3>5. n - 1 \in Nat /\ n - 1 < n /\ n - 1 \in Good
        BY <1>1, <3>4
      <3>6. SumOf(a) = Weight(i) + SumOf(u) /\ SumOf(b) = Weight(i) + SumOf(v)
        BY <3>2, SumOfRemove
      <3> HIDE DEF u, v, Agree
      <3>7. SumOf(u) < SumOf(v)
        BY <3>3, <3>4, <3>5
      <3>8. SumOf(u) \in Nat /\ SumOf(v) \in Nat /\ Weight(i) \in Nat
        BY <3>3, SumOfPick, WeightFacts
      <3> QED  BY <3>6, <3>7, <3>8
    <2> QED  BY <2>1, <2>2
  <1>2. Good \in SUBSET Nat
    OBVIOUS
  <1>3. \A n \in Nat : n \in Good
    <2> HIDE DEF Good
    <2> QED  BY <1>1, <1>2, NatInductionSet
  <1>4. Cardinality(A) \in Nat
    BY BitSets
  <1> QED  BY <1>3, <1>4

-----------------------------------------------------------------------------
(* The distance.                                                           *)

LEMMA MinFacts ==
    ASSUME NEW S \in SUBSET Nat, S # {}
    PROVE  Min(S) \in S /\ \A y \in S : Min(S) <= y
  <1>1. \E x \in S : \A y \in S : x <= y
    BY LeastNatural
  <1> QED  BY <1>1 DEF Min

LEMMA DiffBitFacts ==
    ASSUME NEW a \in Id, NEW b \in Id, a # b
    PROVE  /\ DiffBit(a, b) \in BitPosition
           /\ a[DiffBit(a, b)] # b[DiffBit(a, b)]
           /\ \A i \in BitPosition : i < DiffBit(a, b) => a[i] = b[i]
  <1> DEFINE S == {i \in BitPosition : a[i] # b[i]}
  <1>0. BitPosition \subseteq Nat
    BY DEF BitPosition
  <1>1. S \in SUBSET Nat /\ S # {}
    <2>1. \E i \in BitPosition : a[i] # b[i]
      <3>1. a = [i \in BitPosition |-> a[i]] /\ b = [i \in BitPosition |-> b[i]]
        BY DEF Id
      <3> QED  BY <3>1
    <2>2. S \in SUBSET Nat
      BY <1>0
    <2> QED  BY <2>1, <2>2
  <1>2. Min(S) \in S /\ \A i \in S : Min(S) <= i
    <2> HIDE DEF S
    <2> QED  BY <1>1, MinFacts
  <1>3. DiffBit(a, b) = Min(S)
    BY DEF DiffBit
  <1> DEFINE d == Min(S)
  <1>4. d \in BitPosition /\ a[d] # b[d]
    BY <1>2
  <1>5. \A i \in BitPosition : i < d => a[i] = b[i]
    <2> SUFFICES ASSUME NEW i \in BitPosition, i < d
                 PROVE  a[i] = b[i]
      OBVIOUS
    <2>1. ~(d <= i)
      <3>1. i \in Nat /\ d \in Nat
        BY <1>0, <1>4
      <3> HIDE DEF d
      <3> QED  BY <3>1
    <2>2. i \notin S
      BY <1>2, <2>1
    <2> QED  BY <2>2
  <1> QED  BY <1>3, <1>4, <1>5

LEMMA DistanceType ==
    ASSUME NEW a \in Id, NEW b \in Id
    PROVE  Distance(a, b) \in Nat
  <1>1. {i \in BitPosition : Xor(a, b)[i] = 1} \in SUBSET BitPosition
    OBVIOUS
  <1> QED  BY <1>1, SumOfPick DEF Distance, ToBigInt, SumOf

\* Agreeing with the target on the first bit in which two ids differ is enough.
LEMMA AgreeingIsCloser ==
    ASSUME NEW a \in Id, NEW b \in Id, a # b, NEW target \in Id,
           a[DiffBit(a, b)] = target[DiffBit(a, b)]
    PROVE  CloserTo(a, target, b)
  <1> DEFINE d == DiffBit(a, b)
             A == {i \in BitPosition : Xor(a, target)[i] = 1}
             B == {i \in BitPosition : Xor(b, target)[i] = 1}
  <1>1. /\ A = {i \in BitPosition : a[i] # target[i]}
        /\ B = {i \in BitPosition : b[i] # target[i]}
    BY DEF Xor
  <1>2. /\ d \in BitPosition /\ a[d] # b[d] /\ a[d] = target[d]
        /\ \A i \in BitPosition : i < d => a[i] = b[i]
    BY DiffBitFacts
  <1> HIDE DEF d
  <1>3. d \in B /\ d \notin A
    BY <1>1, <1>2
  <1>4. \A i \in BitPosition : i < d => (i \in A <=> i \in B)
    BY <1>1, <1>2
  <1>5. SumOf(A) < SumOf(B)
    <2>1. A \in SUBSET BitPosition /\ B \in SUBSET BitPosition
      OBVIOUS
    <2> HIDE DEF A, B
    <2> QED  BY <1>3, <1>4, <2>1, FirstBitDecides
  <1> QED  BY <1>5 DEF CloserTo, Distance, ToBigInt, SumOf

LEMMA DiffBitSymmetric ==
    ASSUME NEW a, NEW b
    PROVE  DiffBit(a, b) = DiffBit(b, a)
  <1>1. {i \in BitPosition : a[i] # b[i]} = {i \in BitPosition : b[i] # a[i]}
    OBVIOUS
  <1> QED  BY <1>1 DEF DiffBit

LEMMA FirstDifference ==
    ASSUME NEW a \in Id, NEW b \in Id, a # b, NEW target \in Id
    PROVE  CloserTo(a, target, b) <=> a[DiffBit(a, b)] = target[DiffBit(a, b)]
  <1> DEFINE d == DiffBit(a, b)
  <1>1. CASE a[d] = target[d]
    BY <1>1, AgreeingIsCloser
  <1>2. CASE a[d] # target[d]
    <2>1. d \in BitPosition /\ a[d] # b[d]
      BY DiffBitFacts
    <2>2. a[d] \in {0, 1} /\ b[d] \in {0, 1} /\ target[d] \in {0, 1}
      BY <2>1 DEF Id
    <2>3. b[d] = target[d]
      BY <1>2, <2>1, <2>2
    <2>4. CloserTo(b, target, a)
      BY <2>3, AgreeingIsCloser, DiffBitSymmetric
    <2>5. Distance(a, target) \in Nat /\ Distance(b, target) \in Nat
      BY DistanceType
    <2>6. ~CloserTo(a, target, b)
      BY <2>4, <2>5 DEF CloserTo
    <2> QED  BY <1>2, <2>6
  <1> QED  BY <1>1, <1>2

-----------------------------------------------------------------------------
(* The buckets.                                                            *)

\* What the buckets of KBucket satisfy in every reachable state: contacts
\* without repetition, at most K, each in the bucket its id belongs to.
BucketsSound ==
    /\ order \in [Bucket -> Seq(Contact)]
    /\ \A b \in Bucket :
         /\ Len(order[b]) <= K
         /\ IsInjective(order[b])
         /\ \A c \in ToSet(order[b]) : BucketOf[c] = b

LEMMA RemoveAtFacts ==
    ASSUME NEW S, NEW s \in Seq(S), NEW p \in 1 .. Len(s)
    PROVE  /\ RemoveAt(s, p) \in Seq(S)
           /\ Len(RemoveAt(s, p)) = Len(s) - 1
           /\ \A j \in 1 .. Len(s) - 1 :
                RemoveAt(s, p)[j] = IF j < p THEN s[j] ELSE s[j + 1]
  <1> DEFINE u == SubSeq(s, 1, p - 1)
             v == SubSeq(s, p + 1, Len(s))
  <1>1. /\ u \in Seq(S)
        /\ Len(u) = p - 1
        /\ \A j \in 1 .. p - 1 : u[j] = s[j]
    OBVIOUS
  <1>2. /\ v \in Seq(S)
        /\ Len(v) = Len(s) - p
        /\ \A j \in 1 .. Len(s) - p : v[j] = s[p + j]
    OBVIOUS
  <1>3. RemoveAt(s, p) = u \o v
    BY DEF RemoveAt
  <1> HIDE DEF u, v
  <1>4. /\ u \o v \in Seq(S)
        /\ Len(u \o v) = Len(u) + Len(v)
        /\ \A j \in 1 .. Len(u) + Len(v) :
             (u \o v)[j] = IF j <= Len(u) THEN u[j] ELSE v[j - Len(u)]
    BY <1>1, <1>2, ConcatProperties
  <1>5. Len(u) + Len(v) = Len(s) - 1
    BY <1>1, <1>2
  <1>6. ASSUME NEW j \in 1 .. Len(s) - 1
        PROVE  RemoveAt(s, p)[j] = IF j < p THEN s[j] ELSE s[j + 1]
    <2>1. CASE j < p
      BY <1>1, <1>3, <1>4, <1>5, <2>1
    <2>2. CASE ~(j < p)
      <3>1. j - (p - 1) \in 1 .. Len(s) - p /\ ~(j <= p - 1)
        BY <2>2
      <3>2. (u \o v)[j] = v[j - (p - 1)]
        BY <1>1, <1>4, <1>5, <3>1
      <3>3. v[j - (p - 1)] = s[p + (j - (p - 1))]
        BY <1>2, <3>1
      <3>4. p + (j - (p - 1)) = j + 1
        OBVIOUS
      <3> QED  BY <1>3, <2>2, <3>2, <3>3, <3>4
    <2> QED  BY <2>1, <2>2
  <1> QED  BY <1>3, <1>4, <1>5, <1>6

LEMMA AppendFacts ==
    ASSUME NEW S, NEW s \in Seq(S), NEW c \in S
    PROVE  /\ Append(s, c) \in Seq(S)
           /\ Len(Append(s, c)) = Len(s) + 1
           /\ ToSet(Append(s, c)) = ToSet(s) \cup {c}
           /\ (IsInjective(s) /\ c \notin ToSet(s)) => IsInjective(Append(s, c))
  <1> DEFINE u == Append(s, c)
             n == Len(s)
  <1>1. /\ u \in Seq(S) /\ Len(u) = n + 1 /\ n \in Nat
        /\ DOMAIN u = 1 .. n + 1 /\ DOMAIN s = 1 .. n
        /\ \A i \in 1 .. n : u[i] = s[i]
        /\ u[n + 1] = c
    OBVIOUS
  <1> HIDE DEF u, n
  <1>2. \A i \in 1 .. n + 1 : i \in 1 .. n \/ i = n + 1
    BY <1>1
  <1>3. \A i \in 1 .. n : i \in 1 .. n + 1
    BY <1>1
  <1>4. n + 1 \in 1 .. n + 1
    BY <1>1
  <1>5. ToSet(u) = ToSet(s) \cup {c}
    <2>1. ToSet(u) \subseteq ToSet(s) \cup {c}
      BY <1>1, <1>2 DEF ToSet
    <2>2. ToSet(s) \subseteq ToSet(u)
      BY <1>1, <1>3 DEF ToSet
    <2>3. c \in ToSet(u)
      BY <1>1, <1>4 DEF ToSet
    <2> QED  BY <2>1, <2>2, <2>3
  <1>6. ASSUME IsInjective(s), c \notin ToSet(s)
        PROVE  IsInjective(u)
    <2>1. \A i \in 1 .. n : u[i] # c
      BY <1>1, <1>6 DEF ToSet
    <2> QED  BY <1>1, <1>2, <1>6, <2>1 DEF IsInjective
  <1> QED  BY <1>1, <1>5, <1>6 DEF u, n

\* The contact at p goes, and c, the same contact or a new one, comes last.
LEMMA RemoveAppendFacts ==
    ASSUME NEW S, NEW s \in Seq(S), IsInjective(s), NEW p \in DOMAIN s,
           NEW c \in S, c = s[p] \/ c \notin ToSet(s)
    PROVE  LET u == Append(RemoveAt(s, p), c)
           IN  /\ u \in Seq(S) /\ Len(u) = Len(s) /\ IsInjective(u)
               /\ ToSet(u) \subseteq ToSet(s) \cup {c}
  <1> DEFINE r == RemoveAt(s, p)
             n == Len(s)
             Old(j) == IF j < p THEN j ELSE j + 1
  <1>1. p \in 1 .. n /\ n \in Nat /\ DOMAIN s = 1 .. n
    OBVIOUS
  <1>2. /\ r \in Seq(S) /\ Len(r) = n - 1
        /\ \A j \in 1 .. n - 1 : r[j] = s[Old(j)]
    <2>1. \A j \in 1 .. n - 1 : r[j] = IF j < p THEN s[j] ELSE s[j + 1]
      BY <1>1, RemoveAtFacts
    <2> QED  BY <1>1, <2>1, RemoveAtFacts
  <1> HIDE DEF r
  <1>3. DOMAIN r = 1 .. n - 1
    BY <1>1, <1>2
  <1>4. /\ \A j \in 1 .. n - 1 : Old(j) \in 1 .. n /\ Old(j) # p
        /\ \A i, j \in 1 .. n - 1 : Old(i) = Old(j) => i = j
    BY <1>1
  <1> HIDE DEF Old
  <1>5. IsInjective(r)
    BY <1>1, <1>2, <1>3, <1>4 DEF IsInjective
  <1>6. ToSet(r) \subseteq ToSet(s)
    BY <1>1, <1>2, <1>3, <1>4 DEF ToSet
  <1>7. c \notin ToSet(r)
    <2>1. CASE c = s[p]
      BY <1>1, <1>2, <1>3, <1>4, <2>1 DEF ToSet, IsInjective
    <2>2. CASE c \notin ToSet(s)
      BY <1>6, <2>2
    <2> QED  BY <2>1, <2>2
  <1>8. /\ Append(r, c) \in Seq(S) /\ Len(Append(r, c)) = Len(r) + 1
        /\ ToSet(Append(r, c)) = ToSet(r) \cup {c}
        /\ IsInjective(Append(r, c))
    BY <1>2, <1>5, <1>7, AppendFacts
  <1>9. Len(Append(r, c)) = n
    BY <1>1, <1>2, <1>8
  <1> QED  BY <1>6, <1>8, <1>9 DEF r

LEMMA BucketIndexFacts ==
    ASSUME NEW a \in Id, NEW b \in Id
    PROVE  BucketIndex(a, b) \in 0 .. IdBits - 1
  <1>1. DiffBit(a, b) \in 0 .. IdBits - 1
    <2>1. CASE a = b
      BY <2>1, IdBitsAssumption DEF DiffBit
    <2>2. CASE a # b
      BY <2>2, DiffBitFacts DEF BitPosition
    <2> QED  BY <2>1, <2>2
  <1> QED  BY <1>1, IdBitsAssumption DEF BucketIndex

LEMMA BucketOfFacts ==
    ASSUME NEW c \in Contact
    PROVE  c \in Id /\ BucketOf[c] = BucketIndex(Owner, c) /\ BucketOf[c] \in Bucket
  BY OwnerAssumption, BucketAssumption, BucketIndexFacts

\* A bucket is replaced by one that keeps the invariant.
LEMMA BucketChanged ==
    ASSUME BucketsSound, NEW b \in Bucket, NEW u \in Seq(Contact),
           Len(u) <= K, IsInjective(u), \A c \in ToSet(u) : BucketOf[c] = b,
           order' = [order EXCEPT ![b] = u]
    PROVE  BucketsSound'
  <1>1. order' \in [Bucket -> Seq(Contact)]
    BY DEF BucketsSound
  <1>2. ASSUME NEW d \in Bucket
        PROVE  order'[d] = IF d = b THEN u ELSE order[d]
    BY DEF BucketsSound
  <1> QED  BY <1>1, <1>2 DEF BucketsSound

\* As long as no two calls of NewContact ping for one bucket at the same time,
\* each amounts to Touch, Add or Replace of KBucket (RoutingTableProofs!Refinement),
\* and then the buckets hold what FindClosest relies on.  Pings that overlap
\* can leave a contact twice, or K + 1 contacts, in a bucket (table_overflow).
LEMMA BucketsStaySound == Spec => []BucketsSound
  <1>1. Init => BucketsSound
    <2> SUFFICES ASSUME Init
                 PROVE  BucketsSound
      OBVIOUS
    <2>1. \A b \in Bucket : order[b] = <<>>
      BY DEF Init
    <2>2. order \in [Bucket -> Seq(Contact)]
      BY DEF Init
    <2>3. DOMAIN <<>> = {} /\ Len(<<>>) = 0
      OBVIOUS
    <2> QED  BY <2>1, <2>2, <2>3, SizeAssumption DEF BucketsSound, IsInjective, ToSet
  <1>2. BucketsSound /\ [Next]_order => BucketsSound'
    <2> SUFFICES ASSUME BucketsSound, [Next]_order
                 PROVE  BucketsSound'
      OBVIOUS
    <2>1. ASSUME NEW b \in Bucket, Touch(b)
          PROVE  BucketsSound'
      <3>1. PICK i \in DOMAIN order[b] :
              order' = [order EXCEPT ![b] = Append(RemoveAt(@, i), @[i])]
        BY <2>1 DEF Touch
      <3> DEFINE s == order[b]
                 u == Append(RemoveAt(s, i), s[i])
      <3>2. /\ s \in Seq(Contact) /\ Len(s) <= K /\ IsInjective(s)
            /\ \A c \in ToSet(s) : BucketOf[c] = b
        BY DEF BucketsSound
      <3>3. s[i] \in Contact /\ s[i] \in ToSet(s)
        BY <3>2 DEF ToSet
      <3>4. order' = [order EXCEPT ![b] = u]
        BY <3>1
      <3> HIDE DEF s
      <3>5. /\ u \in Seq(Contact) /\ Len(u) = Len(s) /\ IsInjective(u)
            /\ ToSet(u) \subseteq ToSet(s) \cup {s[i]}
        BY <3>1, <3>2, <3>3, RemoveAppendFacts DEF s
      <3> HIDE DEF u
      <3>6. Len(u) <= K /\ \A c \in ToSet(u) : BucketOf[c] = b
        BY <3>2, <3>3, <3>5
      <3> QED  BY <3>4, <3>5, <3>6, BucketChanged
    <2>2. ASSUME NEW c \in Contact, Add(c)
          PROVE  BucketsSound'
      <3> DEFINE b == BucketOf[c]
                 s == order[b]
                 u == Append(s, c)
      <3>1. b \in Bucket
        BY BucketOfFacts
      <3>2. /\ s \in Seq(Contact) /\ IsInjective(s)
            /\ \A d \in ToSet(s) : BucketOf[d] = b
        BY <3>1 DEF BucketsSound
      <3>3. c \notin ToSet(s) /\ Len(s) < K /\ order' = [order EXCEPT ![b] = u]
        BY <2>2 DEF Add, ToSet
      <3> HIDE DEF s
      <3>4. /\ u \in Seq(Contact) /\ Len(u) = Len(s) + 1 /\ IsInjective(u)
            /\ ToSet(u) = ToSet(s) \cup {c}
        BY <3>2, <3>3, AppendFacts
      <3>5. Len(s) \in Nat
        BY <3>2
      <3> HIDE DEF u, b
      <3>6. Len(u) <= K
        BY <3>3, <3>4, <3>5, SizeAssumption
      <3>7. \A d \in ToSet(u) : BucketOf[d] = b
        BY <3>2, <3>4 DEF b
      <3> QED  BY <3>1, <3>3, <3>4, <3>6, <3>7, BucketChanged
    <2>3. ASSUME NEW c \in Contact, Replace(c)
          PROVE  BucketsSound'
      <3> DEFINE b == BucketOf[c]
                 s == order[b]
      <3>1. b \in Bucket
        BY BucketOfFacts
      <3>2. PICK i \in DOMAIN s :
              order' = [order EXCEPT ![b] = Append(RemoveAt(@, i), c)]
        BY <2>3 DEF Replace
      <3> DEFINE u == Append(RemoveAt(s, i), c)
      <3>3. /\ s \in Seq(Contact) /\ Len(s) <= K /\ IsInjective(s)
            /\ \A d \in ToSet(s) : BucketOf[d] = b
        BY <3>1 DEF BucketsSound
      <3>4. c \notin ToSet(s)
        BY <2>3 DEF Replace, ToSet
      <3>5. order' = [order EXCEPT ![b] = u]
        BY <3>2
      <3> HIDE DEF s
      <3>6. /\ u \in Seq(Contact) /\ Len(u) = Len(s) /\ IsInjective(u)
            /\ ToSet(u) \subseteq ToSet(s) \cup {c}
        BY <3>3, <3>4, RemoveAppendFacts
      <3> HIDE DEF u, b
      <3>7. Len(u) <= K /\ \A d \in ToSet(u) : BucketOf[d] = b
        BY <3>3, <3>6 DEF b
      <3> QED  BY <3>1, <3>5, <3>6, <3>7, BucketChanged
    <2>4. CASE UNCHANGED order
      BY <2>4 DEF BucketsSound
    <2> QED  BY <2>1, <2>2, <2>3, <2>4 DEF Next
  <1> QED  BY <1>1, <1>2, PTL DEF Spec

-----------------------------------------------------------------------------
(* The nodes gathered around a bucket.                                     *)

LEMMA PrefixFacts ==
    ASSUME NEW S, NEW s \in Seq(S), NEW n \in 0 .. Len(s)
    PROVE  LET u == SubSeq(s, 1, n)
           IN  /\ u \in Seq(S) /\ Len(u) = n /\ ToSet(u) \subseteq ToSet(s)
               /\ IsInjective(s) => IsInjective(u)
               /\ n = Len(s) => ToSet(u) = ToSet(s)
  <1> DEFINE u == SubSeq(s, 1, n)
  <1>1. /\ u \in Seq(S) /\ Len(u) = n /\ DOMAIN u = 1 .. n
        /\ \A i \in 1 .. n : u[i] = s[i]
    OBVIOUS
  <1>2. DOMAIN s = 1 .. Len(s) /\ \A i \in 1 .. n : i \in 1 .. Len(s)
    OBVIOUS
  <1> HIDE DEF u
  <1>3. ToSet(u) \subseteq ToSet(s)
    BY <1>1, <1>2 DEF ToSet
  <1>4. n = Len(s) => ToSet(u) = ToSet(s)
    BY <1>1, <1>2 DEF ToSet
  <1>5. IsInjective(s) => IsInjective(u)
    BY <1>1, <1>2 DEF IsInjective
  <1> QED  BY <1>1, <1>3, <1>4, <1>5 DEF u

LEMMA JoinFacts ==
    ASSUME NEW S, NEW s \in Seq(S), NEW t \in Seq(S)
    PROVE  /\ s \o t \in Seq(S) /\ Len(s \o t) = Len(s) + Len(t)
           /\ ToSet(s \o t) = ToSet(s) \cup ToSet(t)
           /\ (IsInjective(s) /\ IsInjective(t) /\ ToSet(s) \cap ToSet(t) = {})
                => IsInjective(s \o t)
  <1> DEFINE u == s \o t
             m == Len(s)
             n == Len(t)
  <1>1. /\ u \in Seq(S) /\ Len(u) = m + n /\ DOMAIN u = 1 .. m + n
        /\ \A i \in 1 .. m + n : u[i] = IF i <= m THEN s[i] ELSE t[i - m]
    BY ConcatProperties
  <1>2. /\ m \in Nat /\ n \in Nat /\ DOMAIN s = 1 .. m /\ DOMAIN t = 1 .. n
    OBVIOUS
  <1> HIDE DEF u, m, n
  <1>3. \A i \in 1 .. m + n : \/ i \in 1 .. m /\ u[i] = s[i]
                              \/ i - m \in 1 .. n /\ u[i] = t[i - m]
    BY <1>1, <1>2
  <1>4. /\ \A i \in 1 .. m : i \in 1 .. m + n /\ u[i] = s[i]
        /\ \A i \in 1 .. n : i + m \in 1 .. m + n /\ u[i + m] = t[i]
    <2>1. \A i \in 1 .. m : i \in 1 .. m + n /\ i <= m
      BY <1>2
    <2>2. \A i \in 1 .. n : i + m \in 1 .. m + n /\ ~(i + m <= m) /\ (i + m) - m = i
      BY <1>2
    <2> QED  BY <1>1, <2>1, <2>2
  <1>5. ToSet(u) = ToSet(s) \cup ToSet(t)
    <2>1. ToSet(u) \subseteq ToSet(s) \cup ToSet(t)
      BY <1>1, <1>2, <1>3 DEF ToSet
    <2>2. ToSet(s) \subseteq ToSet(u)
      BY <1>1, <1>2, <1>4 DEF ToSet
    <2>3. ToSet(t) \subseteq ToSet(u)
      <3> SUFFICES ASSUME NEW i \in 1 .. n
                   PROVE  t[i] \in ToSet(u)
        BY <1>2 DEF ToSet
      <3> QED  BY <1>1, <1>4 DEF ToSet
    <2> QED  BY <2>1, <2>2, <2>3
  <1>6. ASSUME IsInjective(s), IsInjective(t), ToSet(s) \cap ToSet(t) = {}
        PROVE  IsInjective(u)
    <2> SUFFICES ASSUME NEW i \in 1 .. m + n, NEW j \in 1 .. m + n, u[i] = u[j]
                 PROVE  i = j
      BY <1>1 DEF IsInjective
    <2>1. CASE i \in 1 .. m /\ j \in 1 .. m
      <3>1. s[i] = s[j]
        BY <1>4, <2>1
      <3> QED  BY <1>2, <1>6, <2>1, <3>1 DEF IsInjective
    <2>2. CASE i \notin 1 .. m /\ j \notin 1 .. m
      <3>1. i - m \in 1 .. n /\ j - m \in 1 .. n /\ t[i - m] = t[j - m]
        BY <1>3, <2>2
      <3>2. i - m = j - m
        BY <1>2, <1>6, <3>1 DEF IsInjective
      <3> QED  BY <1>2, <3>2
    <2>3. \A h, k \in 1 .. m + n :
             h \in 1 .. m /\ k \notin 1 .. m => u[h] # u[k]
      <3> SUFFICES ASSUME NEW h \in 1 .. m, NEW k \in 1 .. m + n, k \notin 1 .. m
                   PROVE  u[h] # u[k]
        OBVIOUS
      <3>1. u[h] \in ToSet(s)
        BY <1>2, <1>4 DEF ToSet
      <3>2. u[k] \in ToSet(t)
        BY <1>2, <1>3 DEF ToSet
      <3> QED  BY <1>6, <3>1, <3>2
    <2> QED  BY <2>1, <2>2, <2>3
  <1> QED  BY <1>1, <1>5, <1>6 DEF u, m, n

\* The loop over a bucket appends all of it, or enough.
LEMMA TakenFacts ==
    ASSUME NEW S, NEW nodes \in Seq(S), NEW s \in Seq(S), NEW remaining \in Nat,
           IsInjective(nodes), IsInjective(s), ToSet(nodes) \cap ToSet(s) = {}
    PROVE  LET u == Taken(nodes, s, remaining)
           IN  /\ u \in Seq(S) /\ IsInjective(u) /\ Len(nodes) <= Len(u)
               /\ ToSet(u) \subseteq ToSet(nodes) \cup ToSet(s)
               /\ \/ Len(u) >= remaining
                  \/ ToSet(u) = ToSet(nodes) \cup ToSet(s)
  <1> DEFINE r == Room(nodes, remaining)
             n == Min({Len(s), r})
             t == SubSeq(s, 1, n)
  <1>1. Len(nodes) \in Nat /\ Len(s) \in Nat
    OBVIOUS
  <1>2. r \in Nat /\ Len(nodes) + r >= remaining
    BY <1>1 DEF Room
  <1> HIDE DEF r
  <1>3. n \in 0 .. Len(s) /\ (n = Len(s) \/ n = r)
    <2>1. n \in {Len(s), r} /\ n <= Len(s)
      <3>1. {Len(s), r} \in SUBSET Nat /\ {Len(s), r} # {}
        BY <1>1, <1>2
      <3>2. n \in {Len(s), r} /\ \A y \in {Len(s), r} : n <= y
        BY <3>1, MinFacts
      <3> QED  BY <3>2
    <2> HIDE DEF n
    <2> QED  BY <1>1, <1>2, <2>1
  <1> HIDE DEF n
  <1>4. /\ t \in Seq(S) /\ Len(t) = n /\ ToSet(t) \subseteq ToSet(s)
        /\ IsInjective(t)
        /\ n = Len(s) => ToSet(t) = ToSet(s)
    BY <1>3, PrefixFacts
  <1> HIDE DEF t
  <1> DEFINE u == nodes \o t
  <1>5. /\ u \in Seq(S) /\ Len(u) = Len(nodes) + Len(t)
        /\ ToSet(u) = ToSet(nodes) \cup ToSet(t)
        /\ IsInjective(u)
    <2>1. ToSet(nodes) \cap ToSet(t) = {}
      BY <1>4
    <2> QED  BY <1>4, <2>1, JoinFacts
  <1>6. Taken(nodes, s, remaining) = u
    BY DEF Taken, u, t, n, r
  <1> HIDE DEF u
  <1>7. Len(nodes) <= Len(u)
    BY <1>1, <1>3, <1>4, <1>5
  <1>8. Len(u) >= remaining \/ ToSet(u) = ToSet(nodes) \cup ToSet(s)
    <2>1. CASE n = Len(s)
      BY <1>4, <1>5, <2>1
    <2>2. CASE n = r
      BY <1>2, <1>4, <1>5, <2>2
    <2> QED  BY <1>3, <2>1, <2>2
  <1> QED  BY <1>4, <1>5, <1>6, <1>7, <1>8

LEMMA BucketAtFacts ==
    ASSUME BucketsSound, NEW b
    PROVE  /\ BucketAt(b) \in Seq(Contact) /\ IsInjective(BucketAt(b))
           /\ Len(BucketAt(b)) <= K
           /\ ToSet(BucketAt(b)) = {c \in Known : BucketOf[c] = b}
           /\ Known \subseteq Contact
  <1>1. ASSUME NEW d \in Bucket
        PROVE  /\ order[d] \in Seq(Contact) /\ IsInjective(order[d])
               /\ Len(order[d]) <= K
               /\ \A c \in ToSet(order[d]) : BucketOf[c] = d
               /\ ToSet(order[d]) \subseteq Contact
    <2>1. /\ order[d] \in Seq(Contact) /\ IsInjective(order[d])
          /\ Len(order[d]) <= K
          /\ \A c \in ToSet(order[d]) : BucketOf[c] = d
      BY DEF BucketsSound
    <2>2. ToSet(order[d]) \subseteq Contact
      BY <2>1 DEF ToSet
    <2> QED  BY <2>1, <2>2
  <1>2. Known \subseteq Contact
    BY <1>1 DEF Known
  <1>3. CASE b \in Bucket
    <2>1. BucketAt(b) = order[b]
      BY <1>3 DEF BucketAt
    <2>2. ToSet(order[b]) = {c \in Known : BucketOf[c] = b}
      BY <1>1, <1>3 DEF Known
    <2> QED  BY <1>1, <1>2, <1>3, <2>1, <2>2
  <1>4. CASE b \notin Bucket
    <2>1. BucketAt(b) = <<>>
      BY <1>4 DEF BucketAt
    <2>2. /\ <<>> \in Seq(Contact) /\ Len(<<>>) = 0 /\ DOMAIN <<>> = {}
      OBVIOUS
    <2>3. {c \in Known : BucketOf[c] = b} = {}
      BY <1>2, <1>4, BucketOfFacts
    <2>4. IsInjective(<<>>) /\ ToSet(<<>>) = {}
      BY <2>2 DEF IsInjective, ToSet
    <2> QED  BY <1>2, <2>1, <2>2, <2>3, <2>4, SizeAssumption
  <1> QED  BY <1>3, <1>4

\* The known contacts of the buckets at most offset away from bucket home.
Within(home, offset) ==
    {c \in Known : /\ BucketOf[c] # home
                   /\ home - offset <= BucketOf[c] /\ BucketOf[c] <= home + offset}

\* What the expansion has gathered after the buckets up to offset: all that
\* they hold, unless it has enough.
GatheredUpTo(nodes, home, offset, remaining) ==
    /\ nodes \in Seq(Contact) /\ IsInjective(nodes)
    /\ ToSet(nodes) \subseteq Within(home, offset)
    /\ Len(nodes) >= remaining \/ ToSet(nodes) = Within(home, offset)

LEMMA AroundFacts ==
    ASSUME BucketsSound, NEW home \in Bucket, NEW remaining \in Nat,
           NEW offset \in Nat \ {0}, NEW nodes,
           GatheredUpTo(nodes, home, offset - 1, remaining)
    PROVE  GatheredUpTo(IF Len(nodes) >= remaining THEN nodes
                        ELSE Around(nodes, home, offset, remaining),
                        home, offset, remaining)
  <1> DEFINE below == {c \in Known : BucketOf[c] = home - offset}
             above == {c \in Known : BucketOf[c] = home + offset}
             inner == Within(home, offset - 1)
             outer == Within(home, offset)
  <1>1. home \in Nat /\ \A c \in Known : BucketOf[c] \in Nat
    <2>1. Bucket \subseteq Nat
      BY BucketAssumption
    <2>2. \A c \in Known : BucketOf[c] \in Bucket
      BY BucketAtFacts, BucketOfFacts
    <2> QED  BY <2>1, <2>2
  <1>2. /\ outer = inner \cup below \cup above
        /\ inner \cap below = {} /\ inner \cap above = {} /\ below \cap above = {}
    BY <1>1 DEF Within
  <1>3. /\ nodes \in Seq(Contact) /\ IsInjective(nodes) /\ ToSet(nodes) \subseteq inner
        /\ Len(nodes) >= remaining \/ ToSet(nodes) = inner
    BY DEF GatheredUpTo
  <1>4. CASE Len(nodes) >= remaining
    <2>1. ToSet(nodes) \subseteq outer
      BY <1>2, <1>3
    <2> QED  BY <1>3, <1>4, <2>1 DEF GatheredUpTo
  <1>5. CASE ~(Len(nodes) >= remaining)
    <2> DEFINE t == Taken(nodes, BucketAt(home - offset), remaining)
               u == Taken(t, BucketAt(home + offset), remaining)
    <2>0. ToSet(nodes) = inner
      BY <1>3, <1>5
    <2>1. /\ BucketAt(home - offset) \in Seq(Contact)
          /\ IsInjective(BucketAt(home - offset))
          /\ ToSet(BucketAt(home - offset)) = below
          /\ BucketAt(home + offset) \in Seq(Contact)
          /\ IsInjective(BucketAt(home + offset))
          /\ ToSet(BucketAt(home + offset)) = above
      BY BucketAtFacts
    <2> HIDE DEF inner, outer, below, above
    <2>2. /\ t \in Seq(Contact) /\ IsInjective(t) /\ Len(nodes) <= Len(t)
          /\ ToSet(t) \subseteq inner \cup below
          /\ Len(t) >= remaining \/ ToSet(t) = inner \cup below
      <3>1. ToSet(nodes) \cap ToSet(BucketAt(home - offset)) = {}
        BY <1>2, <2>0, <2>1
      <3> QED  BY <1>3, <2>0, <2>1, <3>1, TakenFacts
    <2> HIDE DEF t
    <2>3. /\ u \in Seq(Contact) /\ IsInjective(u) /\ Len(t) <= Len(u)
          /\ ToSet(u) \subseteq ToSet(t) \cup above
          /\ Len(u) >= remaining \/ ToSet(u) = ToSet(t) \cup above
      <3>1. ToSet(t) \cap ToSet(BucketAt(home + offset)) = {}
        BY <1>2, <2>1, <2>2
      <3> QED  BY <2>1, <2>2, <3>1, TakenFacts
    <2>4. Around(nodes, home, offset, remaining) = u
      BY DEF Around, t
    <2> HIDE DEF u
    <2>5. ToSet(u) \subseteq outer
      BY <1>2, <2>2, <2>3
    <2>6. Len(u) >= remaining \/ ToSet(u) = outer
      <3>1. CASE Len(t) >= remaining
        <4>1. Len(t) \in Nat /\ Len(u) \in Nat
          BY <2>2, <2>3
        <4> QED  BY <2>3, <3>1, <4>1
      <3>2. CASE ToSet(t) = inner \cup below
        BY <1>2, <2>3, <3>2
      <3> QED  BY <2>2, <3>1, <3>2
    <2> QED  BY <1>5, <2>3, <2>4, <2>5, <2>6 DEF GatheredUpTo, outer
  <1> QED  BY <1>4, <1>5

\* The expansion ends with enough nodes, or with all the others there are.
LEMMA GatheredFacts ==
    ASSUME BucketsSound, NEW home \in Bucket, NEW remaining \in Nat
    PROVE  LET g == Gathered(home, remaining)
           IN  /\ g \in Seq(Contact) /\ IsInjective(g)
               /\ ToSet(g) \subseteq {c \in Known : BucketOf[c] # home}
               /\ \/ Len(g) >= remaining
                  \/ ToSet(g) = {c \in Known : BucketOf[c] # home}
  <1> DEFINE Step(f, o) == IF o = 0 THEN <<>>
                           ELSE IF Len(f[o - 1]) >= remaining THEN f[o - 1]
                           ELSE Around(f[o - 1], home, o, remaining)
             Eq(f, n) == f = [o \in 0 .. n |-> Step(f, o)]
             last == IdBits - 1
             after == CHOOSE f : Eq(f, last)
  <1>0. last \in Nat
    BY IdBitsAssumption
  <1>1. \E f : Eq(f, last)
    <2> DEFINE Good == {n \in Nat : \E f : Eq(f, n)}
    <2>1. ASSUME NEW n \in Nat, \A m \in Nat : m < n => m \in Good
          PROVE  n \in Good
      <3>1. CASE n = 0
        <4> DEFINE f == [o \in 0 .. n |-> <<>>]
        <4>1. Eq(f, n)
          BY <3>1
        <4> QED  BY <4>1
      <3>2. CASE n # 0
        <4>1. n - 1 \in Nat /\ n - 1 \in Good
          <5>1. n - 1 \in Nat /\ n - 1 < n
            BY <3>2
          <5> HIDE DEF Good
          <5> QED  BY <2>1, <5>1
        <4>2. PICK f : Eq(f, n - 1)
          BY <4>1
        <4> DEFINE g == [o \in 0 .. n |-> IF o = n THEN Step(f, n) ELSE f[o]]
        <4>3. \A o \in 0 .. n - 1 : g[o] = f[o]
          BY <4>1
        <4>4. \A o \in 0 .. n : o # 0 => o - 1 \in 0 .. n - 1
          OBVIOUS
        <4>5. \A o \in 0 .. n : Step(g, o) = Step(f, o)
          <5> HIDE DEF g
          <5> QED  BY <4>3, <4>4
        <4>6. \A o \in 0 .. n - 1 : f[o] = Step(f, o)
          <5> HIDE DEF Step
          <5> QED  BY <4>2
        <4>7. \A o \in 0 .. n : o # n => o \in 0 .. n - 1
          BY <4>1
        <4>8. \A o \in 0 .. n : (IF o = n THEN Step(f, n) ELSE f[o]) = Step(g, o)
          <5> HIDE DEF g, Step
          <5> QED  BY <4>5, <4>6, <4>7
        <4>9. Eq(g, n)
          <5> HIDE DEF Step
          <5> QED  BY <4>8
        <4> HIDE DEF g, Eq
        <4> QED  BY <4>9
      <3> QED  BY <3>1, <3>2
    <2>2. Good \in SUBSET Nat
      OBVIOUS
    <2>3. \A n \in Nat : n \in Good
      <3> HIDE DEF Good
      <3> QED  BY <2>1, <2>2, NatInductionSet
    <2> HIDE DEF last, Eq
    <2> QED  BY <1>0, <2>3
  <1>2. Eq(after, last)
    <2> HIDE DEF Eq
    <2> QED  BY <1>1
  <1>3. Gathered(home, remaining) = after[last]
    BY DEF Gathered
  <1> HIDE DEF after, last
  <1>4. \A o \in 0 .. last : after[o] = Step(after, o)
    <2> HIDE DEF Step
    <2> QED  BY <1>2
  <1> DEFINE Good == {n \in Nat : n <= last =>
                         GatheredUpTo(after[n], home, n, remaining)}
  <1>5. ASSUME NEW n \in Nat, \A m \in Nat : m < n => m \in Good
        PROVE  n \in Good
    <2> SUFFICES ASSUME n <= last
                 PROVE  GatheredUpTo(after[n], home, n, remaining)
      OBVIOUS
    <2>1. n \in 0 .. last
      BY <1>0
    <2>2. CASE n = 0
      <3>1. after[n] = <<>>
        BY <1>4, <2>1, <2>2
      <3>2. home \in Int /\ \A c \in Known : BucketOf[c] \in Int
        <4>1. Bucket \subseteq Int
          BY BucketAssumption
        <4>2. \A c \in Known : BucketOf[c] \in Bucket
          BY BucketAtFacts, BucketOfFacts
        <4> QED  BY <4>1, <4>2
      <3>3. Within(home, n) = {}
        BY <2>2, <3>2 DEF Within
      <3>4. <<>> \in Seq(Contact) /\ DOMAIN <<>> = {}
        OBVIOUS
      <3>5. IsInjective(<<>>) /\ ToSet(<<>>) = {}
        BY <3>4 DEF IsInjective, ToSet
      <3> QED  BY <3>1, <3>3, <3>4, <3>5 DEF GatheredUpTo
    <2>3. CASE n # 0
      <3>1. n - 1 \in Nat /\ n - 1 < n /\ n - 1 <= last /\ n \in Nat \ {0}
        BY <1>0, <2>3
      <3>2. n - 1 \in Good
        BY <1>5, <3>1
      <3>3. GatheredUpTo(after[n - 1], home, n - 1, remaining)
        BY <3>1, <3>2
      <3>4. after[n] = IF Len(after[n - 1]) >= remaining THEN after[n - 1]
                       ELSE Around(after[n - 1], home, n, remaining)
        BY <1>4, <2>1, <2>3
      <3> QED  BY <3>1, <3>3, <3>4, AroundFacts
    <2> QED  BY <2>2, <2>3
  <1>6. Good \in SUBSET Nat
    OBVIOUS
  <1>7. \A n \in Nat : n \in Good
    <2> HIDE DEF Good
    <2> QED  BY <1>5, <1>6, NatInductionSet
  <1>8. GatheredUpTo(after[last], home, last, remaining)
    BY <1>0, <1>7
  <1>9. Within(home, last) = {c \in Known : BucketOf[c] # home}
    <2>1. home \in 0 .. last /\ \A c \in Known : BucketOf[c] \in 0 .. last
      BY BucketAtFacts, BucketOfFacts, BucketAssumption DEF last
    <2>2. \A b \in 0 .. last : home - last <= b /\ b <= home + last
      BY <1>0, <2>1
    <2> QED  BY <2>1, <2>2 DEF Within
  <1> QED  BY <1>3, <1>8, <1>9 DEF GatheredUpTo

-----------------------------------------------------------------------------
(* Sorting by distance.                                                    *)

LEMMA InjectiveCount ==
    ASSUME NEW S, NEW s \in Seq(S), IsInjective(s)
    PROVE  IsFiniteSet(ToSet(s)) /\ Cardinality(ToSet(s)) = Len(s)
  <1>1. /\ s \in [1 .. Len(s) -> ToSet(s)]
        /\ \A x \in ToSet(s) : \E i \in 1 .. Len(s) : s[i] = x
        /\ \A i, j \in 1 .. Len(s) : s[i] = s[j] => i = j
        /\ Len(s) \in Nat
    <2>1. DOMAIN s = 1 .. Len(s) /\ s = [i \in 1 .. Len(s) |-> s[i]]
      OBVIOUS
    <2> QED  BY <2>1 DEF ToSet, IsInjective
  <1> DEFINE n == Len(s)
  <1> HIDE DEF n
  <1>2. s \in Bijection(1 .. n, ToSet(s))
    BY <1>1 DEF n, Bijection, Injection, Surjection, IsInjective
  <1>3. ExistsBijection(1 .. n, ToSet(s)) /\ n \in Nat
    BY <1>1, <1>2 DEF n, ExistsBijection
  <1>4. Cardinality(ToSet(s)) = n
    BY <1>3, FS_CountingElements
  <1>5. IsFiniteSet(ToSet(s))
    BY <1>3, FS_NatBijection
  <1> QED  BY <1>4, <1>5 DEF n

LEMMA CloserIsTotalOrder ==
    ASSUME NEW target \in Id
    PROVE  /\ \A a \in Id : ~CloserTo(a, target, a)
           /\ \A a, b \in Id : a # b => CloserTo(a, target, b) \/ CloserTo(b, target, a)
           /\ \A a, b \in Id : CloserTo(a, target, b) => ~CloserTo(b, target, a)
           /\ \A a, b, c \in Id :
                 CloserTo(a, target, b) /\ CloserTo(b, target, c) => CloserTo(a, target, c)
  <1>1. \A a \in Id : Distance(a, target) \in Nat
    BY DistanceType
  <1>2. ASSUME NEW a \in Id, NEW b \in Id, a # b
        PROVE  CloserTo(a, target, b) \/ CloserTo(b, target, a)
    <2> DEFINE d == DiffBit(a, b)
    <2>1. d \in BitPosition /\ a[d] # b[d]
      BY <1>2, DiffBitFacts
    <2>2. a[d] \in {0, 1} /\ b[d] \in {0, 1} /\ target[d] \in {0, 1}
      BY <2>1 DEF Id
    <2>3. a[d] = target[d] \/ b[d] = target[d]
      BY <2>1, <2>2
    <2> QED  BY <1>2, <2>3, AgreeingIsCloser, DiffBitSymmetric
  <1> QED  BY <1>1, <1>2 DEF CloserTo

\* SortedByDistance keeps the nodes and orders them, the closest one first.
LEMMA SortedFacts ==
    ASSUME NEW nodes \in Seq(Id), IsInjective(nodes), NEW target \in Id
    PROVE  LET s == SortedByDistance(nodes, target)
           IN  /\ s \in Seq(Id) /\ Len(s) = Len(nodes) /\ IsInjective(s)
               /\ ToSet(s) = ToSet(nodes)
               /\ \A i, j \in DOMAIN s : i < j => CloserTo(s[i], target, s[j])
  <1> DEFINE N == ToSet(nodes)
             n == Len(nodes)
             Closer(x) == {m \in N : CloserTo(m, target, x)}
             rank == [x \in N |-> Cardinality(Closer(x))]
             s == SortedByDistance(nodes, target)
  <1>1. /\ IsFiniteSet(N) /\ Cardinality(N) = n /\ n \in Nat
        /\ N \subseteq Id /\ DOMAIN nodes = 1 .. n
    BY InjectiveCount DEF ToSet
  <1> HIDE DEF N, n
  <1>2. ASSUME NEW x \in N, NEW y \in N, CloserTo(x, target, y)
        PROVE  rank[x] < rank[y]
    <2>1. Closer(x) \subseteq Closer(y)
      BY <1>1, <1>2, CloserIsTotalOrder
    <2>2. x \in Closer(y) /\ x \notin Closer(x)
      BY <1>1, <1>2, CloserIsTotalOrder
    <2> DEFINE A == Closer(x)
               B == Closer(y)
    <2>3. IsFiniteSet(A) /\ IsFiniteSet(B)
      BY <1>1, FS_Subset
    <2> HIDE DEF A, B
    <2>4. Cardinality(A) \in Nat /\ Cardinality(B) \in Nat
      BY <2>3, FS_CardinalityType
    <2>5. A \in SUBSET B /\ A # B
      BY <2>1, <2>2 DEF A, B
    <2>6. Cardinality(A) <= Cardinality(B) /\ Cardinality(A) # Cardinality(B)
      BY <2>3, <2>5, FS_Subset
    <2> QED  BY <2>4, <2>6 DEF A, B
  <1>3. rank \in [N -> 0 .. n - 1]
    <2> SUFFICES ASSUME NEW x \in N
                 PROVE  Cardinality(Closer(x)) \in 0 .. n - 1
      OBVIOUS
    <2> DEFINE A == Closer(x)
    <2>1. A \in SUBSET N /\ x \notin A
      BY <1>1, CloserIsTotalOrder
    <2> HIDE DEF A
    <2>2. IsFiniteSet(A) /\ Cardinality(A) <= n /\ Cardinality(A) # n
      BY <1>1, <2>1, FS_Subset
    <2>3. Cardinality(A) \in Nat
      BY <2>2, FS_CardinalityType
    <2> QED  BY <1>1, <2>2, <2>3 DEF A
  <1>4. \A x, y \in N : rank[x] = rank[y] => x = y
    <2> SUFFICES ASSUME NEW x \in N, NEW y \in N, x # y
                 PROVE  rank[x] # rank[y]
      OBVIOUS
    <2>1. CloserTo(x, target, y) \/ CloserTo(y, target, x)
      BY <1>1, CloserIsTotalOrder
    <2>2. rank[x] \in 0 .. n - 1 /\ rank[y] \in 0 .. n - 1
      BY <1>3
    <2>3. rank[x] < rank[y] \/ rank[y] < rank[x]
      BY <1>2, <2>1
    <2> HIDE DEF rank
    <2> QED  BY <2>2, <2>3
  <1> DEFINE By(r) == CHOOSE x \in N : Cardinality(Closer(x)) = r - 1
  <1>5. \A r \in 1 .. n : By(r) \in N /\ rank[By(r)] = r - 1
    <2> SUFFICES ASSUME NEW r \in 1 .. n
                 PROVE  By(r) \in N /\ rank[By(r)] = r - 1
      OBVIOUS
    <2>1. IsFiniteSet(0 .. n - 1) /\ Cardinality(0 .. n - 1) = n
      <3>1. 0 \in Int /\ n - 1 \in Int
        BY <1>1
      <3>2. /\ IsFiniteSet(0 .. n - 1)
            /\ Cardinality(0 .. n - 1) = IF 0 > n - 1 THEN 0 ELSE (n - 1) - 0 + 1
        BY <3>1, FS_Interval
      <3> QED  BY <1>1, <3>2
    <2>2. rank \in Injection(N, 0 .. n - 1)
      <3> HIDE DEF rank
      <3> QED  BY <1>3, <1>4 DEF Injection, IsInjective
    <2>3. rank \in Surjection(N, 0 .. n - 1)
      <3> HIDE DEF rank
      <3> QED  BY <1>1, <2>1, <2>2, FS_Injection
    <2>4. r - 1 \in 0 .. n - 1
      BY <1>1
    <2>5. \E x \in N : rank[x] = r - 1
      <3> HIDE DEF rank
      <3> QED  BY <2>3, <2>4 DEF Surjection
    <2>6. \E x \in N : Cardinality(Closer(x)) = r - 1
      BY <2>5
    <2>7. By(r) \in N /\ Cardinality(Closer(By(r))) = r - 1
      <3> HIDE DEF Closer, rank
      <3> QED  BY <2>6
    <2> QED  BY <2>7
  <1>6. s = [r \in 1 .. n |-> By(r)]
    BY <1>1 DEF SortedByDistance, N
  <1> HIDE DEF By, s, rank, Closer
  <1>7. s \in Seq(Id) /\ Len(s) = n /\ DOMAIN s = 1 .. n
    <2>1. s \in [1 .. n -> Id]
      BY <1>1, <1>5, <1>6
    <2> QED  BY <1>1, <2>1
  <1>8. \A r \in 1 .. n : s[r] \in N /\ rank[s[r]] = r - 1
    BY <1>5, <1>6
  <1>9. IsInjective(s)
    <2>1. \A i, j \in 1 .. n : s[i] = s[j] => i - 1 = j - 1
      BY <1>8
    <2>2. \A i, j \in 1 .. n : i - 1 = j - 1 => i = j
      BY <1>1
    <2> QED  BY <1>7, <2>1, <2>2 DEF IsInjective
  <1>10. ToSet(s) = N
    <2>1. ToSet(s) \subseteq N
      BY <1>7, <1>8 DEF ToSet
    <2>2. ASSUME NEW x \in N
          PROVE  x \in ToSet(s)
      <3> DEFINE r == rank[x] + 1
      <3>1. r \in 1 .. n /\ r - 1 = rank[x]
        BY <1>1, <1>3
      <3>2. s[r] = x
        <4>1. s[r] \in N /\ rank[s[r]] = rank[x]
          BY <1>8, <3>1
        <4> QED  BY <1>4, <4>1
      <3> QED  BY <1>7, <3>1, <3>2 DEF ToSet
    <2> QED  BY <2>1, <2>2
  <1>11. \A i, j \in DOMAIN s : i < j => CloserTo(s[i], target, s[j])
    <2> SUFFICES ASSUME NEW i \in 1 .. n, NEW j \in 1 .. n, i < j
                 PROVE  CloserTo(s[i], target, s[j])
      BY <1>7
    <2>1. /\ s[i] \in N /\ s[j] \in N /\ s[i] \in Id /\ s[j] \in Id
          /\ rank[s[i]] = i - 1 /\ rank[s[j]] = j - 1
      BY <1>1, <1>8
    <2>2. s[i] # s[j]
      BY <1>1, <2>1
    <2>3. ~CloserTo(s[j], target, s[i])
      <3>1. ~(rank[s[j]] < rank[s[i]])
        BY <1>1, <2>1
      <3> QED  BY <1>2, <2>1, <3>1
    <2> QED  BY <2>1, <2>2, <2>3, CloserIsTotalOrder
  <1> QED  BY <1>7, <1>9, <1>10, <1>11 DEF s, n, N

-----------------------------------------------------------------------------
(* The answer.                                                             *)

LEMMA MinOfTwo ==
    ASSUME NEW m \in Nat, NEW n \in Nat
    PROVE  Min({m, n}) = IF m <= n THEN m ELSE n
  <1> DEFINE S == {m, n}
  <1>1. S \in SUBSET Nat /\ S # {}
    OBVIOUS
  <1>2. Min(S) \in S /\ \A y \in S : Min(S) <= y
    <2> HIDE DEF S
    <2> QED  BY <1>1, MinFacts
  <1> DEFINE x == Min(S)
  <1>3. x \in {m, n} /\ x <= m /\ x <= n
    BY <1>2
  <1> HIDE DEF x
  <1> QED  BY <1>3 DEF x

LEMMA KnownFinite ==
    ASSUME BucketsSound
    PROVE  IsFiniteSet(Known) /\ Cardinality(Known) \in Nat
  <1> DEFINE lists == {ToSet(order[b]) : b \in Bucket}
  <1>1. IsFiniteSet(Bucket)
    BY BucketAssumption, IdBitsAssumption, FS_Interval
  <1>2. IsFiniteSet(lists)
    <2> DEFINE f == [b \in Bucket |-> ToSet(order[b])]
    <2>1. f \in Surjection(Bucket, lists)
      BY DEF Surjection
    <2> HIDE DEF f, lists
    <2> QED  BY <1>1, <2>1, FS_Surjection
  <1>3. \A T \in lists : IsFiniteSet(T)
    <2> SUFFICES ASSUME NEW b \in Bucket
                 PROVE  IsFiniteSet(ToSet(order[b]))
      OBVIOUS
    <2>1. order[b] \in Seq(Contact) /\ IsInjective(order[b])
      BY DEF BucketsSound
    <2> QED  BY <2>1, InjectiveCount
  <1>4. IsFiniteSet(UNION lists)
    <2> HIDE DEF lists
    <2> QED  BY <1>2, <1>3, FS_UNION
  <1> QED  BY <1>4, FS_CardinalityType DEF Known

LEMMA TruncatedFacts ==
    ASSUME NEW S, NEW s \in Seq(S), NEW n \in Nat
    PROVE  LET u == Truncated(s, n)
           IN  /\ u \in Seq(S) /\ Len(u) = (IF n <= Len(s) THEN n ELSE Len(s))
               /\ ToSet(u) \subseteq ToSet(s)
               /\ IsInjective(s) => IsInjective(u)
               /\ Len(s) <= n => ToSet(u) = ToSet(s)
  <1>1. Len(s) \in Nat
    OBVIOUS
  <1> DEFINE m == IF n <= Len(s) THEN n ELSE Len(s)
  <1>2. Truncated(s, n) = SubSeq(s, 1, m)
    BY <1>1, MinOfTwo DEF Truncated
  <1>3. m \in 0 .. Len(s) /\ (Len(s) <= n => m = Len(s))
    BY <1>1
  <1> HIDE DEF m
  <1>4. /\ SubSeq(s, 1, m) \in Seq(S) /\ Len(SubSeq(s, 1, m)) = m
        /\ ToSet(SubSeq(s, 1, m)) \subseteq ToSet(s)
        /\ IsInjective(s) => IsInjective(SubSeq(s, 1, m))
        /\ m = Len(s) => ToSet(SubSeq(s, 1, m)) = ToSet(s)
    BY <1>3, PrefixFacts
  <1> QED  BY <1>2, <1>3, <1>4 DEF m

\* FindClosest returns the whole home bucket and fills up with others.
LEMMA ClosestFacts ==
    ASSUME BucketsSound, NEW target \in Id
    PROVE  LET r == Closest(target)
           IN  /\ r \in Seq(Contact) /\ IsInjective(r) /\ ToSet(r) \subseteq Known
               /\ ToSet(BucketAt(BucketIndex(Owner, target))) \subseteq ToSet(r)
               /\ Len(r) = Min({K, Cardinality(Known)})
  <1> DEFINE home == BucketIndex(Owner, target)
             near == BucketAt(home)
             remaining == K - Len(near)
             r == Closest(target)
             mine == {c \in Known : BucketOf[c] = home}
             others == {c \in Known : BucketOf[c] # home}
             k == Cardinality(Known)
  <1>1. home \in Bucket
    BY OwnerAssumption, BucketAssumption, BucketIndexFacts
  <1>2. /\ near \in Seq(Contact) /\ IsInjective(near) /\ Len(near) <= K
        /\ ToSet(near) = mine /\ Known \subseteq Contact
    BY BucketAtFacts
  <1>3. Len(near) \in Nat /\ K \in Nat
    BY <1>2, SizeAssumption
  <1>4. Closest(target) = IF Len(near) >= K THEN Truncated(near, K)
                          ELSE near \o Truncated(
                             SortedByDistance(Gathered(home, remaining), target), remaining)
    BY DEF Closest
  <1>5. IsFiniteSet(Known) /\ k \in Nat
    BY KnownFinite
  <1>6. ASSUME NEW s \in Seq(Contact), IsInjective(s), ToSet(s) \subseteq Known
        PROVE  Len(s) <= k /\ (ToSet(s) = Known => Len(s) = k)
    BY <1>5, <1>6, InjectiveCount, FS_Subset
  <1>7. Min({K, k}) = IF K <= k THEN K ELSE k
    BY <1>3, <1>5, MinOfTwo
  <1> HIDE DEF near, home, k
  <1>8. CASE Len(near) >= K
    <2>1. r = Truncated(near, K) /\ Len(near) = K
      BY <1>2, <1>3, <1>4, <1>8
    <2>2. /\ r \in Seq(Contact) /\ Len(r) = K /\ IsInjective(r)
          /\ ToSet(r) = ToSet(near)
      BY <1>2, <1>3, <2>1, TruncatedFacts
    <2> HIDE DEF r
    <2>3. ToSet(r) \subseteq Known
      BY <1>2, <2>2
    <2>4. K <= k
      BY <1>6, <2>2, <2>3
    <2> QED  BY <1>7, <2>2, <2>3, <2>4 DEF r, home, near, k
  <1>9. CASE ~(Len(near) >= K)
    <2> DEFINE g == Gathered(home, remaining)
               s == SortedByDistance(g, target)
               t == Truncated(s, remaining)
    <2>1. remaining \in Nat
      BY <1>3, <1>9
    <2> HIDE DEF remaining
    <2>2. /\ g \in Seq(Contact) /\ IsInjective(g) /\ ToSet(g) \subseteq others
          /\ Len(g) >= remaining \/ ToSet(g) = others
      BY <1>1, <2>1, GatheredFacts
    <2> HIDE DEF g
    <2>3. Contact \subseteq Id /\ g \in Seq(Id)
      <3>1. Contact \subseteq Id
        BY OwnerAssumption
      <3> QED  BY <2>2, <3>1
    <2>4. /\ s \in Seq(Id) /\ Len(s) = Len(g) /\ IsInjective(s)
          /\ ToSet(s) = ToSet(g)
      BY <2>2, <2>3, SortedFacts
    <2>5. s \in Seq(Contact)
      <3>1. \A i \in DOMAIN s : s[i] \in Contact
        BY <1>2, <2>2, <2>4 DEF ToSet
      <3> HIDE DEF s
      <3>2. s = [i \in 1 .. Len(s) |-> s[i]] /\ Len(s) \in Nat /\ DOMAIN s = 1 .. Len(s)
        BY <2>4
      <3> QED  BY <3>1, <3>2
    <2> HIDE DEF s
    <2>6. /\ t \in Seq(Contact)
          /\ Len(t) = (IF remaining <= Len(s) THEN remaining ELSE Len(s))
          /\ ToSet(t) \subseteq ToSet(s) /\ IsInjective(t)
          /\ Len(s) <= remaining => ToSet(t) = ToSet(s)
      BY <2>1, <2>4, <2>5, TruncatedFacts
    <2> HIDE DEF t
    <2>7. mine \cap others = {} /\ mine \cup others = Known
      OBVIOUS
    <2> HIDE DEF mine, others
    <2>8. r = near \o t
      BY <1>4, <1>9 DEF t, s, g
    <2> HIDE DEF r
    <2>9. /\ r \in Seq(Contact) /\ Len(r) = Len(near) + Len(t)
          /\ ToSet(r) = mine \cup ToSet(t) /\ IsInjective(r)
      <3>1. ToSet(near) \cap ToSet(t) = {}
        BY <1>2, <2>2, <2>4, <2>6, <2>7
      <3>2. /\ near \o t \in Seq(Contact) /\ Len(near \o t) = Len(near) + Len(t)
            /\ ToSet(near \o t) = ToSet(near) \cup ToSet(t)
            /\ IsInjective(near \o t)
        BY <1>2, <2>6, <3>1, JoinFacts
      <3> QED  BY <1>2, <2>8, <3>2
    <2>10. ToSet(r) \subseteq Known /\ ToSet(near) \subseteq ToSet(r)
      BY <1>2, <2>2, <2>4, <2>6, <2>7, <2>9
    <2>11. Len(r) <= k /\ (ToSet(r) = Known => Len(r) = k)
      BY <1>6, <2>9, <2>10
    <2>12. Len(r) = IF K <= k THEN K ELSE k
      <3>0. Len(s) \in Nat /\ Len(t) \in Nat
        BY <2>5, <2>6
      <3>1. Len(near) + remaining = K
        BY <1>3 DEF remaining
      <3>2. CASE Len(s) >= remaining
        <4>1. Len(r) = K
          BY <1>3, <2>1, <2>6, <2>9, <3>0, <3>1, <3>2
        <4> QED  BY <2>11, <4>1
      <3>3. CASE ~(Len(s) >= remaining)
        <4>1. ToSet(t) = others /\ Len(t) = Len(s)
          BY <2>1, <2>2, <2>4, <2>6, <3>0, <3>3
        <4>2. Len(r) = k
          BY <2>7, <2>9, <2>11, <4>1
        <4>3. Len(r) < K
          BY <1>3, <2>1, <2>9, <3>0, <3>1, <3>3, <4>1
        <4> QED  BY <1>3, <1>5, <4>2, <4>3
      <3> QED  BY <3>2, <3>3
    <2> QED  BY <1>7, <2>9, <2>10, <2>12 DEF r, home, near, k
  <1> QED  BY <1>8, <1>9

\* An id that shares the target's bucket, other than the owner's, agrees with
\* the target up to the bit that tells the target from the owner; no id of
\* another bucket does, nor the owner.
LEMMA HomeIsCloser ==
    ASSUME NEW target \in Id, target # Owner,
           NEW a \in Id, a # Owner, BucketIndex(Owner, a) = BucketIndex(Owner, target),
           NEW c \in Id, c = Owner \/ BucketIndex(Owner, c) # BucketIndex(Owner, target)
    PROVE  CloserTo(a, target, c)
  <1> DEFINE d == DiffBit(Owner, target)
  <1>0. Owner \in Id /\ BitPosition \subseteq Int /\ IdBits \in Int
    BY OwnerAssumption, IdBitsAssumption DEF BitPosition
  <1>1. /\ d \in BitPosition /\ Owner[d] # target[d]
        /\ \A i \in BitPosition : i < d => Owner[i] = target[i]
    BY <1>0, DiffBitFacts
  <1>2. DiffBit(Owner, a) = d
    <2> DEFINE e == DiffBit(Owner, a)
    <2>1. e \in BitPosition
      BY <1>0, DiffBitFacts
    <2>2. IdBits - 1 - e = IdBits - 1 - d
      BY DEF BucketIndex
    <2>3. e \in Int /\ d \in Int
      BY <1>0, <1>1, <2>1
    <2> HIDE DEF e, d
    <2>4. e = d
      BY <1>0, <2>2, <2>3
    <2> QED  BY <2>4 DEF e
  <1>3. Owner[d] # a[d] /\ \A i \in BitPosition : i < d => Owner[i] = a[i]
    BY <1>0, <1>2, DiffBitFacts
  <1>4. /\ Owner[d] \in {0, 1} /\ target[d] \in {0, 1} /\ a[d] \in {0, 1}
    BY <1>0, <1>1 DEF Id
  <1>5. a[d] = target[d] /\ \A i \in BitPosition : i < d => a[i] = target[i]
    BY <1>1, <1>3, <1>4
  <1>6. \E i \in BitPosition : i <= d /\ c[i] # target[i]
    <2>1. CASE c = Owner
      <3> HIDE DEF d
      <3>1. d <= d
        BY <1>0, <1>1
      <3> QED  BY <1>1, <2>1, <3>1
    <2>2. CASE c # Owner
      <3> DEFINE e == DiffBit(Owner, c)
      <3>1. /\ e \in BitPosition /\ Owner[e] # c[e]
            /\ \A i \in BitPosition : i < e => Owner[i] = c[i]
        BY <1>0, <2>2, DiffBitFacts
      <3>2. e # d
        BY <2>2 DEF BucketIndex
      <3> HIDE DEF e, d
      <3>3. CASE e < d
        BY <1>0, <1>1, <3>1, <3>3
      <3>4. CASE d < e
        BY <1>0, <1>1, <3>1, <3>4
      <3> QED  BY <1>0, <1>1, <3>1, <3>2, <3>3, <3>4
    <2> QED  BY <2>1, <2>2
  <1> DEFINE j == DiffBit(a, c)
  <1>7. PICK i \in BitPosition : i <= d /\ c[i] # target[i]
    BY <1>6
  <1> HIDE DEF d
  <1>8. a[i] # c[i]
    BY <1>0, <1>1, <1>5, <1>7
  <1>9. /\ j \in BitPosition /\ a[j] # c[j]
        /\ \A h \in BitPosition : h < j => a[h] = c[h]
    BY <1>8, DiffBitFacts
  <1> HIDE DEF j
  <1>10. j <= d
    BY <1>0, <1>1, <1>7, <1>8, <1>9
  <1>11. a[j] = target[j]
    BY <1>0, <1>1, <1>5, <1>9, <1>10
  <1> QED  BY <1>8, <1>11, AgreeingIsCloser DEF j

\* Of the ids of a set there is one that none is closer than.
LEMMA ClosestExists ==
    ASSUME NEW T \in SUBSET Id, T # {}, NEW target \in Id
    PROVE  \E a \in T : \A c \in T : ~CloserTo(c, target, a)
  <1> DEFINE S == {Distance(a, target) : a \in T}
  <1>1. S \subseteq Nat /\ S # {}
    BY DistanceType
  <1>2. PICK m \in S : \A n \in S : m <= n
    <2> HIDE DEF S
    <2> QED  BY <1>1, LeastNatural
  <1>3. PICK a \in T : Distance(a, target) = m
    BY <1>2
  <1>4. ASSUME NEW c \in T
        PROVE  ~CloserTo(c, target, a)
    <2>1. m <= Distance(c, target)
      BY <1>2
    <2>2. m \in Nat /\ Distance(c, target) \in Nat
      BY <1>1, DistanceType
    <2> QED  BY <1>3, <2>1, <2>2 DEF CloserTo
  <1> QED  BY <1>4

-----------------------------------------------------------------------------
(* The theorems.  Their tables are those of KBucket, which the code has as *)
(* long as no two calls of NewContact ping for one bucket at the same time.*)

\* In every reachable state the distance of two known contacts to a target is
\* decided by the first bit in which they differ (BitArray.CloserTo).
THEOREM FirstDifferenceDecides == Spec => []CloserByFirstDifference
  <1>1. BucketsSound => CloserByFirstDifference
    <2> SUFFICES ASSUME BucketsSound
                 PROVE  CloserByFirstDifference
      OBVIOUS
    <2>1. Known \subseteq Id
      BY BucketAtFacts, OwnerAssumption
    <2> QED  BY <2>1, FirstDifference DEF CloserByFirstDifference
  <1> QED  BY <1>1, BucketsStaySound, PTL

\* FindClosest returns K distinct known contacts, or all of them when they
\* are fewer, for every target and every table KBucket can build.
THEOREM KContactsReturned == Spec => []ReturnsKContacts
  <1>1. BucketsSound => ReturnsKContacts
    BY ClosestFacts DEF ReturnsKContacts
  <1> QED  BY <1>1, BucketsStaySound, PTL

\* FindClosest returns the closest contact the node knows whenever the bucket
\* of the target holds anyone but the node itself.
THEOREM ClosestContactReturned == Spec => []ReturnsClosestContact
  <1>1. BucketsSound => ReturnsClosestContact
    <2> SUFFICES ASSUME BucketsSound, NEW target \in Id \ {Owner},
                        ToSet(order[BucketIndex(Owner, target)]) \ {Owner} # {}
                 PROVE  \E i \in DOMAIN Closest(target) : \A c \in Known :
                            ~CloserTo(c, target, Closest(target)[i])
      BY DEF ReturnsClosestContact
    <2> DEFINE b == BucketIndex(Owner, target)
               home == ToSet(order[b]) \ {Owner}
    <2>1. b \in Bucket
      BY OwnerAssumption, BucketAssumption, BucketIndexFacts
    <2>2. BucketAt(b) = order[b]
      BY <2>1 DEF BucketAt
    <2>3. /\ ToSet(order[b]) = {c \in Known : BucketOf[c] = b}
          /\ Known \subseteq Contact
      BY <2>2, BucketAtFacts
    <2>4. Known \subseteq Id /\ \A c \in Known : BucketOf[c] = BucketIndex(Owner, c)
      BY <2>3, BucketOfFacts
    <2>5. PICK a \in home : \A c \in home : ~CloserTo(c, target, a)
      <3>1. home \in SUBSET Id /\ home # {}
        BY <2>3, <2>4
      <3> HIDE DEF home
      <3> QED  BY <3>1, ClosestExists
    <2>6. a \in Id /\ a # Owner /\ BucketIndex(Owner, a) = b
      BY <2>3, <2>4
    <2>7. \A c \in Known : ~CloserTo(c, target, a)
      <3> SUFFICES ASSUME NEW c \in Known
                   PROVE  ~CloserTo(c, target, a)
        OBVIOUS
      <3>1. CASE c \in home
        BY <2>5, <3>1
      <3>2. CASE c \notin home
        <4>1. c \in Id /\ (c = Owner \/ BucketIndex(Owner, c) # b)
          BY <2>3, <2>4, <3>2
        <4>2. CloserTo(a, target, c)
          BY <2>6, <4>1, HomeIsCloser
        <4> QED  BY <2>6, <4>1, <4>2, CloserIsTotalOrder
      <3> QED  BY <3>1, <3>2
    <2>8. a \in ToSet(Closest(target))
      BY <2>2, ClosestFacts
    <2> QED  BY <2>7, <2>8 DEF ToSet
  <1> QED  BY <1>1, BucketsStaySound, PTL

\* Where FindClosest does return the closest K: a full bucket of the target,
\* without the owner's own id, is the answer, and every contact left out is
\* farther from the target than every contact returned.
FullBucketIsKClosest ==
    \A target \in Id \ {Owner} :
        LET home == order[BucketIndex(Owner, target)]
            r == ToSet(Closest(target))
        IN  (Len(home) = K /\ Owner \notin ToSet(home)) =>
               /\ r = ToSet(home)
               /\ \A a \in r, c \in Known \ r : CloserTo(a, target, c)

\* The K closest known contacts are returned when the target's bucket is full.
THEOREM ReturnsFullBucket == Spec => []FullBucketIsKClosest
  <1>1. BucketsSound => FullBucketIsKClosest
    <2> SUFFICES ASSUME BucketsSound, NEW target \in Id \ {Owner},
                        Len(order[BucketIndex(Owner, target)]) = K,
                        Owner \notin ToSet(order[BucketIndex(Owner, target)])
                 PROVE  LET home == order[BucketIndex(Owner, target)]
                            r == ToSet(Closest(target))
                        IN  /\ r = ToSet(home)
                            /\ \A a \in r, c \in Known \ r : CloserTo(a, target, c)
      BY DEF FullBucketIsKClosest
    <2> DEFINE b == BucketIndex(Owner, target)
               home == order[b]
               r == ToSet(Closest(target))
    <2>1. b \in Bucket
      BY OwnerAssumption, BucketAssumption, BucketIndexFacts
    <2>2. BucketAt(b) = home
      BY <2>1 DEF BucketAt
    <2>3. /\ ToSet(home) = {c \in Known : BucketOf[c] = b}
          /\ Known \subseteq Contact /\ home \in Seq(Contact)
      BY <2>2, BucketAtFacts
    <2>4. Known \subseteq Id /\ \A c \in Known : BucketOf[c] = BucketIndex(Owner, c)
      BY <2>3, BucketOfFacts
    <2>5. Closest(target) = Truncated(home, K)
      BY <2>2, SizeAssumption DEF Closest
    <2>6. r = ToSet(home)
      BY <2>3, <2>5, SizeAssumption, TruncatedFacts
    <2>7. ASSUME NEW a \in ToSet(home), NEW c \in Known \ ToSet(home)
          PROVE  CloserTo(a, target, c)
      <3>1. /\ a \in Id /\ a # Owner /\ BucketIndex(Owner, a) = b
            /\ c \in Id /\ BucketIndex(Owner, c) # b
        BY <2>3, <2>4
      <3> QED  BY <3>1, HomeIsCloser
    <2> QED  BY <2>6, <2>7
  <1> QED  BY <1>1, BucketsStaySound, PTL

\* A node that knows at most K contacts returns all of them, for every
\* target: what Overlay takes FindClosest to do.
SmallTableIsReturned ==
    Cardinality(Known) <= K => \A target \in Id : ToSet(Closest(target)) = Known

\* All contacts are returned when they are at most K.
THEOREM ReturnsSmallTable == Spec => []SmallTableIsReturned
  <1>1. BucketsSound => SmallTableIsReturned
    <2> SUFFICES ASSUME BucketsSound, Cardinality(Known) <= K, NEW target \in Id
                 PROVE  ToSet(Closest(target)) = Known
      BY DEF SmallTableIsReturned
    <2> DEFINE r == Closest(target)
               k == Cardinality(Known)
    <2>1. /\ r \in Seq(Contact) /\ IsInjective(r) /\ ToSet(r) \subseteq Known
          /\ Len(r) = Min({K, k})
      BY ClosestFacts
    <2>2. IsFiniteSet(Known) /\ k \in Nat
      BY KnownFinite
    <2> HIDE DEF r
    <2>3. Len(r) = k
      <3>1. Min({K, k}) = IF K <= k THEN K ELSE k
        BY <2>2, SizeAssumption, MinOfTwo
      <3> HIDE DEF k
      <3> QED  BY <2>1, <2>2, <3>1, SizeAssumption DEF k
    <2>4. Cardinality(ToSet(r)) = k
      BY <2>1, <2>3, InjectiveCount
    <2>5. ToSet(r) = Known
      BY <2>1, <2>2, <2>4, FS_Subset
    <2> QED  BY <2>5 DEF r
  <1> QED  BY <1>1, BucketsStaySound, PTL

\* A contact that is known is among those returned for its own id: asked for
\* a node it knows, a node names it.
KnownTargetIsReturned ==
    \A target \in Known : target \in ToSet(Closest(target))

\* A known contact is found by its own id.
THEOREM ReturnsKnownTarget == Spec => []KnownTargetIsReturned
  <1>1. BucketsSound => KnownTargetIsReturned
    <2> SUFFICES ASSUME BucketsSound, NEW target \in Known
                 PROVE  target \in ToSet(Closest(target))
      BY DEF KnownTargetIsReturned
    <2> DEFINE b == BucketIndex(Owner, target)
    <2>1. target \in Contact
      BY BucketAtFacts
    <2>2. target \in Id /\ BucketOf[target] = b
      BY <2>1, BucketOfFacts
    <2>3. target \in ToSet(BucketAt(b))
      <3>1. ToSet(BucketAt(b)) = {c \in Known : BucketOf[c] = b}
        BY BucketAtFacts
      <3> QED  BY <2>2, <3>1
    <2> QED  BY <2>2, <2>3, ClosestFacts
  <1> QED  BY <1>1, BucketsStaySound, PTL

\* No two ids are equally far from a target (Xor, ToBigInt): what LookUp
\* assumes of distances, and why sorting by them has one outcome.
THEOREM DistancesDiffer ==
    \A target \in Id : LET Dist == [a \in Id |-> Distance(a, target)]
                       IN  /\ Dist \in [Id -> Nat]
                           /\ \A a, b \in Id : Dist[a] = Dist[b] => a = b
  <1> SUFFICES ASSUME NEW target \in Id
               PROVE  /\ [a \in Id |-> Distance(a, target)] \in [Id -> Nat]
                      /\ \A a, b \in Id : Distance(a, target) = Distance(b, target) => a = b
    OBVIOUS
  <1>1. \A a \in Id : Distance(a, target) \in Nat
    BY DistanceType
  <1>2. ASSUME NEW a \in Id, NEW b \in Id, Distance(a, target) = Distance(b, target)
        PROVE  a = b
    <2>1. ~CloserTo(a, target, b) /\ ~CloserTo(b, target, a)
      BY <1>1, <1>2 DEF CloserTo
    <2> QED  BY <2>1, CloserIsTotalOrder
  <1> QED  BY <1>1, <1>2
=============================================================================
