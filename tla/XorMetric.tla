----------------------------- MODULE XorMetric -----------------------------
(***************************************************************************)
(* Node ids and their distance (pkg/utils/bit_array.go), with the number   *)
(* of bits as a parameter: 160 in the code.  Bit 0 is the most significant *)
(* one.                                                                    *)
(***************************************************************************)
EXTENDS Naturals, FiniteSetsExt

CONSTANT IdBits

ASSUME IdBitsAssumption == IdBits \in Nat \ {0}

BitPosition == 0 .. IdBits - 1

Id == [BitPosition -> {0, 1}]

Xor(a, b) == [i \in BitPosition |-> IF a[i] # b[i] THEN 1 ELSE 0]

\* Mutant of Weight: bit 0 taken for the least significant one.
ReversedWeight(i) == 2 ^ i

\* "MSB = highest power"
Weight(i) == 2 ^ (IdBits - 1 - i)

ToBigInt(a) == MapThenSumSet(Weight, {i \in BitPosition : a[i] = 1})

Distance(a, b) == ToBigInt(Xor(a, b))

CloserTo(a, target, other) == Distance(a, target) < Distance(other, target)

\* Mutant of DiffBit: the search loop without its break.
LastDiffBit(a, b) == IF a = b THEN 0 ELSE Max({i \in BitPosition : a[i] # b[i]})

\* The search loop of NewContact and FindClosest: the first bit in which the
\* ids differ, and 0 when they do not.
DiffBit(a, b) == IF a = b THEN 0 ELSE Min({i \in BitPosition : a[i] # b[i]})

BucketIndex(owner, a) == IdBits - 1 - DiffBit(owner, a)
=============================================================================
