------------------------- MODULE RegionPathsProofs -------------------------
(***************************************************************************)
(* Facts about the labels of RegionPaths, for all column lengths and all   *)
(* boundaries: labels count windows, so they ascend along the right column *)
(* and rise exactly where a window begins.                                 *)
(***************************************************************************)
EXTENDS RegionPaths, FiniteSetTheorems, WellFoundedInduction, TLAPS

\* Every nonempty set of naturals has a least element.
LEMMA LeastNatural ==
    ASSUME NEW S \in SUBSET Nat, S # {}
    PROVE  \E m \in S : \A k \in S : m <= k
<1>1. \E m \in S : \A k \in S : <<k, m>> \notin OpToRel(<, Nat)
    BY NatLessThanWellFounded, WFMin, Zenon
<1>2. \E m \in S : \A k \in S : ~(k < m)
    BY <1>1, Zenon DEF OpToRel
<1> HIDE <1>1
<1> QED
    BY <1>2

LEMMA LeftFinite ==
    /\ IsFiniteSet(Left)
    /\ \A S \in SUBSET Left : IsFiniteSet(S) /\ Cardinality(S) \in Nat
<1>1. IsFiniteSet(Left)
    BY FS_Interval, LengthsAssumption DEF Left
<1> QED
    BY <1>1, FS_Subset, FS_CardinalityType

LEMMA RightFinite ==
    /\ IsFiniteSet(Right) /\ Cardinality(Right) = RightLen
    /\ \A S \in SUBSET Right : IsFiniteSet(S) /\ Cardinality(S) \in 0 .. RightLen
<1>1. IsFiniteSet(Right) /\ Cardinality(Right) = RightLen
    BY FS_Interval, LengthsAssumption DEF Right
<1>2. ASSUME NEW S \in SUBSET Right PROVE IsFiniteSet(S) /\ Cardinality(S) \in 0 .. RightLen
    <2>1. IsFiniteSet(S) /\ Cardinality(S) <= RightLen
        BY <1>1, FS_Subset
    <2>2. Cardinality(S) \in Nat
        BY <2>1, FS_CardinalityType
    <2> QED
        BY <2>1, <2>2, LengthsAssumption
<1> QED
    BY <1>1, <1>2

\* The cardinality of a union of disjoint finite sets.
LEMMA DisjointUnion ==
    ASSUME NEW S, NEW T, IsFiniteSet(S), IsFiniteSet(T), S \cap T = {}
    PROVE  /\ IsFiniteSet(S \union T)
           /\ Cardinality(S \union T) = Cardinality(S) + Cardinality(T)
<1>1. Cardinality(S \cap T) = 0 /\ Cardinality(S) \in Nat /\ Cardinality(T) \in Nat
    BY FS_EmptySet, FS_CardinalityType
<1>2. /\ IsFiniteSet(S \union T)
      /\ Cardinality(S \union T) = Cardinality(S) + Cardinality(T) - Cardinality(S \cap T)
    BY FS_Union
<1> QED
    BY <1>1, <1>2

\* A permutation of the left rows names them all.
LEMMA PermutationIsOnto ==
    ASSUME NEW order \in Permutations(Left), NEW i \in Left
    PROVE  \E k \in Left : order[k] = i
<1>1. order \in Injection(Left, Left)
    BY DEF Permutations, Injection, IsInjective
<1>2. order \in Surjection(Left, Left)
    BY <1>1, LeftFinite, FS_Injection
<1> QED
    BY <1>2 DEF Surjection

\* Labels are naturals, and a window that has begun labels its row above 0.
LEMMA LabelTypes ==
    ASSUME NEW b \in Boundaries
    PROVE  /\ RightLabels(b) \in [Right -> Nat]
           /\ LeftLabels(b) \in [Left -> Nat]
           /\ \A i \in Left : LeftLabels(b)[i] = 0 <=> b[i] = RightLen
<1>1. \A j : Begun(b, j) \in SUBSET Left
    BY DEF Begun
<1>2. \A j : Cardinality(Begun(b, j)) \in Nat
    BY <1>1, LeftFinite
<1>3. ASSUME NEW i \in Left PROVE Cardinality(Begun(b, b[i])) # 0
    <2>1. i \in Begun(b, b[i])
        BY DEF Begun, Boundaries
    <2> QED
        BY <1>1, <2>1, LeftFinite, FS_EmptySet
<1> QED
    BY <1>2, <1>3 DEF RightLabels, LeftLabels

\* The labels of the right column ascend.
LEMMA LabelsAscend ==
    ASSUME NEW b \in Boundaries, NEW j \in Int, NEW k \in Int, j <= k
    PROVE  Cardinality(Begun(b, j)) <= Cardinality(Begun(b, k))
<1>1. Begun(b, j) \in SUBSET Begun(b, k)
    BY DEF Begun, Boundaries
<1>2. Begun(b, k) \in SUBSET Left
    BY DEF Begun
<1> QED
    BY <1>1, <1>2, LeftFinite, FS_Subset

LEMMA FirstLabelsAscend ==
    ASSUME NEW b \in Boundaries, NEW j \in Right, NEW k \in Right, j <= k
    PROVE  RightLabels(b)[j] <= RightLabels(b)[k]
    BY LabelsAscend DEF RightLabels, Right

\* An ascending function has a partition point.
LEMMA PartitionPointIsExact ==
    ASSUME NEW f \in [Right -> Nat], NEW x \in Nat,
           \A j, k \in Right : j <= k => f[j] <= f[k]
    PROVE  /\ PartitionPoint(f, x) \in 0 .. RightLen
           /\ \A j \in Right : j < PartitionPoint(f, x) <=> f[j] < x
<1> DEFINE S == {s \in 0 .. RightLen : s = RightLen \/ f[s] >= x}
<1>1. S \in SUBSET Nat /\ S # {}
    BY LengthsAssumption
<1>2. PICK m \in S : \A k \in S : m <= k
    BY <1>1, LeastNatural
<1>3. m \in 0 .. RightLen
    OBVIOUS
<1>4. ASSUME NEW j \in Right PROVE j < m <=> f[j] < x
    <2>1. j \in 0 .. RightLen /\ j \in Int /\ m \in Int /\ f[j] \in Nat
        BY LengthsAssumption DEF Right
    <2>2. CASE j < m
        <3>1. j \notin S
            BY <1>2, <2>1, <2>2
        <3> QED
            BY <2>1, <2>2, <3>1
    <2>3. CASE m <= j
        <3>1. m \in Right /\ m # RightLen
            BY <1>3, <2>3, LengthsAssumption DEF Right
        <3>2. f[m] >= x /\ f[m] <= f[j] /\ f[m] \in Nat
            BY <2>3, <3>1
        <3> QED
            BY <2>1, <2>3, <3>2
    <2> QED
        BY <2>1, <2>2, <2>3
<1> HIDE DEF S
<1>5. \E s \in 0 .. RightLen : \A j \in Right : j < s <=> f[j] < x
    BY <1>3, <1>4
<1> QED
    BY <1>5 DEF PartitionPoint

\* A window not yet begun raises the label above all before it.
LEMMA LabelRises ==
    ASSUME NEW b \in Boundaries, NEW i \in Left, NEW j \in Int, j < b[i]
    PROVE  Cardinality(Begun(b, j)) < Cardinality(Begun(b, b[i]))
<1>1. b[i] \in Int
    BY LengthsAssumption DEF Boundaries
<1>2. Begun(b, j) \in SUBSET Begun(b, b[i])
    BY <1>1 DEF Begun, Boundaries
<1>3. i \in Begun(b, b[i]) /\ i \notin Begun(b, j)
    BY <1>1 DEF Begun
<1>4. Begun(b, b[i]) \in SUBSET Left
    BY DEF Begun
<1>5. /\ IsFiniteSet(Begun(b, b[i]))
      /\ Cardinality(Begun(b, b[i])) \in Nat /\ Cardinality(Begun(b, j)) \in Nat
    BY <1>2, <1>4, LeftFinite
<1>6. /\ Cardinality(Begun(b, j)) <= Cardinality(Begun(b, b[i]))
      /\ Cardinality(Begun(b, b[i])) = Cardinality(Begun(b, j))
            => Begun(b, b[i]) = Begun(b, j)
    BY <1>2, <1>5, FS_Subset
<1> QED
    BY <1>3, <1>5, <1>6

\* One integer comparison stands for the window: a left label is nonzero and
\* at most a right label exactly when the right row lies in the left row's
\* window.  Every region kernel of regions.rs rests on this equivalence.
THEOREM LabelsDecideWindow ==
    ASSUME NEW b \in Boundaries, NEW i \in Left, NEW j \in Right
    PROVE  /\ LeftLabels(b)[i] # 0
           /\ LeftLabels(b)[i] <= RightLabels(b)[j]
           <=> b[i] <= j
<1>1. b[i] \in 0 .. RightLen /\ j \in Int /\ j < RightLen /\ b[i] \in Int
    BY LengthsAssumption DEF Boundaries, Right
<1>2. CASE b[i] = RightLen
    BY <1>1, <1>2, LabelTypes
<1>3. CASE b[i] # RightLen
    <2>1. /\ LeftLabels(b)[i] = Cardinality(Begun(b, b[i]))
          /\ LeftLabels(b)[i] # 0
          /\ RightLabels(b)[j] = Cardinality(Begun(b, j))
        BY <1>3, LabelTypes DEF LeftLabels, RightLabels
    <2>2. LeftLabels(b)[i] \in Nat /\ RightLabels(b)[j] \in Nat
        BY LabelTypes
    <2>3. CASE b[i] <= j
        BY <1>1, <2>1, <2>3, LabelsAscend
    <2>4. CASE j < b[i]
        BY <1>1, <2>1, <2>2, <2>4, LabelRises
    <2> QED
        BY <1>1, <2>3, <2>4
<1> QED
    BY <1>2, <1>3
=============================================================================
