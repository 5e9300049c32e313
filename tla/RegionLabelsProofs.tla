------------------------- MODULE RegionLabelsProofs -------------------------
(***************************************************************************)
(* The loops of build_region_paths build the labels that RegionPaths       *)
(* states in one line, and a comparison of them decides the predicate, for *)
(* every call and every size.  The inductive invariant says of each loop   *)
(* what it has done up to its cursor: boundaries searched (SearchInv),     *)
(* windows counted at their boundaries and then summed up (CountInv), left *)
(* labels read off (LabelInv), right labels gathered (GatherInv) and       *)
(* masked (MaskInv).                                                       *)
(***************************************************************************)
EXTENDS RegionLabels, RegionPathsProofs

Loops == {"search", "events", "accumulate", "label", "gather", "mask"}

\* Where a window begins: at the searched boundary if the row is in play.
Expected(i) ==
    IF Filtered(i) THEN RangeBoundary(call.op, call.left[i], call.right) ELSE RightLen

SearchInv ==
    /\ call \in Calls /\ boundaries \in Boundaries
    /\ cursor \in Nat
    /\ pc \in {"search", "events", "label"} => cursor <= LeftLen
    /\ pc \in {"accumulate", "gather"} => cursor <= RightLen
    /\ pc = "accumulate" => cursor >= 1
    /\ successful = [i \in Left |-> boundaries[i] < RightLen]
    /\ \A i \in Left :
        boundaries[i] = IF pc = "search" /\ i >= cursor THEN RightLen ELSE Expected(i)
    /\ pc = "none" => \A i \in Left : ~successful[i]
    /\ pc \in {"events", "accumulate"} => \E i \in Left : successful[i]

\* The windows among the first k rows that begin at j.
BegunAt(k, j) == {i \in Left : i < k /\ boundaries[i] = j}

CountInv ==
    /\ pc = "search" => right_region = [j \in Right |-> 0]
    /\ pc = "events" =>
        right_region = [j \in Right |-> Cardinality(BegunAt(cursor, j))]
    /\ pc = "accumulate" =>
        right_region = [j \in Right |-> IF j < cursor THEN Cardinality(Begun(boundaries, j))
                                        ELSE Cardinality(BegunAt(LeftLen, j))]
    /\ pc \in {"label", "gather"} => right_region = RightLabels(boundaries)

LabelInv ==
    /\ pc \in {"search", "events", "accumulate"} => left_region = [i \in Left |-> 0]
    /\ pc = "label" =>
        left_region = [i \in Left |-> IF i < cursor THEN LeftLabels(boundaries)[i] ELSE 0]
    /\ pc \in {"gather", "mask", "done"} => left_region = LeftLabels(boundaries)

GatherInv ==
    /\ pc \in {"search", "events", "accumulate", "label"} =>
        seen = {} /\ realigned = [j \in Right |-> 0]
    /\ seen \in SUBSET Right /\ realigned \in [Right -> Nat]
    /\ pc = "gather" =>
        /\ call.alignment # None /\ DOMAIN call.alignment = Right
        /\ seen = {call.alignment[k] : k \in {l \in Right : l < cursor}}
        /\ \A k, l \in Right :
            k < cursor /\ l < cursor /\ call.alignment[k] = call.alignment[l] => k = l
        /\ \A k \in Right :
            k < cursor => realigned[k] = RightLabels(boundaries)[call.alignment[k]]

Cleared(j) == call.mask # None /\ call.mask[j] = 0

MaskInv ==
    /\ pc = "error" => call.alignment # None /\ ~IsPermutation(call.alignment)
    /\ pc \in {"mask", "done"} =>
        /\ call.alignment # None => IsPermutation(call.alignment)
        /\ \A j \in Right :
            right_region[j] = IF Cleared(j) /\ (pc = "done" \/ j < cursor)
                              THEN 0 ELSE RightLabels(boundaries)[SourceOf(j)]

LabelsInv == TypeOK /\ SearchInv /\ CountInv /\ LabelInv /\ GatherInv /\ MaskInv

USE DEF vars

-----------------------------------------------------------------------------
\* The boundary a search returns.

LEMMA CallFields ==
    ASSUME NEW c \in Calls
    PROVE  /\ c.op \in RangeOps
           /\ c.left \in [Left -> Int] /\ c.right \in [Right -> Int]
           /\ SearchOrder(c.op, c.right)
    BY CallsAssumption DEF IsCall

\* In the order its operator asks for, the rows that satisfy a predicate are a
\* suffix of the column, and range_boundary finds where it begins.
LEMMA BoundaryIsExact ==
    ASSUME NEW c \in Calls, NEW i \in Left
    PROVE  /\ RangeBoundary(c.op, c.left[i], c.right) \in 0 .. RightLen
           /\ \A j \in Right :
                j >= RangeBoundary(c.op, c.left[i], c.right)
                    <=> Apply(c.op, c.left[i], c.right[j])
<1> DEFINE met(j) == Apply(c.op, c.left[i], c.right[j])
           S == {k \in 0 .. RightLen : k = RightLen \/ met(k)}
<1>1. \A j, k \in Right : j <= k /\ met(j) => met(k)
    <2> SUFFICES ASSUME NEW j \in Right, NEW k \in Right, j <= k, met(j) PROVE met(k)
        OBVIOUS
    <2>1. /\ c.left[i] \in Int /\ c.right[j] \in Int /\ c.right[k] \in Int
          /\ c.op \in RangeOps
          /\ IF c.op \in {"<", "<="} THEN c.right[j] <= c.right[k]
             ELSE c.right[j] >= c.right[k]
        BY CallFields DEF SearchOrder
    <2> QED
        BY <2>1 DEF Apply, RangeOps
<1> HIDE DEF met
<1>2. S \in SUBSET Nat /\ RightLen \in S
    BY LengthsAssumption
<1>3. PICK m \in S : \A k \in S : m <= k
    BY <1>2, LeastNatural
<1>4. m \in 0 .. RightLen /\ \A j \in Right : j >= m <=> met(j)
    <2>1. m \in 0 .. RightLen /\ (m = RightLen \/ met(m))
        BY <1>3
    <2>2. ASSUME NEW j \in Right, j >= m PROVE met(j)
        BY <1>1, <2>1, <2>2, LengthsAssumption DEF Right
    <2>3. ASSUME NEW j \in Right, met(j) PROVE j >= m
        BY <1>3, <2>3, LengthsAssumption DEF Right
    <2> QED
        BY <2>1, <2>2, <2>3
<1>5. \E k \in 0 .. RightLen : \A j \in Right : j >= k <=> Apply(c.op, c.left[i], c.right[j])
    BY <1>4 DEF met
<1> QED
    BY <1>5, Zenon DEF RangeBoundary

LEMMA ExpectedIsExact ==
    ASSUME call \in Calls, NEW i \in Left
    PROVE  /\ Expected(i) \in 0 .. RightLen
           /\ \A j \in Right :
                Expected(i) <= j <=> Filtered(i) /\ Apply(call.op, call.left[i], call.right[j])
<1>1. CASE Filtered(i)
    BY <1>1, BoundaryIsExact, LengthsAssumption DEF Expected, Right
<1>2. CASE ~Filtered(i)
    BY <1>2, LengthsAssumption DEF Expected, Right
<1> QED
    BY <1>1, <1>2

-----------------------------------------------------------------------------
\* Each part of the invariant is inductive given the parts before it.

LEMMA SearchInit == Init => SearchInv
<1> SUFFICES ASSUME Init PROVE SearchInv
    OBVIOUS
<1>1. RightLen \in 0 .. RightLen /\ LeftLen \in Nat /\ \A i \in Left : i >= 0
    BY LengthsAssumption DEF Left
<1>2. boundaries \in Boundaries
    BY <1>1 DEF Init, Boundaries
<1>3. successful = [i \in Left |-> boundaries[i] < RightLen]
    <2>1. \A i \in Left : (boundaries[i] < RightLen) = FALSE
        BY LengthsAssumption DEF Init
    <2> QED
        BY <2>1, Zenon DEF Init
<1>4. /\ call \in Calls /\ cursor = 0 /\ pc = "search"
      /\ \A i \in Left : boundaries[i] = RightLen
    BY DEF Init
<1> QED
    BY <1>1, <1>2, <1>3, <1>4 DEF SearchInv

\* The steps after the search leave what it found alone.
AfterSearch ==
    \/ AddEvent \/ StartAccumulation \/ Accumulate \/ StartLabels \/ LabelLeft
    \/ KeepOrder \/ StartGather \/ RefuseLength
    \/ Gather \/ RefusePosition \/ StartMask \/ MaskRight \/ Return

LEMMA NextSplits == Next <=> SkipFiltered \/ SearchBoundary \/ ReturnNone \/ StartEvents \/ AfterSearch
    BY DEF Next, AfterSearch

LEMMA AfterSearchKeeps ==
    ASSUME AfterSearch
    PROVE  /\ UNCHANGED <<call, boundaries, successful>>
           /\ pc # "search" /\ pc' \notin {"search", "none"}
    BY DEF AfterSearch, AddEvent, StartAccumulation, Accumulate, StartLabels, LabelLeft,
        KeepOrder, StartGather, RefuseLength, Gather, RefusePosition, StartMask, MaskRight,
        Return, Turn, Refuse

LEMMA SearchNext == SearchInv /\ [Next]_vars => SearchInv'
<1> SUFFICES ASSUME SearchInv, [Next]_vars PROVE SearchInv'
    OBVIOUS
<1>0. /\ LeftLen \in Nat /\ RightLen \in Nat /\ cursor \in Nat
      /\ \A i \in Left : i \in Int /\ i < LeftLen
      /\ boundaries \in [Left -> 0 .. RightLen] /\ call \in Calls
    BY LengthsAssumption DEF SearchInv, Left, Boundaries
<1>1. ASSUME SkipFiltered \/ SearchBoundary PROVE SearchInv'
    <2>1. /\ pc = "search" /\ pc' = "search" /\ cursor < LeftLen /\ cursor' = cursor + 1
          /\ call' = call /\ cursor \in Left
        BY <1>0, <1>1 DEF SkipFiltered, SearchBoundary, Left
    <2>2. \A i \in Left : Expected(i)' = Expected(i)
        BY <2>1 DEF Expected, Filtered
    <2>3. Expected(cursor) \in 0 .. RightLen
        BY <1>0, <2>1, ExpectedIsExact
    <2>4. /\ boundaries' = [boundaries EXCEPT ![cursor] = Expected(cursor)]
          /\ successful' = [successful EXCEPT ![cursor] = (Expected(cursor) < RightLen)]
        <3>1. CASE SkipFiltered
            <4>1. ~Filtered(cursor) /\ Expected(cursor) = RightLen
                BY <3>1 DEF SkipFiltered, Expected, Filtered
            <4>2. ~(RightLen < RightLen)
                BY <1>0
            <4>3. /\ boundaries' = [boundaries EXCEPT ![cursor] = RightLen]
                  /\ successful' = [successful EXCEPT ![cursor] = FALSE]
                BY <3>1 DEF SkipFiltered
            <4>4. (Expected(cursor) < RightLen) = FALSE
                BY <4>1, <4>2
            <4> QED
                BY <4>1, <4>3, <4>4, Zenon
        <3>2. CASE SearchBoundary
            BY <3>2 DEF SearchBoundary, Expected, Filtered
        <3> QED
            BY <1>1, <3>1, <3>2
    <2>5. boundaries' \in Boundaries
        BY <1>0, <2>3, <2>4 DEF Boundaries
    <2>6. \A i \in Left : boundaries'[i] = IF i = cursor THEN Expected(cursor) ELSE boundaries[i]
        BY <1>0, <2>4
    <2>7. successful' = [i \in Left |-> boundaries'[i] < RightLen]
        <3>1. successful = [i \in Left |-> boundaries[i] < RightLen]
            BY DEF SearchInv
        <3>2. successful' = [i \in Left |-> IF i = cursor THEN (Expected(cursor) < RightLen)
                                            ELSE boundaries[i] < RightLen]
            BY <2>1, <2>4, <3>1, Zenon
        <3> QED
            BY <2>6, <3>2
    <2>8. \A i \in Left :
            boundaries'[i] = IF i >= cursor + 1 THEN RightLen ELSE Expected(i)
        <3>1. \A i \in Left : i >= cursor + 1 <=> i >= cursor /\ i # cursor
            BY <1>0
        <3>2. \A i \in Left : boundaries[i] = IF i >= cursor THEN RightLen ELSE Expected(i)
            BY <2>1 DEF SearchInv
        <3> QED
            BY <2>6, <3>1, <3>2, Zenon
    <2> QED
        BY <1>0, <2>1, <2>2, <2>5, <2>7, <2>8 DEF SearchInv
<1>2. CASE ReturnNone
    <2>1. \A i \in Left : Expected(i)' = Expected(i)
        BY <1>2 DEF ReturnNone, Expected, Filtered
    <2> QED
        BY <1>0, <1>2, <2>1 DEF ReturnNone, SearchInv
<1>3. CASE StartEvents
    <2>1. \A i \in Left : Expected(i)' = Expected(i)
        BY <1>3 DEF StartEvents, Turn, Expected, Filtered
    <2> QED
        BY <1>0, <1>3, <2>1 DEF StartEvents, Turn, SearchInv
<1>4. CASE AfterSearch
    <2>1. UNCHANGED <<call, boundaries, successful>> /\ pc # "search" /\ pc' \notin {"search", "none"}
        BY <1>4, AfterSearchKeeps
    <2>2. \A i \in Left : Expected(i)' = Expected(i)
        BY <2>1 DEF Expected, Filtered
    <2>3. /\ cursor' \in Nat
          /\ pc' \in {"search", "events", "label"} => cursor' <= LeftLen
          /\ pc' = "gather" => cursor' <= RightLen
        BY <1>0, <1>4 DEF AfterSearch, AddEvent, StartAccumulation, Accumulate, StartLabels,
            LabelLeft, KeepOrder, StartGather, RefuseLength, Gather, RefusePosition, StartMask,
            MaskRight, Return, Turn, Refuse, SearchInv
    <2>4. pc' = "accumulate" => cursor' >= 1 /\ cursor' <= RightLen
        <3>1. CASE StartAccumulation
            <4>1. PICK i \in Left : successful[i]
                BY <3>1 DEF StartAccumulation, Turn, SearchInv
            <4>2. boundaries[i] < RightLen /\ boundaries[i] \in 0 .. RightLen
                BY <1>0, <4>1 DEF SearchInv
            <4> QED
                BY <1>0, <3>1, <4>2 DEF StartAccumulation, Turn
        <3>2. CASE Accumulate
            BY <1>0, <3>2 DEF Accumulate, SearchInv
        <3> QED
            BY <1>4, <3>1, <3>2 DEF AfterSearch, AddEvent, StartLabels,
                LabelLeft, KeepOrder, StartGather, RefuseLength, Gather, RefusePosition, StartMask,
                MaskRight, Return, Turn, Refuse
    <2>5. pc' \in {"events", "accumulate"} => pc \in {"events", "accumulate"}
        BY <1>4 DEF AfterSearch, AddEvent, StartAccumulation, Accumulate, StartLabels,
            LabelLeft, KeepOrder, StartGather, RefuseLength, Gather, RefusePosition, StartMask,
            MaskRight, Return, Turn, Refuse
    <2> QED
        BY <1>0, <2>1, <2>2, <2>3, <2>4, <2>5 DEF SearchInv
<1>5. CASE UNCHANGED vars
    <2>1. \A i \in Left : Expected(i)' = Expected(i)
        BY <1>5 DEF Expected, Filtered
    <2> QED
        BY <1>5, <2>1 DEF SearchInv
<1> QED
    BY <1>1, <1>2, <1>3, <1>4, <1>5, NextSplits

\* Windows counted at one more row, or one more offset.
LEMMA BegunAtCounts ==
    ASSUME SearchInv, NEW j \in Int
    PROVE  /\ BegunAt(0, j) = {} /\ Cardinality(BegunAt(0, j)) = 0
           /\ \A k \in Left :
                Cardinality(BegunAt(k + 1, j)) =
                    IF boundaries[k] = j THEN Cardinality(BegunAt(k, j)) + 1
                    ELSE Cardinality(BegunAt(k, j))
           /\ \A k : Cardinality(BegunAt(k, j)) \in Nat
           /\ BegunAt(LeftLen, j) = {i \in Left : boundaries[i] = j}
<1>0. \A i \in Left : i \in Int /\ 0 <= i /\ i < LeftLen
    BY LengthsAssumption DEF Left
<1>1. BegunAt(0, j) = {} /\ BegunAt(LeftLen, j) = {i \in Left : boundaries[i] = j}
    BY <1>0 DEF BegunAt
<1>2. \A k : BegunAt(k, j) \in SUBSET Left
    BY DEF BegunAt
<1>3. ASSUME NEW k \in Left
      PROVE  Cardinality(BegunAt(k + 1, j)) =
                IF boundaries[k] = j THEN Cardinality(BegunAt(k, j)) + 1
                ELSE Cardinality(BegunAt(k, j))
    <2>1. \A i \in Left : i < k + 1 <=> i < k \/ i = k
        BY <1>0
    <2>2. CASE boundaries[k] = j
        <3>1. BegunAt(k + 1, j) = BegunAt(k, j) \union {k}
            BY <2>1, <2>2, Zenon DEF BegunAt
        <3>2. k \notin BegunAt(k, j)
            BY <1>0 DEF BegunAt
        <3> QED
            BY <1>2, <2>2, <3>1, <3>2, LeftFinite, FS_AddElement
    <2>3. CASE boundaries[k] # j
        <3>1. BegunAt(k + 1, j) = BegunAt(k, j)
            BY <2>1, <2>3, Zenon DEF BegunAt
        <3> QED
            BY <2>3, <3>1
    <2> QED
        BY <2>2, <2>3
<1>4. \A k : Cardinality(BegunAt(k, j)) \in Nat
    BY <1>2, LeftFinite
<1> QED
    BY <1>1, <1>3, <1>4, FS_EmptySet

\* What has begun by an offset is what had begun before it and what begins at it.
LEMMA BegunSums ==
    ASSUME SearchInv
    PROVE  /\ Cardinality(Begun(boundaries, 0)) = Cardinality(BegunAt(LeftLen, 0))
           /\ \A j \in Nat :
                Cardinality(Begun(boundaries, j + 1)) =
                    Cardinality(Begun(boundaries, j)) + Cardinality(BegunAt(LeftLen, j + 1))
<1>1. \A i \in Left : boundaries[i] \in Int /\ boundaries[i] >= 0
    BY LengthsAssumption DEF SearchInv, Boundaries
<1>2. \A j \in Int : BegunAt(LeftLen, j) = {i \in Left : boundaries[i] = j}
    BY BegunAtCounts
<1>3. Begun(boundaries, 0) = BegunAt(LeftLen, 0)
    BY <1>1, <1>2 DEF Begun
<1>4. ASSUME NEW j \in Nat
      PROVE  Cardinality(Begun(boundaries, j + 1)) =
                Cardinality(Begun(boundaries, j)) + Cardinality(BegunAt(LeftLen, j + 1))
    <2> DEFINE A == Begun(boundaries, j)
               B == BegunAt(LeftLen, j + 1)
    <2>1. \A i \in Left : boundaries[i] <= j + 1 <=> boundaries[i] <= j \/ boundaries[i] = j + 1
        BY <1>1
    <2>2. Begun(boundaries, j + 1) = A \union B
        BY <1>2, <2>1 DEF Begun
    <2>3. A \cap B = {}
        BY <1>1, <1>2 DEF Begun
    <2>4. A \in SUBSET Left /\ B \in SUBSET Left
        BY DEF Begun, BegunAt
    <2>5. /\ IsFiniteSet(A) /\ IsFiniteSet(B)
          /\ Cardinality(A) \in Nat /\ Cardinality(B) \in Nat
        BY <2>4, LeftFinite
    <2> HIDE DEF A, B
    <2>6. Cardinality(A \union B) = Cardinality(A) + Cardinality(B) - Cardinality(A \cap B)
        BY <2>5, FS_Union
    <2>7. Cardinality(A \cap B) = 0
        BY <2>3, FS_EmptySet
    <2>8. Cardinality(A \union B) = Cardinality(A) + Cardinality(B)
        BY <2>5, <2>6, <2>7
    <2> QED
        BY <2>2, <2>8, Zenon DEF A, B
<1> QED
    BY <1>3, <1>4

LEMMA CountInit == Init => CountInv
    BY DEF Init, CountInv

\* Events and labels only change in the loops that make them.
LEMMA CountNext == SearchInv /\ CountInv /\ [Next]_vars => CountInv'
<1> SUFFICES ASSUME SearchInv, CountInv, [Next]_vars PROVE CountInv'
    OBVIOUS
<1>0. /\ LeftLen \in Nat /\ RightLen \in Nat /\ cursor \in Nat
      /\ \A i \in Left : i \in Int /\ 0 <= i /\ i < LeftLen
      /\ \A j \in Right : j \in Int /\ 0 <= j /\ j < RightLen
      /\ boundaries \in Boundaries /\ \A i \in Left : boundaries[i] \in 0 .. RightLen
    BY LengthsAssumption DEF SearchInv, Left, Right, Boundaries
<1>1. CASE SkipFiltered \/ SearchBoundary \/ ReturnNone
    BY <1>1 DEF SkipFiltered, SearchBoundary, ReturnNone, CountInv
<1>2. CASE StartEvents
    <2>1. /\ pc' = "events" /\ cursor' = 0 /\ boundaries' = boundaries
          /\ right_region' = [j \in Right |-> 0]
        BY <1>2 DEF StartEvents, Turn, CountInv
    <2>2. \A j \in Right : Cardinality(BegunAt(0, j)) = 0
        BY <1>0, BegunAtCounts
    <2>3. right_region' = [j \in Right |-> Cardinality(BegunAt(0, j))]
        BY <2>1, <2>2
    <2>4. \A j \in Right : BegunAt(0, j)' = BegunAt(0, j)
        BY <2>1 DEF BegunAt
    <2>5. \A j \in Right : BegunAt(cursor, j)' = BegunAt(0, j)
        BY <2>1 DEF BegunAt
    <2> QED
        BY <2>1, <2>3, <2>5 DEF CountInv
<1>3. CASE AddEvent
    <2>1. /\ pc = "events" /\ pc' = "events" /\ cursor' = cursor + 1 /\ boundaries' = boundaries
          /\ cursor \in Left
        BY <1>0, <1>3 DEF AddEvent, Left
    <2>2. right_region = [j \in Right |-> Cardinality(BegunAt(cursor, j))]
        BY <2>1 DEF CountInv
    <2>3. successful[cursor] <=> boundaries[cursor] \in Right
        <3>1. successful[cursor] = (boundaries[cursor] < RightLen)
            BY <2>1, Zenon DEF SearchInv
        <3>2. boundaries[cursor] < RightLen <=> boundaries[cursor] \in Right
            BY <1>0, <2>1 DEF Right
        <3> QED
            BY <3>1, <3>2, Zenon
    <2>4. \A j \in Right :
            right_region'[j] = IF boundaries[cursor] = j THEN right_region[j] + 1
                               ELSE right_region[j]
        BY <1>3, <2>2, <2>3 DEF AddEvent, CountEvent
    <2>5. \A j \in Right :
            Cardinality(BegunAt(cursor + 1, j)) =
                    IF boundaries[cursor] = j THEN Cardinality(BegunAt(cursor, j)) + 1
                    ELSE Cardinality(BegunAt(cursor, j))
        BY <1>0, <2>1, BegunAtCounts
    <2>6. right_region' = [j \in Right |-> right_region'[j]]
        BY <1>3, <2>2 DEF AddEvent, CountEvent
    <2>7. \A j \in Right : right_region'[j] = Cardinality(BegunAt(cursor + 1, j))
        BY <2>2, <2>4, <2>5
    <2>8. \A j \in Right : BegunAt(cursor, j)' = BegunAt(cursor + 1, j)
        BY <2>1 DEF BegunAt
    <2>9. right_region' = [j \in Right |-> Cardinality(BegunAt(cursor, j)')]
        BY <2>6, <2>7, <2>8
    <2> QED
        BY <2>1, <2>9 DEF CountInv
<1>4. CASE StartAccumulation
    <2>1. /\ pc = "events" /\ pc' = "accumulate" /\ cursor = LeftLen /\ cursor' = 1
          /\ boundaries' = boundaries /\ right_region' = right_region
        BY <1>4 DEF StartAccumulation, Turn
    <2>2. right_region = [j \in Right |-> Cardinality(BegunAt(LeftLen, j))]
        BY <2>1 DEF CountInv
    <2>3. \A j \in Right : j < 1 => Cardinality(BegunAt(LeftLen, j)) = Cardinality(Begun(boundaries, j))
        BY <1>0, BegunSums
    <2>4. \A j \in Right : /\ BegunAt(LeftLen, j)' = BegunAt(LeftLen, j)
                           /\ Begun(boundaries, j)' = Begun(boundaries, j)
        BY <2>1 DEF BegunAt
    <2>5. right_region' = [j \in Right |-> IF j < 1 THEN Cardinality(Begun(boundaries, j)')
                                           ELSE Cardinality(BegunAt(LeftLen, j)')]
        BY <2>1, <2>2, <2>3, <2>4
    <2> QED
        BY <2>1, <2>5 DEF CountInv
<1>5. CASE Accumulate
    <2>1. /\ pc = "accumulate" /\ pc' = "accumulate" /\ cursor < RightLen /\ cursor' = cursor + 1
          /\ boundaries' = boundaries /\ cursor >= 1 /\ cursor \in Right /\ cursor - 1 \in Right
          /\ right_region' = [right_region EXCEPT ![cursor] = @ + right_region[cursor - 1]]
        BY <1>0, <1>5 DEF Accumulate, SearchInv, Right
    <2>2. right_region = [j \in Right |-> IF j < cursor THEN Cardinality(Begun(boundaries, j))
                                        ELSE Cardinality(BegunAt(LeftLen, j))]
        BY <2>1 DEF CountInv
    <2>3. /\ right_region[cursor] = Cardinality(BegunAt(LeftLen, cursor))
          /\ right_region[cursor - 1] = Cardinality(Begun(boundaries, cursor - 1))
        BY <1>0, <2>1, <2>2
    <2>4. Cardinality(Begun(boundaries, cursor)) =
                Cardinality(Begun(boundaries, cursor - 1)) + Cardinality(BegunAt(LeftLen, cursor))
        <3>1. cursor - 1 \in Nat /\ (cursor - 1) + 1 = cursor
            BY <1>0, <2>1
        <3> QED
            BY <3>1, BegunSums
    <2>5. Cardinality(Begun(boundaries, cursor - 1)) \in Nat /\ Cardinality(BegunAt(LeftLen, cursor)) \in Nat
        BY LeftFinite DEF Begun, BegunAt
    <2>6. right_region' = [right_region EXCEPT ![cursor] = Cardinality(Begun(boundaries, cursor))]
        <3>1. right_region[cursor] + right_region[cursor - 1] = Cardinality(Begun(boundaries, cursor))
            BY <2>3, <2>4, <2>5
        <3> QED
            BY <2>1, <3>1, Zenon
    <2>7. \A j \in Right : j < cursor + 1 <=> j < cursor \/ j = cursor
        BY <1>0
    <2>8. \A j \in Right :
            right_region'[j] = IF j < cursor + 1 THEN Cardinality(Begun(boundaries, j))
                               ELSE Cardinality(BegunAt(LeftLen, j))
        BY <1>0, <2>1, <2>2, <2>6, <2>7
    <2>9. \A j \in Right : /\ BegunAt(LeftLen, j)' = BegunAt(LeftLen, j)
                           /\ Begun(boundaries, j)' = Begun(boundaries, j)
        BY <2>1 DEF BegunAt
    <2>10. right_region' = [j \in Right |-> right_region'[j]]
        BY <2>2, <2>6
    <2>11. right_region' = [j \in Right |-> IF j < cursor' THEN Cardinality(Begun(boundaries, j)')
                                           ELSE Cardinality(BegunAt(LeftLen, j)')]
        BY <2>1, <2>8, <2>9, <2>10
    <2> QED
        BY <2>1, <2>11 DEF CountInv
<1>6. CASE StartLabels
    <2>1. /\ pc = "accumulate" /\ pc' = "label" /\ cursor = RightLen
          /\ boundaries' = boundaries /\ right_region' = right_region
        BY <1>6 DEF StartLabels, Turn
    <2>2. right_region = RightLabels(boundaries)
        BY <1>0, <2>1 DEF CountInv, RightLabels
    <2> QED
        BY <2>1, <2>2 DEF CountInv
<1>7. CASE LabelLeft \/ KeepOrder \/ StartGather \/ RefuseLength \/ Gather \/ RefusePosition
    BY <1>7 DEF LabelLeft, KeepOrder, StartGather, RefuseLength, Gather, RefusePosition, Turn,
        Refuse, CountInv
<1>8. CASE StartMask \/ MaskRight \/ Return
    BY <1>8 DEF StartMask, MaskRight, Return, Turn, CountInv
<1>9. CASE UNCHANGED vars
    BY <1>9 DEF CountInv, BegunAt
<1> QED
    BY <1>1, <1>2, <1>3, <1>4, <1>5, <1>6, <1>7, <1>8, <1>9 DEF Next

LEMMA LabelInit == Init => LabelInv
    BY DEF Init, LabelInv

\* Left labels change where they are read off, and nowhere else.
LEMMA LabelNext == SearchInv /\ CountInv /\ LabelInv /\ [Next]_vars => LabelInv'
<1> SUFFICES ASSUME SearchInv, CountInv, LabelInv, [Next]_vars PROVE LabelInv'
    OBVIOUS
<1>0. /\ LeftLen \in Nat /\ RightLen \in Nat /\ cursor \in Nat
      /\ \A i \in Left : i \in Int /\ 0 <= i /\ i < LeftLen
      /\ boundaries \in Boundaries /\ \A i \in Left : boundaries[i] \in 0 .. RightLen
    BY LengthsAssumption DEF SearchInv, Left, Boundaries
<1>1. CASE SkipFiltered \/ SearchBoundary \/ ReturnNone \/ StartEvents \/ AddEvent
            \/ StartAccumulation \/ Accumulate
    BY <1>1 DEF SkipFiltered, SearchBoundary, ReturnNone, StartEvents, AddEvent,
        StartAccumulation, Accumulate, Turn, LabelInv
<1>2. CASE StartLabels
    <2>1. /\ pc' = "label" /\ cursor' = 0 /\ left_region' = [i \in Left |-> 0]
          /\ boundaries' = boundaries
        BY <1>2 DEF StartLabels, Turn, LabelInv
    <2>2. \A i \in Left : ~(i < 0)
        BY <1>0
    <2> QED
        BY <2>1, <2>2 DEF LabelInv
<1>3. CASE LabelLeft
    <2>1. /\ pc = "label" /\ pc' = "label" /\ cursor' = cursor + 1 /\ cursor \in Left
          /\ boundaries' = boundaries
          /\ left_region' = IF successful[cursor]
                            THEN [left_region EXCEPT ![cursor] = right_region[boundaries[cursor]]]
                            ELSE left_region
        BY <1>0, <1>3 DEF LabelLeft, Left
    <2>2. /\ left_region = [i \in Left |-> IF i < cursor THEN LeftLabels(boundaries)[i] ELSE 0]
          /\ right_region = RightLabels(boundaries)
        BY <2>1 DEF LabelInv, CountInv
    <2>3. successful[cursor] = (boundaries[cursor] < RightLen)
        BY <2>1, Zenon DEF SearchInv
    <2>4. boundaries[cursor] < RightLen <=> boundaries[cursor] # RightLen
        BY <1>0, <2>1
    <2>5. left_region' = [left_region EXCEPT ![cursor] = LeftLabels(boundaries)[cursor]]
        <3>1. CASE boundaries[cursor] # RightLen
            <4>1. boundaries[cursor] \in Right
                BY <1>0, <2>1, <3>1 DEF Right
            <4>2. right_region[boundaries[cursor]] = LeftLabels(boundaries)[cursor]
                BY <2>1, <2>2, <3>1, <4>1, Zenon DEF RightLabels, LeftLabels
            <4> QED
                BY <2>1, <2>3, <2>4, <3>1, <4>2, Zenon
        <3>2. CASE boundaries[cursor] = RightLen
            <4>1. LeftLabels(boundaries)[cursor] = 0 /\ left_region[cursor] = 0
                BY <1>0, <2>1, <2>2, <3>2 DEF LeftLabels
            <4>2. left_region' = left_region
                BY <2>1, <2>3, <2>4, <3>2, Zenon
            <4> QED
                BY <2>1, <2>2, <4>1, <4>2
        <3> QED
            BY <3>1, <3>2
    <2>6. \A i \in Left : i < cursor + 1 <=> i < cursor \/ i = cursor
        BY <1>0
    <2>7. \A i \in Left : left_region'[i] = IF i < cursor + 1 THEN LeftLabels(boundaries)[i] ELSE 0
        BY <2>1, <2>2, <2>5, <2>6
    <2>8. left_region' = [i \in Left |-> left_region'[i]]
        BY <2>2, <2>5
    <2> QED
        BY <2>1, <2>7, <2>8 DEF LabelInv
<1>4. CASE KeepOrder \/ StartGather
    <2>1. /\ pc = "label" /\ cursor = LeftLen /\ pc' \in {"mask", "gather"}
          /\ boundaries' = boundaries /\ left_region' = left_region
        BY <1>4 DEF KeepOrder, StartGather, Turn
    <2>2. \A i \in Left : left_region[i] = LeftLabels(boundaries)[i]
        BY <1>0, <2>1 DEF LabelInv
    <2>3. left_region = [i \in Left |-> left_region[i]] /\ LeftLabels(boundaries) = [i \in Left |-> LeftLabels(boundaries)[i]]
        BY <2>1 DEF LabelInv, LeftLabels
    <2> QED
        BY <2>1, <2>2, <2>3 DEF LabelInv
<1>5. CASE RefuseLength \/ Gather \/ RefusePosition \/ StartMask \/ MaskRight \/ Return
    BY <1>5 DEF RefuseLength, Gather, RefusePosition, StartMask, MaskRight, Return, Turn,
        Refuse, LabelInv
<1>6. CASE UNCHANGED vars
    BY <1>6 DEF LabelInv
<1> QED
    BY <1>1, <1>2, <1>3, <1>4, <1>5, <1>6 DEF Next

LEMMA GatherInit == Init => GatherInv
    BY DEF Init, GatherInv

\* What is gathered up to the cursor names as many different positions.
LEMMA GatherNext == SearchInv /\ CountInv /\ GatherInv /\ [Next]_vars => GatherInv'
<1> SUFFICES ASSUME SearchInv, CountInv, GatherInv, [Next]_vars PROVE GatherInv'
    OBVIOUS
<1>0. /\ LeftLen \in Nat /\ RightLen \in Nat /\ cursor \in Nat /\ boundaries \in Boundaries
      /\ \A j \in Right : j \in Int /\ 0 <= j /\ j < RightLen
    BY LengthsAssumption DEF SearchInv, Right
<1>1. CASE SkipFiltered \/ SearchBoundary \/ ReturnNone \/ StartEvents \/ AddEvent
            \/ StartAccumulation \/ Accumulate \/ StartLabels \/ LabelLeft
    BY <1>1 DEF SkipFiltered, SearchBoundary, ReturnNone, StartEvents, AddEvent,
        StartAccumulation, Accumulate, StartLabels, LabelLeft, Turn, GatherInv
<1>2. CASE KeepOrder \/ RefuseLength \/ RefusePosition \/ StartMask \/ MaskRight \/ Return
    BY <1>2 DEF KeepOrder, RefuseLength, RefusePosition, StartMask, MaskRight, Return, Turn,
        Refuse, GatherInv
<1>3. CASE StartGather
    <2>1. /\ pc = "label" /\ pc' = "gather" /\ cursor' = 0 /\ call' = call
          /\ seen' = seen /\ realigned' = realigned
          /\ call.alignment # None /\ DOMAIN call.alignment = Right
        BY <1>3 DEF StartGather, Turn
    <2>2. seen = {} /\ seen \in SUBSET Right /\ realigned \in [Right -> Nat]
        BY <2>1 DEF GatherInv
    <2>3. \A k \in Right : ~(k < 0)
        BY <1>0
    <2>4. {l \in Right : l < cursor'} = {}
        BY <2>1, <2>3
    <2> QED
        BY <2>1, <2>2, <2>3, <2>4 DEF GatherInv
<1>4. CASE Gather
    <2> DEFINE source == call.alignment[cursor]
    <2>1. /\ pc = "gather" /\ pc' = "gather" /\ cursor' = cursor + 1 /\ call' = call
          /\ cursor \in Right /\ boundaries' = boundaries
          /\ seen' = seen \union {source}
          /\ realigned' = [realigned EXCEPT ![cursor] = right_region[source]]
          /\ ~OutOfBounds(source) /\ source \notin seen
        BY <1>0, <1>4 DEF Gather, Gathered, Repeated, Right
    <2>2. source \in Int
        BY <2>1, CallsAssumption DEF SearchInv, IsCall, GatherInv
    <2>3. source \in Right
        BY <1>0, <2>1, <2>2 DEF OutOfBounds, Right
    <2>4. right_region = RightLabels(boundaries) /\ right_region \in [Right -> Nat]
        BY <1>0, <2>1, LabelTypes DEF CountInv
    <2>5. /\ call.alignment # None /\ DOMAIN call.alignment = Right
          /\ seen = {call.alignment[k] : k \in {l \in Right : l < cursor}}
          /\ seen \in SUBSET Right /\ realigned \in [Right -> Nat]
          /\ \A k, l \in Right :
              k < cursor /\ l < cursor /\ call.alignment[k] = call.alignment[l] => k = l
          /\ \A k \in Right :
              k < cursor => realigned[k] = RightLabels(boundaries)[call.alignment[k]]
        BY <2>1 DEF GatherInv
    <2>6. \A k \in Right : k < cursor + 1 <=> k < cursor \/ k = cursor
        BY <1>0
    <2>7. \A k \in Right : k < cursor => call.alignment[k] # source
        BY <2>1, <2>5
    <2>8. seen' = {call.alignment[k] : k \in {l \in Right : l < cursor + 1}}
        <3>1. \A x : x \in seen <=> \E k \in Right : k < cursor /\ x = call.alignment[k]
            BY <2>5
        <3>2. \A x : x \in seen' <=> x \in seen \/ x = source
            BY <2>1, Zenon
        <3>3. cursor \in Right
            BY <2>1
        <3>4. \A x : x \in seen' <=> \E k \in Right : k < cursor + 1 /\ x = call.alignment[k]
            BY <2>6, <3>1, <3>2, <3>3, Zenon
        <3> HIDE DEF source
        <3> QED
            BY <3>4
    <2>9. \A k, l \in Right :
              k < cursor + 1 /\ l < cursor + 1 /\ call.alignment[k] = call.alignment[l] => k = l
        BY <2>5, <2>6, <2>7, Zenon
    <2>10. \A k \in Right :
              k < cursor + 1 => realigned'[k] = RightLabels(boundaries)[call.alignment[k]]
        BY <2>1, <2>4, <2>5, <2>6
    <2>11. seen' \in SUBSET Right /\ realigned' \in [Right -> Nat]
        BY <2>1, <2>3, <2>4, <2>5
    <2>12. /\ call'.alignment = call.alignment /\ cursor' = cursor + 1
           /\ RightLabels(boundaries)' = RightLabels(boundaries) /\ pc' = "gather"
        BY <2>1
    <2> HIDE DEF source
    <2> QED
        BY <2>5, <2>8, <2>9, <2>10, <2>11, <2>12 DEF GatherInv
<1>5. CASE UNCHANGED vars
    BY <1>5 DEF GatherInv
<1> QED
    BY <1>1, <1>2, <1>3, <1>4, <1>5 DEF Next

LEMMA MaskInit == Init => MaskInv
    BY DEF Init, MaskInv

\* An alignment reaches the mask only as a permutation, and the call is refused
\* only for one that is not.
LEMMA MaskNext ==
    TypeOK /\ SearchInv /\ CountInv /\ GatherInv /\ MaskInv /\ [Next]_vars => MaskInv'
<1> SUFFICES ASSUME TypeOK, SearchInv, CountInv, GatherInv, MaskInv, [Next]_vars
             PROVE  MaskInv'
    OBVIOUS
<1>0. /\ LeftLen \in Nat /\ RightLen \in Nat /\ cursor \in Nat /\ boundaries \in Boundaries
      /\ \A j \in Right : j \in Int /\ 0 <= j /\ j < RightLen
    BY LengthsAssumption DEF SearchInv, Right
<1>1. CASE SkipFiltered \/ SearchBoundary \/ ReturnNone \/ StartEvents \/ AddEvent
            \/ StartAccumulation \/ Accumulate \/ StartLabels \/ LabelLeft \/ StartGather \/ Gather
    BY <1>1 DEF SkipFiltered, SearchBoundary, ReturnNone, StartEvents, AddEvent,
        StartAccumulation, Accumulate, StartLabels, LabelLeft, StartGather, Gather, Turn, MaskInv
<1>2. CASE RefuseLength
    BY <1>2 DEF RefuseLength, Refuse, MaskInv, IsPermutation
<1>3. CASE RefusePosition
    <2> DEFINE source == call.alignment[cursor]
    <2>1. /\ pc = "gather" /\ pc' = "error" /\ call' = call /\ cursor \in Right
          /\ OutOfBounds(source) \/ source \in seen
        BY <1>0, <1>3 DEF RefusePosition, Refuse, Repeated, Right
    <2>2. call.alignment # None
        BY <2>1 DEF GatherInv
    <2>3. SUFFICES ASSUME IsPermutation(call.alignment) PROVE FALSE
        BY <2>1, <2>2 DEF MaskInv
    <2>4. source \in Right
        BY <2>1, <2>3 DEF IsPermutation, Permutations
    <2>5. ~OutOfBounds(source)
        BY <1>0, <2>4 DEF OutOfBounds
    <2>6. \E k \in Right : k < cursor /\ call.alignment[k] = source
        BY <2>1, <2>5 DEF GatherInv
    <2>7. \E k \in Right : k < cursor /\ k = cursor
        BY <2>1, <2>3, <2>6 DEF IsPermutation, Permutations
    <2> QED
        BY <1>0, <2>7
<1>4. CASE KeepOrder
    <2>1. /\ pc' = "mask" /\ cursor' = 0 /\ call' = call /\ boundaries' = boundaries
          /\ right_region' = RightLabels(boundaries) /\ call.alignment = None
        BY <1>4 DEF KeepOrder, Turn, CountInv
    <2>2. \A j \in Right : ~(j < 0)
        BY <1>0
    <2> QED
        BY <2>1, <2>2 DEF MaskInv, SourceOf
<1>5. CASE StartMask
    <2>1. /\ pc = "gather" /\ cursor = RightLen /\ pc' = "mask" /\ cursor' = 0 /\ call' = call
          /\ boundaries' = boundaries /\ right_region' = realigned
        BY <1>5 DEF StartMask, Turn
    <2>2. /\ call.alignment # None /\ DOMAIN call.alignment = Right
          /\ seen = {call.alignment[k] : k \in {l \in Right : l < cursor}}
          /\ seen \in SUBSET Right
          /\ \A k, l \in Right :
              k < cursor /\ l < cursor /\ call.alignment[k] = call.alignment[l] => k = l
          /\ \A k \in Right :
              k < cursor => realigned[k] = RightLabels(boundaries)[call.alignment[k]]
        BY <2>1 DEF GatherInv
    <2>3. \A k \in Right : k < cursor
        BY <1>0, <2>1
    <2>4. call.alignment = [k \in Right |-> call.alignment[k]]
        BY <2>2, CallsAssumption DEF SearchInv, IsCall
    <2>5. \A k \in Right : call.alignment[k] \in Right
        BY <2>2, <2>3
    <2>6. IsPermutation(call.alignment)
        BY <2>2, <2>3, <2>4, <2>5 DEF IsPermutation, Permutations
    <2>7. \A j \in Right : ~(j < 0)
        BY <1>0
    <2>8. \A j \in Right : realigned[j] = RightLabels(boundaries)[SourceOf(j)]
        BY <2>2, <2>3 DEF SourceOf
    <2> QED
        BY <2>1, <2>6, <2>7, <2>8 DEF MaskInv, SourceOf
<1>6. CASE MaskRight
    <2>1. /\ pc = "mask" /\ pc' = "mask" /\ cursor' = cursor + 1 /\ call' = call /\ cursor \in Right
          /\ boundaries' = boundaries /\ call.mask # None
          /\ right_region' = IF call.mask[cursor] = 0 THEN [right_region EXCEPT ![cursor] = 0]
                             ELSE right_region
        BY <1>0, <1>6 DEF MaskRight, Right
    <2>2. \A j \in Right :
            right_region[j] = IF Cleared(j) /\ j < cursor THEN 0
                              ELSE RightLabels(boundaries)[SourceOf(j)]
        BY <2>1 DEF MaskInv
    <2>3. \A j \in Right : j < cursor + 1 <=> j < cursor \/ j = cursor
        BY <1>0
    <2>4. \A j \in Right : right_region'[j] = IF j = cursor /\ Cleared(cursor) THEN 0
                                               ELSE right_region[j]
        BY <2>1 DEF Cleared, TypeOK
    <2>5. \A j \in Right :
            right_region'[j] = IF Cleared(j) /\ j < cursor + 1 THEN 0
                               ELSE RightLabels(boundaries)[SourceOf(j)]
        BY <2>1, <2>2, <2>3, <2>4
    <2>6. \A j \in Right : Cleared(j)' = Cleared(j) /\ SourceOf(j)' = SourceOf(j)
        BY <2>1 DEF Cleared, SourceOf
    <2>7. call'.alignment # None => IsPermutation(call'.alignment)
        BY <2>1 DEF MaskInv
    <2> QED
        BY <2>1, <2>5, <2>6, <2>7 DEF MaskInv
<1>7. CASE Return
    <2>1. /\ pc = "mask" /\ pc' = "done" /\ call' = call /\ boundaries' = boundaries
          /\ right_region' = right_region /\ (call.mask = None \/ cursor = RightLen)
        BY <1>7 DEF Return
    <2>2. \A j \in Right : Cleared(j) => j < cursor
        BY <1>0, <2>1 DEF Cleared
    <2>3. \A j \in Right : Cleared(j)' = Cleared(j) /\ SourceOf(j)' = SourceOf(j)
        BY <2>1 DEF Cleared, SourceOf
    <2>4. \A j \in Right :
            right_region[j] = IF Cleared(j) THEN 0 ELSE RightLabels(boundaries)[SourceOf(j)]
        BY <2>1, <2>2 DEF MaskInv
    <2>5. call'.alignment # None => IsPermutation(call'.alignment)
        BY <2>1 DEF MaskInv
    <2> QED
        BY <2>1, <2>3, <2>4, <2>5 DEF MaskInv
<1>8. CASE ReturnNone
    BY <1>8 DEF ReturnNone, MaskInv
<1>9. CASE UNCHANGED vars
    BY <1>9 DEF MaskInv, Cleared, SourceOf
<1> QED
    BY <1>1, <1>2, <1>3, <1>4, <1>5, <1>6, <1>7, <1>8, <1>9 DEF Next

LEMMA TypeInit == Init => TypeOK
    BY SearchInit, LengthsAssumption DEF Init, TypeOK, SearchInv

LEMMA TypeNext ==
    ASSUME TypeOK, SearchInv, CountInv, LabelInv, GatherInv,
           SearchInv', CountInv', LabelInv', GatherInv', [Next]_vars
    PROVE  TypeOK'
<1>1. /\ call' \in Calls /\ cursor' \in Nat /\ boundaries' \in Boundaries
      /\ boundaries \in Boundaries
      /\ successful' = [i \in Left |-> boundaries'[i] < RightLen]
      /\ seen' \in SUBSET Right /\ realigned' \in [Right -> Nat]
    BY DEF SearchInv, GatherInv
<1>2. successful' \in [Left -> BOOLEAN]
    <2>1. \A i \in Left : (boundaries'[i] < RightLen) \in BOOLEAN
        BY <1>1, LengthsAssumption DEF Boundaries
    <2> QED
        BY <1>1, <2>1, Zenon
<1>3. /\ RightLabels(boundaries) \in [Right -> Nat] /\ LeftLabels(boundaries) \in [Left -> Nat]
      /\ RightLabels(boundaries') \in [Right -> Nat] /\ LeftLabels(boundaries') \in [Left -> Nat]
    BY <1>1, LabelTypes
<1>4. /\ \A j : Cardinality(Begun(boundaries', j)) \in Nat
      /\ \A k, j : Cardinality({i \in Left : i < k /\ boundaries'[i] = j}) \in Nat
    BY LeftFinite DEF Begun
<1>5. pc' \in {"search", "events", "accumulate", "label", "gather", "mask", "done", "none", "error"}
    BY DEF TypeOK, Next, SkipFiltered, SearchBoundary, ReturnNone, StartEvents, AddEvent,
        StartAccumulation, Accumulate, StartLabels, LabelLeft, KeepOrder, StartGather,
        RefuseLength, Gather, RefusePosition, StartMask, MaskRight, Return, Turn, Refuse
<1>6. left_region' \in [Left -> Nat]
    <2>1. CASE LabelLeft
        <3>1. pc' = "label"
            BY <2>1 DEF LabelLeft
        <3>2. left_region' = [i \in Left |-> IF i < cursor' THEN LeftLabels(boundaries')[i] ELSE 0]
            BY <3>1 DEF LabelInv
        <3> QED
            BY <1>3, <3>2
    <2>2. CASE ~LabelLeft
        BY <2>2 DEF TypeOK, Next, SkipFiltered, SearchBoundary, ReturnNone, StartEvents, AddEvent,
            StartAccumulation, Accumulate, StartLabels, KeepOrder, StartGather,
            RefuseLength, Gather, RefusePosition, StartMask, MaskRight, Return, Turn, Refuse
    <2> QED
        BY <2>1, <2>2
<1>7. right_region' \in [Right -> Nat]
    <2>1. CASE AddEvent
        <3>1. pc' = "events"
            BY <2>1 DEF AddEvent
        <3>2. right_region' = [j \in Right |-> Cardinality(BegunAt(cursor, j)')]
            BY <3>1 DEF CountInv
        <3>3. \A j : Cardinality(BegunAt(cursor, j)') \in Nat
            BY <1>4 DEF BegunAt
        <3> QED
            BY <3>2, <3>3
    <2>2. CASE Accumulate
        <3>1. pc' = "accumulate"
            BY <2>2 DEF Accumulate
        <3>2. right_region' = [j \in Right |-> IF j < cursor' THEN Cardinality(Begun(boundaries', j))
                                               ELSE Cardinality(BegunAt(LeftLen, j)')]
            BY <3>1 DEF CountInv
        <3>3. \A j : Cardinality(BegunAt(LeftLen, j)') \in Nat
            BY <1>4 DEF BegunAt
        <3> QED
            BY <1>4, <3>2, <3>3
    <2>3. CASE StartMask
        BY <2>3 DEF TypeOK, StartMask
    <2>4. CASE MaskRight
        BY <2>4 DEF TypeOK, MaskRight
    <2>5. CASE ~(AddEvent \/ Accumulate \/ StartMask \/ MaskRight)
        BY <2>5 DEF TypeOK, Next, SkipFiltered, SearchBoundary, ReturnNone, StartEvents,
            StartAccumulation, StartLabels, LabelLeft, KeepOrder, StartGather,
            RefuseLength, Gather, RefusePosition, Return, Turn, Refuse
    <2> QED
        BY <2>1, <2>2, <2>3, <2>4, <2>5
<1> QED
    BY <1>1, <1>2, <1>5, <1>6, <1>7 DEF TypeOK

-----------------------------------------------------------------------------

LEMMA LabelsInvInit == Init => LabelsInv
    BY SearchInit, CountInit, LabelInit, GatherInit, TypeInit, MaskInit DEF LabelsInv

LEMMA LabelsInvNext == LabelsInv /\ [Next]_vars => LabelsInv'
<1> SUFFICES ASSUME LabelsInv, [Next]_vars PROVE LabelsInv'
    OBVIOUS
<1>1. SearchInv' /\ CountInv' /\ LabelInv' /\ GatherInv' /\ MaskInv'
    BY SearchNext, CountNext, LabelNext, GatherNext, MaskNext DEF LabelsInv
<1> QED
    BY <1>1, TypeNext DEF LabelsInv

\* The loops keep to their arrays, and each has done what it should up to its
\* cursor (regions.rs, build_region_paths and what it calls).
THEOREM LabelsInvariant == Spec => []LabelsInv
    BY LabelsInvInit, LabelsInvNext, PTL DEF Spec

\* One event per window and a running sum make the label of a right row the
\* number of windows begun by it, and of a left row the number begun by its own.
THEOREM LabelsAreCountsTheorem == Spec => []LabelsAreCounts
<1>1. LabelsInv => LabelsAreCounts
    <2> SUFFICES ASSUME LabelsInv, pc \in {"label", "gather"}, cursor = LeftLen
                 PROVE  /\ right_region = RightLabels(boundaries)
                        /\ pc = "label" => left_region = LeftLabels(boundaries)
        BY DEF LabelsAreCounts
    <2>1. right_region = RightLabels(boundaries)
        BY DEF LabelsInv, CountInv
    <2>2. ASSUME pc = "label" PROVE left_region = LeftLabels(boundaries)
        <3>1. \A i \in Left : i < cursor
            BY LengthsAssumption DEF Left
        <3>2. left_region = [i \in Left |-> LeftLabels(boundaries)[i]]
            BY <2>2, <3>1 DEF LabelsInv, LabelInv
        <3>3. LeftLabels(boundaries) = [i \in Left |-> LeftLabels(boundaries)[i]]
            BY DEF LeftLabels
        <3> QED
            BY <3>2, <3>3
    <2> QED
        BY <2>1, <2>2
<1> QED
    BY <1>1, LabelsInvariant, PTL

\* No alignment that repeats, skips or leaves the column orders a result, and
\* no permutation is refused (realign_right_region).
THEOREM AlignmentIsCheckedTheorem == Spec => []AlignmentIsChecked
<1>1. LabelsInv => AlignmentIsChecked
    BY DEF LabelsInv, MaskInv, AlignmentIsChecked
<1> QED
    BY <1>1, LabelsInvariant, PTL

\* The paths returned decide the predicate for every pair in play, and None is
\* returned only if no pair satisfies it: what every region kernel rests on.
THEOREM LabelsDecidePredicateTheorem == Spec => []LabelsDecidePredicate
<1>1. LabelsInv => LabelsDecidePredicate
    <2> SUFFICES ASSUME LabelsInv PROVE LabelsDecidePredicate
        OBVIOUS
    <2>1. /\ call \in Calls /\ boundaries \in Boundaries /\ RightLen \in Nat
          /\ \A j \in Right : j \in Int /\ j < RightLen
        BY LengthsAssumption DEF LabelsInv, SearchInv, Right
    <2>2. ASSUME pc = "done", NEW i \in Left, NEW j \in Right
          PROVE  left_region[i] # 0 /\ left_region[i] <= right_region[j] <=> Satisfies(i, j)
        <3> DEFINE s == SourceOf(j)
        <3>1. s \in Right
            BY <2>2 DEF LabelsInv, MaskInv, SourceOf, IsPermutation, Permutations
        <3>2. /\ left_region[i] = LeftLabels(boundaries)[i] /\ left_region[i] \in Nat
              /\ right_region[j] = IF Cleared(j) THEN 0 ELSE RightLabels(boundaries)[s]
            BY <2>2 DEF LabelsInv, LabelInv, MaskInv, TypeOK
        <3> HIDE DEF s
        <3>3. LeftLabels(boundaries)[i] # 0 /\ LeftLabels(boundaries)[i] <= RightLabels(boundaries)[s]
                <=> boundaries[i] <= s
            BY <2>1, <3>1, LabelsDecideWindow
        <3>4. boundaries[i] <= s
                <=> Filtered(i) /\ Apply(call.op, call.left[i], call.right[s])
            <4>1. boundaries[i] = Expected(i)
                BY <2>2 DEF LabelsInv, SearchInv
            <4> QED
                BY <2>1, <3>1, <4>1, ExpectedIsExact
        <3>5. Cleared(j) <=> ~Unmasked(j)
            BY DEF Cleared, Unmasked
        <3>6. Satisfies(i, j) <=>
                Filtered(i) /\ Unmasked(j) /\ Apply(call.op, call.left[i], call.right[s])
            BY DEF Satisfies, s
        <3>7. CASE Cleared(j)
            BY <3>2, <3>5, <3>6, <3>7
        <3>8. CASE ~Cleared(j)
            BY <3>2, <3>3, <3>4, <3>5, <3>6, <3>8
        <3> QED
            BY <3>7, <3>8
    <2>3. ASSUME pc = "none", NEW i \in Left, NEW j \in Right
          PROVE  ~(Filtered(i) /\ Apply(call.op, call.left[i], call.right[j]))
        <3>1. boundaries[i] = Expected(i)
            BY <2>3 DEF LabelsInv, SearchInv
        <3>2. ~(boundaries[i] < RightLen)
            <4>1. successful[i] = (boundaries[i] < RightLen) /\ ~successful[i]
                BY <2>3, Zenon DEF LabelsInv, SearchInv
            <4> QED
                BY <4>1, Zenon
        <3>3. boundaries[i] \in 0 .. RightLen
            BY <2>1 DEF Boundaries
        <3>4. ~(Expected(i) <= j)
            BY <2>1, <3>1, <3>2, <3>3
        <3> QED
            BY <2>1, <3>4, ExpectedIsExact
    <2> QED
        BY <2>2, <2>3 DEF LabelsDecidePredicate
<1> QED
    BY <1>1, LabelsInvariant, PTL
=============================================================================
