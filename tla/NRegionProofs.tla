--------------------------- MODULE NRegionProofs ---------------------------
(***************************************************************************)
(* The join over three or more predicates, for every number of them, every *)
(* size and every call, in five parts.                                     *)
(*                                                                         *)
(* Labels and paths: domination by labels is a match of all range          *)
(* predicates, although rows that miss one label lose them all, and the    *)
(* window starts that were searched before the mask are still those of the *)
(* masked labels (PathInv).                                                *)
(*                                                                         *)
(* Visits: starts only move left (SweepInv), and what a visit has handed   *)
(* over, whichever generator runs, are the matches of the rows it has      *)
(* passed (Seen, CandidateInv): the maxima cover what is open, so a row    *)
(* without a chance has no candidate.                                      *)
(*                                                                         *)
(* Passes: counts, choices and outputs are functions of what has been seen *)
(* (CountInv, SelectInv, OutInv), so two passes agree.                     *)
(*                                                                         *)
(* The plan: the running total counts the pairs of the rows passed         *)
(* (PlanInv).                                                              *)
(*                                                                         *)
(* The join implements RangeJoin: when a pass has ended, everything has    *)
(* been seen.                                                              *)
(***************************************************************************)
EXTENDS NRegion, RegionPathsProofs

\* The labels before and after the masks, as functions of the call.
LeftOf(d, i)  == LeftLabels(call.windows[d])[i]
RightOf(d, j) == RightLabels(call.windows[d])[Aligned(d, j)]

LeftInPlay(i)  == \A d \in Axes : LeftOf(d, i) # 0
RightInPlay(j) == \A d \in Axes : RightOf(d, j) # 0

Unordered == left = [d \in Axes |-> LeftLabels(call.windows[d])]

Unmatched == right = [d \in Axes |-> [j \in Right |-> RightOf(d, j)]]

Ordered ==
    /\ left_order \in Permutations(Left)
    /\ left = [d \in Axes |-> [i \in Left |->
                IF LeftInPlay(left_order[i]) THEN LeftOf(d, left_order[i]) ELSE 0]]
    /\ \A i, k \in Left : i < k => left[1][i] >= left[1][k]

Started ==
    /\ starts \in Boundaries
    /\ \A i \in Left : left[1][i] = 0 => starts[i] = RightLen
    /\ \A i \in Left : left[1][i] # 0 =>
        \A j \in Right : starts[i] <= j <=> InWindow(1, left_order[i], j)
    /\ \A i, k \in Left : i < k /\ starts[k] < RightLen => starts[k] <= starts[i]

Masked ==
    right = [d \in Axes |-> [j \in Right |-> IF RightInPlay(j) THEN RightOf(d, j) ELSE 0]]

Passing == Passes \union {"probe", "plan", "tree", "open", "output"}

PathInv ==
    /\ call \in Calls
    /\ pc \in {"paths", "left", "starts", "right"} \union Passing => WellFormed
    /\ pc = "left" => Unordered
    /\ pc \in {"left", "starts", "right"} => Unmatched
    /\ pc \in {"starts", "right"} \union Passing => Ordered
    /\ pc \in {"right"} \union Passing => Started
    /\ pc \in Passing => Masked

-----------------------------------------------------------------------------
\* Labels.

LEMMA CallFields ==
    ASSUME call \in Calls
    PROVE  /\ call.windows \in Seq(Boundaries)
           /\ call.keep \in Keeps /\ call.entry \in Entries
           /\ Aggregating => call.keep = "all"
           /\ call.right_index \in [Right -> Int]
           /\ call.limit \in Nat
           /\ DOMAIN call.aligners = 1 .. Len(call.aligners)
           /\ \A n \in DOMAIN call.aligners :
                call.aligners[n] \in Permutations(DOMAIN call.aligners[n])
<1> QED
    BY NRegionAssumption DEF Call, Aggregating

LEMMA AxesFacts ==
    ASSUME call \in Calls, WellFormed
    PROVE  /\ {1, 2, 3} \subseteq Axes
           /\ \A d \in Axes : call.windows[d] \in Boundaries
           /\ \A d \in Axes, j \in Right : Aligned(d, j) \in Right
<1>1. /\ call.windows \in Seq(Boundaries)
      /\ Len(call.windows) >= 3
    BY CallFields DEF WellFormed
<1>2. Axes = 1 .. Len(call.windows) /\ Len(call.windows) \in Nat
    BY <1>1 DEF Axes
<1>3. \A d \in Axes : call.windows[d] \in Boundaries
    BY <1>1 DEF Axes
<1>4. {1, 2, 3} \subseteq Axes
    BY <1>1, <1>2
<1>5. ASSUME NEW d \in Axes, NEW j \in Right, d # 1 PROVE Aligned(d, j) \in Right
    <2>1. d - 1 \in DOMAIN call.aligners
        BY <1>2, <1>5, CallFields DEF WellFormed
    <2> QED
        BY <1>5, <2>1, CallFields DEF Aligned, WellFormed, Permutations
<1> QED
    BY <1>3, <1>4, <1>5 DEF Aligned

\* One comparison of labels decides a window, in every dimension.
LEMMA LabelFacts ==
    ASSUME call \in Calls, WellFormed
    PROVE  /\ \A d \in Axes, i \in Left : LeftOf(d, i) \in Nat
           /\ \A d \in Axes, j \in Right : RightOf(d, j) \in Nat
           /\ \A d \in Axes, i \in Left : LeftOf(d, i) = 0 <=> call.windows[d][i] = RightLen
           /\ \A d \in Axes, i \in Left, j \in Right :
                InWindow(d, i, j) <=> LeftOf(d, i) # 0 /\ LeftOf(d, i) <= RightOf(d, j)
           /\ \A j, k \in Right : j <= k => RightOf(1, j) <= RightOf(1, k)
<1>1. /\ 1 \in Axes
      /\ \A d \in Axes : call.windows[d] \in Boundaries
      /\ \A d \in Axes, j \in Right : Aligned(d, j) \in Right
    BY AxesFacts
<1>2. \A d \in Axes, i \in Left :
        LeftOf(d, i) \in Nat /\ (LeftOf(d, i) = 0 <=> call.windows[d][i] = RightLen)
    BY <1>1, LabelTypes DEF LeftOf
<1>3. \A d \in Axes, j \in Right : RightOf(d, j) \in Nat
    BY <1>1, LabelTypes DEF RightOf
<1>4. \A d \in Axes, i \in Left, j \in Right :
        InWindow(d, i, j) <=> LeftOf(d, i) # 0 /\ LeftOf(d, i) <= RightOf(d, j)
    BY <1>1, LabelsDecideWindow DEF InWindow, LeftOf, RightOf
<1>5. \A j, k \in Right : j <= k => RightOf(1, j) <= RightOf(1, k)
    BY <1>1, FirstLabelsAscend DEF RightOf, Aligned
<1> QED
    BY <1>2, <1>3, <1>4, <1>5

\* What the ordered and masked labels are.
LEMMA LeftLabelFacts ==
    ASSUME call \in Calls, WellFormed, Ordered
    PROVE  /\ \A i \in Left : left_order[i] \in Left
           /\ \A d \in Axes, i \in Left :
                left[d][i] = IF LeftInPlay(left_order[i]) THEN LeftOf(d, left_order[i]) ELSE 0
           /\ \A d \in Axes, i \in Left :
                left[d][i] \in Nat /\ (left[d][i] = 0 <=> ~LeftInPlay(left_order[i]))
<1>1. \A i \in Left : left_order[i] \in Left
    BY DEF Ordered, Permutations
<1>2. \A d \in Axes, i \in Left :
        left[d][i] = IF LeftInPlay(left_order[i]) THEN LeftOf(d, left_order[i]) ELSE 0
    BY DEF Ordered
<1>3. \A d \in Axes, i \in Left : LeftOf(d, left_order[i]) \in Nat
    BY <1>1, LabelFacts
<1> QED
    BY <1>1, <1>2, <1>3 DEF LeftInPlay

LEMMA RightLabelFacts ==
    ASSUME call \in Calls, WellFormed, Masked
    PROVE  /\ \A d \in Axes, j \in Right :
                right[d][j] = IF RightInPlay(j) THEN RightOf(d, j) ELSE 0
           /\ \A d \in Axes, j \in Right :
                right[d][j] \in Nat /\ (right[d][j] = 0 <=> ~RightInPlay(j))
<1>1. \A d \in Axes, j \in Right : right[d][j] = IF RightInPlay(j) THEN RightOf(d, j) ELSE 0
    BY DEF Masked
<1>2. \A d \in Axes, j \in Right : RightOf(d, j) \in Nat
    BY LabelFacts
<1> QED
    BY <1>1, <1>2 DEF RightInPlay

\* Domination by masked labels is a match of all range predicates: a label 0
\* dominates nothing, and masking takes no row out that has a match.
LEMMA DominationDecides ==
    ASSUME call \in Calls, WellFormed, Ordered, Masked, NEW i \in Left, NEW j \in Right
    PROVE  left[1][i] # 0 /\ Dominated(i, j) <=>
                \A d \in Axes : InWindow(d, left_order[i], j)
<1>1. 1 \in Axes
    BY AxesFacts
<1>2. ASSUME left[1][i] # 0, Dominated(i, j)
      PROVE  \A d \in Axes : InWindow(d, left_order[i], j)
    <2>1. LeftInPlay(left_order[i])
        BY <1>1, <1>2, LeftLabelFacts
    <2>2. \A d \in Axes :
            left[d][i] = LeftOf(d, left_order[i]) /\ left[d][i] # 0 /\ left[d][i] \in Nat
        BY <2>1, LeftLabelFacts
    <2>3. \A d \in Axes : left[d][i] <= right[d][j] /\ right[d][j] \in Nat
        BY <1>2, RightLabelFacts DEF Dominated
    <2>4. RightInPlay(j)
        BY <1>1, <2>2, <2>3, RightLabelFacts
    <2>5. \A d \in Axes : right[d][j] = RightOf(d, j)
        BY <2>4, RightLabelFacts
    <2> QED
        BY <2>2, <2>3, <2>5, LeftLabelFacts, LabelFacts
<1>3. ASSUME \A d \in Axes : InWindow(d, left_order[i], j)
      PROVE  left[1][i] # 0 /\ Dominated(i, j)
    <2>1. \A d \in Axes :
            /\ LeftOf(d, left_order[i]) # 0
            /\ LeftOf(d, left_order[i]) <= RightOf(d, j)
            /\ LeftOf(d, left_order[i]) \in Nat /\ RightOf(d, j) \in Nat
        BY <1>3, LeftLabelFacts, LabelFacts
    <2>2. LeftInPlay(left_order[i])
        BY <2>1 DEF LeftInPlay
    <2>3. RightInPlay(j)
        BY <2>1 DEF RightInPlay
    <2>4. \A d \in Axes : left[d][i] = LeftOf(d, left_order[i]) /\ right[d][j] = RightOf(d, j)
        BY <2>2, <2>3, LeftLabelFacts, RightLabelFacts
    <2> QED
        BY <1>1, <2>1, <2>4 DEF Dominated
<1> QED
    BY <1>2, <1>3

-----------------------------------------------------------------------------
\* Preparation.

\* Where a row's window starts, while the right labels are still unmasked.
LEMMA StartIsExact ==
    ASSUME call \in Calls, WellFormed, Ordered, Unmatched, NEW i \in Left
    PROVE  /\ StartOf(i) \in 0 .. RightLen
           /\ left[1][i] = 0 => StartOf(i) = RightLen
           /\ left[1][i] # 0 =>
                \A j \in Right : StartOf(i) <= j <=> left[1][i] <= RightOf(1, j)
<1>1. 1 \in Axes /\ left[1][i] \in Nat
    BY AxesFacts, LeftLabelFacts
<1>2. right[1] = [j \in Right |-> RightOf(1, j)]
    BY <1>1 DEF Unmatched
<1>3. /\ right[1] \in [Right -> Nat]
      /\ \A j, k \in Right : j <= k => right[1][j] <= right[1][k]
    BY <1>1, <1>2, LabelFacts
<1> DEFINE P == PartitionPoint(right[1], left[1][i])
<1>4. P \in 0 .. RightLen /\ \A j \in Right : j < P <=> right[1][j] < left[1][i]
    BY <1>1, <1>3, PartitionPointIsExact
<1> HIDE DEF P
<1>5. \A j \in Right : P <= j <=> left[1][i] <= RightOf(1, j)
    BY <1>1, <1>2, <1>3, <1>4, LengthsAssumption DEF Right
<1> QED
    BY <1>4, <1>5, LengthsAssumption DEF StartOf, P

LEMMA StartsAreExact ==
    ASSUME call \in Calls, WellFormed, Ordered, Unmatched
    PROVE  /\ [i \in Left |-> StartOf(i)] \in Boundaries
           /\ \A i \in Left : left[1][i] # 0 =>
                \A j \in Right : StartOf(i) <= j <=> InWindow(1, left_order[i], j)
           /\ \A i, k \in Left :
                i < k /\ StartOf(k) < RightLen => StartOf(k) <= StartOf(i)
<1>1. 1 \in Axes
    BY AxesFacts
<1>2. [i \in Left |-> StartOf(i)] \in Boundaries
    BY StartIsExact DEF Boundaries
<1>3. ASSUME NEW i \in Left, left[1][i] # 0, NEW j \in Right
      PROVE  StartOf(i) <= j <=> InWindow(1, left_order[i], j)
    <2>1. /\ left_order[i] \in Left /\ LeftInPlay(left_order[i])
          /\ left[1][i] = LeftOf(1, left_order[i])
        BY <1>1, <1>3, LeftLabelFacts
    <2> QED
        BY <1>1, <1>3, <2>1, StartIsExact, LabelFacts
<1>4. ASSUME NEW i \in Left, NEW k \in Left, i < k, StartOf(k) < RightLen
      PROVE  StartOf(k) <= StartOf(i)
    <2>1. /\ StartOf(i) \in 0 .. RightLen /\ StartOf(k) \in 0 .. RightLen
          /\ left[1][k] # 0 /\ left[1][k] \in Nat /\ left[1][i] \in Nat
        BY <1>1, <1>4, StartIsExact, LeftLabelFacts, LengthsAssumption
    <2>2. left[1][i] >= left[1][k]
        BY <1>4 DEF Ordered
    <2>3. CASE StartOf(i) = RightLen
        BY <2>1, <2>3, LengthsAssumption
    <2>4. CASE StartOf(i) # RightLen
        <3>1. StartOf(i) \in Right
            BY <2>1, <2>4, LengthsAssumption DEF Right
        <3>2. left[1][i] <= RightOf(1, StartOf(i)) /\ RightOf(1, StartOf(i)) \in Nat
            BY <1>1, <2>1, <2>2, <3>1, StartIsExact, LabelFacts, LengthsAssumption
        <3>3. left[1][k] <= RightOf(1, StartOf(i))
            BY <2>1, <2>2, <3>2
        <3> QED
            BY <2>1, <3>1, <3>3, StartIsExact
    <2> QED
        BY <2>3, <2>4
<1> QED
    BY <1>2, <1>3, <1>4

USE DEF vars, pathVars, planVars, sweepVars, countVars, outVars

Closed == {"none", "done", "error", "refused"}

\* Everything after the preparation.
Later == OpenSet \/ PlanNext \/ VisitNext \/ EndNext

LEMMA LaterKeepsPaths ==
    ASSUME PathInv, Later
    PROVE  UNCHANGED pathVars /\ pc \in Passing /\ pc' \in Passing \union Closed
<1>1. CASE OpenSet
    BY <1>1 DEF OpenSet, Passing, Passes, Closed
<1>2. CASE PlanNext
    BY <1>2 DEF PlanNext, Probe, PlanRow, PlanSweep, PlanTree, Open, Rewind, FirstPass,
                Passing, Passes, Closed
<1>3. CASE VisitNext
    BY <1>3 DEF VisitNext, QueryTree, SkipInactive, SweepRow, Open, Reject, Select, Count,
                Emit, Feed, Passing, Passes, Closed
<1>4. CASE EndNext
    BY <1>4 DEF EndNext, EndSelect, OutputRow, EndOutput, EndCount, EndEmit, EndFeed, Visited,
                Rewind, Passing, Passes, Closed
<1> QED
    BY <1>1, <1>2, <1>3, <1>4 DEF Later

\* The labels, the order and the windows only depend on what a step keeps.
LEMMA CallStays ==
    ASSUME call' = call
    PROVE  /\ Axes' = Axes /\ WellFormed' = WellFormed /\ Aggregating' = Aggregating
           /\ \A d, i : LeftOf(d, i)' = LeftOf(d, i) /\ RightOf(d, i)' = RightOf(d, i)
           /\ \A i : LeftInPlay(i)' = LeftInPlay(i) /\ RightInPlay(i)' = RightInPlay(i)
           /\ \A d, i, j : InWindow(d, i, j)' = InWindow(d, i, j)
<1> QED
    BY DEF Axes, WellFormed, Aggregating, LeftOf, RightOf, LeftInPlay, RightInPlay, InWindow,
           Aligned

LEMMA PathInit == Init => PathInv
<1> QED
    BY DEF Init, PathInv, Passing, Passes

LEMMA PathNext == PathInv /\ [Next]_vars => PathInv'
<1> SUFFICES ASSUME PathInv, [Next]_vars
             PROVE  PathInv'
    OBVIOUS
<1>1. CASE Enter
    BY <1>1 DEF Enter, PathInv, Passing, Passes, WellFormed
<1>2. CASE BuildPaths
    <2>1. call' = call /\ pc' = "left" /\ pc = "paths"
        BY <1>2 DEF BuildPaths
    <2>2. Unordered'
        BY <1>2, <2>1, CallStays DEF BuildPaths, Unordered
    <2>3. Unmatched'
        BY <1>2, <2>1, CallStays DEF BuildPaths, Unmatched, RightOf
    <2> QED
        BY <2>1, <2>2, <2>3, CallStays DEF PathInv, Passing, Passes
<1>3. CASE OrderLeft
    <2>1. /\ call' = call /\ right' = right /\ pc' = "starts" /\ pc = "left"
          /\ call \in Calls /\ WellFormed /\ Unordered /\ Unmatched
        BY <1>3 DEF OrderLeft, PathInv
    <2>2. PICK order \in DescendingOrders(MaskZero(left, Left)[1]) :
            /\ left_order' = order
            /\ left' = [d \in Axes |-> [i \in Left |-> MaskZero(left, Left)[d][order[i]]]]
        BY <1>3 DEF OrderLeft
    <2>3. order \in Permutations(Left) /\ \A i \in Left : order[i] \in Left
        BY DEF DescendingOrders, Permutations
    <2>4. \A d \in Axes, x \in Left :
            MaskZero(left, Left)[d][x] = IF LeftInPlay(x) THEN LeftOf(d, x) ELSE 0
        <3>1. \A d \in Axes, x \in Left : left[d][x] = LeftOf(d, x)
            BY <2>1 DEF Unordered, LeftOf
        <3> QED
            BY <3>1 DEF MaskZero, LeftInPlay
    <2>5. left' = [d \in Axes |-> [i \in Left |->
                    IF LeftInPlay(order[i]) THEN LeftOf(d, order[i]) ELSE 0]]
        BY <2>2, <2>3, <2>4
    <2>6. \A i, k \in Left : i < k => left'[1][i] >= left'[1][k]
        <3>1. 1 \in Axes
            BY <2>1, AxesFacts
        <3>2. \A i \in Left : left'[1][i] = MaskZero(left, Left)[1][order[i]]
            BY <2>2, <3>1
        <3> QED
            BY <3>2 DEF DescendingOrders
    <2>7. Ordered'
        BY <2>1, <2>2, <2>3, <2>5, <2>6, CallStays DEF Ordered
    <2>8. Unmatched'
        BY <2>1, CallStays DEF Unmatched
    <2> QED
        BY <2>1, <2>7, <2>8, CallStays DEF PathInv, Passing, Passes
<1>4. CASE FindStarts
    <2>1. /\ call' = call /\ right' = right /\ left' = left /\ left_order' = left_order
          /\ starts' = [i \in Left |-> StartOf(i)] /\ pc' = "right" /\ pc = "starts"
          /\ call \in Calls /\ WellFormed /\ Ordered /\ Unmatched
        BY <1>4 DEF FindStarts, PathInv
    <2>2. Ordered' /\ Unmatched'
        BY <2>1, CallStays DEF Ordered, Unmatched
    <2>3. \A i \in Left : left[1][i] = 0 => StartOf(i) = RightLen
        BY <2>1, StartIsExact
    <2>4. /\ [i \in Left |-> StartOf(i)] \in Boundaries
          /\ \A i \in Left : left[1][i] # 0 =>
                \A j \in Right : StartOf(i) <= j <=> InWindow(1, left_order[i], j)
          /\ \A i, k \in Left : i < k /\ StartOf(k) < RightLen => StartOf(k) <= StartOf(i)
        BY <2>1, StartsAreExact
    <2>5. Started'
        <3>1. \A i \in Left : starts'[i] = StartOf(i)
            BY <2>1
        <3> HIDE <2>1
        <3>2. starts' \in Boundaries
            BY <2>1, <2>4
        <3>3. left' = left /\ left_order' = left_order /\ call' = call
            BY <2>1
        <3> QED
            BY <2>3, <2>4, <3>1, <3>2, <3>3, CallStays DEF Started
    <2> QED
        BY <2>1, <2>2, <2>5, CallStays DEF PathInv, Passing, Passes
<1>5. CASE MaskRight
    <2>1. /\ call' = call /\ left' = left /\ left_order' = left_order /\ starts' = starts
          /\ right' = MaskZero(right, Right) /\ pc' \in {"probe", "plan"}
          /\ call \in Calls /\ WellFormed /\ Ordered /\ Started /\ Unmatched
        BY <1>5 DEF MaskRight, PathInv
    <2>2. Ordered' /\ Started'
        BY <2>1, CallStays DEF Ordered, Started
    <2>3. Masked'
        <3>1. \A d \in Axes, j \in Right : right[d][j] = RightOf(d, j)
            BY <2>1 DEF Unmatched
        <3>2. \A d \in Axes, j \in Right :
                IF \E e \in Axes : right[e][j] = 0 THEN 0 = 0 /\ ~RightInPlay(j)
                ELSE right[d][j] = RightOf(d, j) /\ RightInPlay(j)
            BY <3>1 DEF RightInPlay
        <3>3. MaskZero(right, Right) = [d \in Axes |-> [j \in Right |->
                IF RightInPlay(j) THEN RightOf(d, j) ELSE 0]]
            BY <3>2 DEF MaskZero
        <3> QED
            BY <2>1, <3>3, CallStays DEF Masked
    <2> QED
        BY <2>1, <2>2, <2>3, CallStays DEF PathInv, Passing, Passes
<1>6. CASE ReturnNone
    BY <1>6 DEF ReturnNone, PathInv, Passing, Passes
<1>7. CASE Later \/ UNCHANGED vars
    <2>1. /\ call' = call /\ left' = left /\ right' = right /\ left_order' = left_order
          /\ starts' = starts
        BY <1>7, LaterKeepsPaths
    <2>2. (pc \in Passing /\ pc' \in Passing \union Closed) \/ pc' = pc
        BY <1>7, LaterKeepsPaths
    <2>3. /\ Ordered => Ordered'
          /\ Started => Started'
          /\ Masked => Masked'
          /\ Unordered => Unordered'
          /\ Unmatched => Unmatched'
        BY <2>1, CallStays DEF Ordered, Started, Masked, Unordered, Unmatched
    <2> QED
        BY <2>1, <2>2, <2>3, CallStays DEF PathInv, Passing, Passes, Closed
<1> QED
    BY <1>1, <1>2, <1>3, <1>4, <1>5, <1>6, <1>7 DEF Next, EntryNext, PathsNext, Later

-----------------------------------------------------------------------------
\* Where a visit stands.

Before == {"enter", "paths", "left", "starts", "right", "probe"}

\* The rows ahead start no further right than what is open.
StartsAhead == \A k \in Left : outer <= k /\ starts[k] < RightLen => starts[k] <= previous_end

\* No label that is open exceeds the maximum of its dimension.
MaximaCover == \A d \in Axes, j \in Right : previous_end <= j => right[d][j] <= maxima[d]

SweepInv ==
    /\ outer \in Nat /\ previous_end \in 0 .. RightLen /\ maxima \in [Axes -> 0 .. LeftLen]
    /\ pc \in Before \union {"open"} => outer = 0 /\ previous_end = RightLen
    /\ pc \in Before \union {"open", "plan", "tree", "output"} => candidates = {}
    /\ pc \in {"plan", "output"} => outer <= LeftLen
    /\ pc \in Passes \union {"plan"} => StartsAhead
    /\ pc \in Passes => MaximaCover

\* Which pass belongs to which call, and to which generator.
PassInv ==
    /\ pc \in Before \union {"plan", "tree"} => generator = None
    /\ pc \in Passes \union {"open", "output"} =>
        /\ generator \in {"sweep", "left", "right"}
        /\ call.keep = "any" => generator # "left"
    /\ pc \in {"select", "output"} => ~Aggregating /\ call.keep # "all"
    /\ pc \in {"count", "emit"} => ~Aggregating /\ call.keep = "all"
    /\ pc \in {"open", "feed"} => Aggregating
    /\ pc = "probe" => call.keep = "any"

LEMMA PassInit == Init => PassInv
<1> QED
    BY DEF Init, PassInv, Before, Passes

\* A visit only touches what it counts, chooses or puts out.
LEMMA VisitKeeps ==
    ASSUME VisitNext
    PROVE  /\ pc \in Passes /\ (pc' = pc \/ pc' = "error")
           /\ UNCHANGED pathVars /\ UNCHANGED planVars
<1>1. CASE QueryTree \/ SkipInactive
    BY <1>1 DEF QueryTree, SkipInactive
<1>2. CASE SweepRow
    BY <1>2 DEF SweepRow, Open
<1>3. CASE Reject \/ Select \/ Count \/ Emit \/ Feed
    BY <1>3 DEF Reject, Select, Count, Emit, Feed, Passes
<1> QED
    BY <1>1, <1>2, <1>3 DEF VisitNext

LEMMA PassNext == PathInv /\ PassInv /\ [Next]_vars => PassInv'
<1> SUFFICES ASSUME PathInv, PassInv, [Next]_vars
             PROVE  PassInv'
    OBVIOUS
<1> USE DEF PassInv, Before, Passes
<1>1. CASE EntryNext
    BY <1>1, CallStays DEF EntryNext, Enter, OpenSet
<1>2. CASE PathsNext
    BY <1>2, CallStays DEF PathsNext, BuildPaths, OrderLeft, FindStarts, MaskRight, ReturnNone
<1>3. CASE Probe \/ PlanRow
    BY <1>3, CallStays, CallFields DEF PathInv, Probe, PlanRow, Open, FirstPass
<1>4. CASE PlanSweep \/ PlanTree
    BY <1>4, CallStays, CallFields DEF PathInv, PlanSweep, PlanTree, FirstPass
<1>5. CASE VisitNext
    <2>1. /\ pc \in Passes /\ (pc' = pc \/ pc' = "error")
          /\ generator' = generator /\ call' = call
        BY <1>5, VisitKeeps
    <2> QED
        BY <2>1, CallStays
<1>6. CASE EndNext
    BY <1>6, CallStays DEF EndNext, EndSelect, OutputRow, EndOutput, EndCount, EndEmit, EndFeed,
                Visited
<1>7. CASE UNCHANGED vars
    BY <1>7, CallStays
<1> QED
    BY <1>1, <1>2, <1>3, <1>4, <1>5, <1>6, <1>7 DEF Next, PlanNext

\* Labels are at most as many as the left rows.
LEMMA LabelBound ==
    ASSUME call \in Calls, WellFormed, Masked, NEW d \in Axes, NEW j \in Right
    PROVE  right[d][j] \in 0 .. LeftLen
<1>1. RightOf(d, j) = Cardinality(Begun(call.windows[d], Aligned(d, j)))
    BY AxesFacts DEF RightOf, RightLabels
<1>2. Begun(call.windows[d], Aligned(d, j)) \in SUBSET Left
    BY DEF Begun
<1>3. Cardinality(Left) = LeftLen
    BY FS_Interval, LengthsAssumption DEF Left
<1>4. RightOf(d, j) \in 0 .. LeftLen
    BY <1>1, <1>2, <1>3, LeftFinite, FS_Subset, LengthsAssumption
<1> QED
    BY <1>4, RightLabelFacts, LengthsAssumption

LEMMA LargestLabel ==
    ASSUME NEW S \in SUBSET (0 .. LeftLen), S # {}
    PROVE  Max(S) \in S /\ \A k \in S : k <= Max(S)
<1> DEFINE T == {LeftLen - x : x \in S}
<1>0. \A x \in S : x \in Int /\ x <= LeftLen /\ LeftLen \in Int
    BY LengthsAssumption
<1>1. T \in SUBSET Nat /\ T # {}
    <2>1. \A x \in S : LeftLen - x \in Nat
        BY <1>0
    <2> QED
        BY <2>1
<1>2. PICK t \in T : \A u \in T : t <= u
    BY <1>1, LeastNatural
<1>3. PICK m \in S : t = LeftLen - m
    OBVIOUS
<1>4. \A k \in S : LeftLen - m <= LeftLen - k
    BY <1>2, <1>3
<1>5. \A k \in S : m >= k
    BY <1>0, <1>4
<1>6. Max(S) \in S /\ \A k \in S : Max(S) >= k
    BY <1>5 DEF Max
<1> QED
    BY <1>0, <1>6

\* The maxima raised over a window cover what is then open.
LEMMA RaisedCovers ==
    ASSUME call \in Calls, WellFormed, Masked, maxima \in [Axes -> 0 .. LeftLen], MaximaCover,
           outer \in Left, starts[outer] \in 0 .. RightLen, previous_end \in 0 .. RightLen
    PROVE  /\ Raised \in [Axes -> 0 .. LeftLen]
           /\ \A d \in Axes, j \in Right : starts[outer] <= j => right[d][j] <= Raised[d]
<1> DEFINE S(d) == {maxima[d]} \union {right[d][j] : j \in starts[outer] .. previous_end - 1}
<1>1. \A j \in starts[outer] .. previous_end - 1 : j \in Right
    BY LengthsAssumption DEF Right
<1>2. ASSUME NEW d \in Axes PROVE S(d) \in SUBSET (0 .. LeftLen) /\ S(d) # {}
    BY <1>1, LabelBound
<1>3. \A d \in Axes : Raised[d] = Max(S(d))
    BY DEF Raised
<1>4. ASSUME NEW d \in Axes
      PROVE  Raised[d] \in 0 .. LeftLen /\ \A x \in S(d) : x <= Raised[d]
    <2> HIDE DEF S
    <2> QED
        BY <1>2, <1>3, LargestLabel
<1>5. ASSUME NEW d \in Axes, NEW j \in Right, starts[outer] <= j PROVE right[d][j] <= Raised[d]
    <2>1. CASE previous_end <= j
        <3>1. right[d][j] <= maxima[d] /\ maxima[d] <= Raised[d]
            BY <1>4, <2>1 DEF MaximaCover
        <3>2. right[d][j] \in Int /\ maxima[d] \in Int /\ Raised[d] \in Int
            BY <1>4, LabelBound, LengthsAssumption
        <3> QED
            BY <3>1, <3>2
    <2>2. CASE j < previous_end
        <3>1. j \in starts[outer] .. previous_end - 1
            BY <1>5, <2>2, LengthsAssumption DEF Right
        <3> QED
            BY <1>4, <3>1
    <2> QED
        BY <2>1, <2>2, LengthsAssumption DEF Right
<1>6. Raised \in [Axes -> 0 .. LeftLen]
    <2>1. Raised = [d \in Axes |-> Raised[d]]
        BY DEF Raised
    <2> HIDE DEF S
    <2> QED
        BY <1>4, <2>1
<1> QED
    BY <1>5, <1>6

\* A walk moved on to the next row, its window opened: what is ahead stays ahead.
LEMMA OpeningKeepsStarts ==
    ASSUME Started, StartsAhead, outer \in Left, starts[outer] < RightLen,
           starts' = starts, outer' = outer + 1, previous_end' = starts[outer]
    PROVE  starts[outer] <= previous_end /\ StartsAhead' /\ previous_end' \in 0 .. RightLen
<1>1. \A k \in Left : starts[k] \in 0 .. RightLen /\ k \in Int
    BY DEF Started, Boundaries, Left
<1>2. outer \in Int
    BY DEF Left
<1>3. starts[outer] <= previous_end
    BY <1>2 DEF StartsAhead
<1>4. ASSUME NEW k \in Left, outer + 1 <= k, starts[k] < RightLen
      PROVE  starts[k] <= starts[outer]
    BY <1>1, <1>2, <1>4 DEF Started
<1> QED
    BY <1>1, <1>3, <1>4 DEF StartsAhead

LEMMA RewoundIsAhead ==
    ASSUME Started, previous_end = RightLen
    PROVE  StartsAhead /\ MaximaCover
<1> QED
    BY LengthsAssumption DEF StartsAhead, MaximaCover, Right, Started, Boundaries

LEMMA SweepInit == Init => SweepInv
<1>1. Init => maxima \in [Axes -> 0 .. LeftLen]
    BY LengthsAssumption DEF Init, NothingOpened
<1> QED
    BY <1>1, LengthsAssumption DEF Init, SweepInv, Before, Passes

\* No window is met out of order, in any visit.
LEMMA SweepNext ==
    ASSUME PathInv, SweepInv, [Next]_vars
    PROVE  SweepInv' /\ (pc' = "error" => EndEmit \/ pc = "error")
<1> USE DEF Before, Passes
<1>0. /\ outer \in Nat /\ previous_end \in 0 .. RightLen /\ maxima \in [Axes -> 0 .. LeftLen]
      /\ RightLen \in 0 .. RightLen /\ 0 \in Nat /\ 0 <= LeftLen
    BY LengthsAssumption DEF SweepInv
<1>1. CASE EntryNext
    BY <1>0, <1>1, CallStays, RewoundIsAhead DEF EntryNext, Enter, OpenSet, SweepInv, PathInv,
        Passing, StartsAhead, MaximaCover
<1>2. CASE PathsNext
    <2>1. /\ pc \in Before /\ call' = call /\ UNCHANGED sweepVars
          /\ pc' \in Before \union {"plan", "none"}
        BY <1>2 DEF PathsNext, BuildPaths, OrderLeft, FindStarts, MaskRight, ReturnNone
    <2>2. pc' = "plan" => Started' /\ previous_end' = RightLen
        BY <1>2, <2>1, PathNext DEF PathInv, Passing, SweepInv
    <2>3. pc' = "plan" => StartsAhead'
        BY <2>2, LengthsAssumption DEF StartsAhead, Started, Boundaries
    <2> QED
        BY <1>0, <2>1, <2>3, CallStays DEF SweepInv
<1>3. CASE Probe
    <2>1. /\ pc = "probe" /\ call' = call /\ UNCHANGED sweepVars /\ UNCHANGED pathVars
          /\ pc' \in {"plan", "open", "count", "select"}
        BY <1>3 DEF Probe, FirstPass
    <2>2. outer = 0 /\ previous_end = RightLen /\ candidates = {} /\ Started
        BY <2>1 DEF SweepInv, PathInv, Passing
    <2>3. StartsAhead' /\ MaximaCover'
        BY <2>1, <2>2, RewoundIsAhead, CallStays DEF StartsAhead, MaximaCover
    <2> QED
        BY <1>0, <2>1, <2>2, <2>3, CallStays DEF SweepInv
<1>4. CASE PlanRow
    <2>1. /\ pc = "plan" /\ outer < LeftLen /\ outer' = outer + 1 /\ UNCHANGED pathVars
          /\ call' = call /\ UNCHANGED <<maxima, candidates>> /\ StartsAhead /\ Started
          /\ candidates = {} /\ outer \in Left
        BY <1>0, <1>4, LengthsAssumption DEF PlanRow, SweepInv, PathInv, Passing, Left
    <2>2. CASE starts[outer] = RightLen
        <3>1. pc' = "plan" /\ previous_end' = previous_end
            BY <1>4, <2>2 DEF PlanRow
        <3>2. StartsAhead'
            BY <1>0, <2>1, <3>1 DEF StartsAhead, Left
        <3> QED
            BY <1>0, <2>1, <3>1, <3>2, CallStays, LengthsAssumption DEF SweepInv
    <2>3. CASE starts[outer] # RightLen
        <3>1. previous_end' = starts[outer] /\ starts[outer] < RightLen
            BY <1>4, <2>1, <2>3, LengthsAssumption DEF PlanRow, Open, Started, Boundaries
        <3>2. starts[outer] <= previous_end /\ StartsAhead' /\ previous_end' \in 0 .. RightLen
            BY <2>1, <3>1, OpeningKeepsStarts
        <3>3. pc' \in {"plan", "tree"}
            <4>1. starts[outer] \in 0 .. RightLen
                BY <2>1 DEF Started, Boundaries
            <4>2. ~(starts[outer] > previous_end)
                BY <1>0, <3>2, <4>1, LengthsAssumption
            <4> QED
                BY <1>4, <2>3, <4>2 DEF PlanRow, Open
        <3> QED
            BY <1>0, <2>1, <3>2, <3>3, CallStays, LengthsAssumption DEF SweepInv
    <2> QED
        BY <2>2, <2>3
<1>5. CASE PlanSweep \/ PlanTree
    <2>1. /\ pc \in {"plan", "tree"} /\ pc' \in {"open", "count", "select"} /\ UNCHANGED pathVars
          /\ outer' = 0 /\ previous_end' = RightLen /\ UNCHANGED <<maxima, candidates>>
          /\ call' = call
        BY <1>5 DEF PlanSweep, PlanTree, Rewind, FirstPass
    <2>2. Started'
        BY <2>1, PathNext DEF PathInv, Passing
    <2>3. StartsAhead' /\ MaximaCover'
        BY <2>1, <2>2, LengthsAssumption DEF StartsAhead, MaximaCover, Started, Boundaries, Right
    <2> QED
        BY <1>0, <2>1, <2>3, CallStays DEF SweepInv
<1>6. CASE QueryTree \/ SkipInactive
    <2>1. /\ pc \in Passes /\ pc' = pc /\ UNCHANGED pathVars /\ call' = call
          /\ outer' = outer + 1 /\ UNCHANGED <<previous_end, maxima>>
        BY <1>6 DEF QueryTree, SkipInactive
    <2>2. StartsAhead' /\ MaximaCover'
        BY <1>0, <2>1, CallStays DEF SweepInv, StartsAhead, MaximaCover, Left
    <2> QED
        BY <1>0, <2>1, <2>2, CallStays DEF SweepInv
<1>7. CASE SweepRow
    <2>1. /\ pc \in Passes /\ UNCHANGED pathVars /\ call' = call /\ outer < LeftLen
          /\ outer' = outer + 1 /\ previous_end' = starts[outer] /\ starts[outer] < RightLen
          /\ maxima' = Raised /\ StartsAhead /\ MaximaCover
        BY <1>7 DEF SweepRow, Open, SweepInv
    <2>2. call \in Calls /\ WellFormed /\ Masked /\ Started /\ outer \in Left
        BY <1>0, <2>1, LengthsAssumption DEF PathInv, Passing, Left
    <2>3. starts[outer] \in 0 .. RightLen
        BY <2>2 DEF Started, Boundaries
    <2>4. starts[outer] <= previous_end /\ StartsAhead' /\ previous_end' \in 0 .. RightLen
        BY <2>1, <2>2, OpeningKeepsStarts
    <2>5. pc' = pc
        BY <1>0, <1>7, <2>3, <2>4, LengthsAssumption DEF SweepRow, Open
    <2>6. /\ maxima' \in [Axes -> 0 .. LeftLen]
          /\ MaximaCover'
        BY <1>0, <2>1, <2>2, <2>3, RaisedCovers, CallStays DEF MaximaCover
    <2> QED
        BY <1>0, <2>1, <2>4, <2>5, <2>6, CallStays DEF SweepInv
<1>8. CASE Reject \/ Select \/ Count \/ Emit \/ Feed
    <2>1. /\ pc \in Passes /\ pc' = pc /\ UNCHANGED pathVars /\ call' = call
          /\ UNCHANGED <<outer, previous_end, maxima>>
        BY <1>8 DEF Reject, Select, Count, Emit, Feed
    <2> QED
        BY <1>0, <2>1, CallStays DEF SweepInv, StartsAhead, MaximaCover
<1>9. CASE EndSelect \/ EndFeed \/ EndOutput \/ EndEmit
    BY <1>0, <1>9, CallStays DEF EndSelect, EndFeed, EndOutput, EndEmit, Visited, Rewind, SweepInv
<1>10. CASE OutputRow
    BY <1>0, <1>10, CallStays, LengthsAssumption DEF OutputRow, SweepInv
<1>11. CASE EndCount
    <2>1. /\ pc = "count" /\ pc' \in {"none", "emit"} /\ UNCHANGED pathVars /\ call' = call
          /\ outer' = 0 /\ previous_end' = RightLen /\ maxima' = NothingOpened
        BY <1>11 DEF EndCount, Visited, Rewind
    <2>2. Started'
        BY <2>1 DEF PathInv, Passing, Started, InWindow, Aligned
    <2>3. StartsAhead' /\ MaximaCover'
        BY <2>1, <2>2, LengthsAssumption DEF StartsAhead, MaximaCover, Started, Boundaries, Right
    <2>4. maxima' \in [Axes -> 0 .. LeftLen]
        BY <1>0, <2>1 DEF NothingOpened
    <2> QED
        BY <1>0, <2>1, <2>3, <2>4, CallStays DEF SweepInv
<1>12. CASE UNCHANGED vars
    BY <1>12, CallStays DEF SweepInv, StartsAhead, MaximaCover
<1> QED
    BY <1>1, <1>2, <1>3, <1>4, <1>5, <1>6, <1>7, <1>8, <1>9, <1>10, <1>11, <1>12
    DEF Next, PlanNext, VisitNext, EndNext

-----------------------------------------------------------------------------
\* What a visit has handed over.

\* The search row and the right row match in every respect.
Wanted(i, j) == left[1][i] # 0 /\ Dominated(i, j) /\ <<left_order[i], j>> \in call.residual

\* A pair belongs to a row of the generator, and is one of its candidates.
Turn(i, j)  == IF generator = "left" THEN j ELSE i
Other(i, j) == IF generator = "left" THEN i ELSE j

\* The pair's row has been visited, and the pair is not to come.
Behind(i, j) == Turn(i, j) < outer /\ ~(Turn(i, j) = outer - 1 /\ Other(i, j) \in candidates)

\* The rows that match, those of them that have been handed over.
All(i)  == {j \in Right : Wanted(i, j)}
Seen(i) == {j \in Right : Wanted(i, j) /\ Behind(i, j)}

\* All candidates are pairs of the row last entered that the labels join.
CandidateInv ==
    pc \in Passes => \A c \in candidates :
        /\ outer - 1 \in OuterRows
        /\ Pair(c).i \in Left /\ Pair(c).j \in Right
        /\ left[1][Pair(c).i] # 0 /\ Dominated(Pair(c).i, Pair(c).j)

\* What is known of the call wherever a pass runs.
Running ==
    /\ pc \in Passes
    /\ call \in Calls /\ WellFormed /\ Ordered /\ Started /\ Masked
    /\ outer \in Nat /\ generator \in {"sweep", "left", "right"}

LEMMA RunningPass ==
    ASSUME PathInv, SweepInv, PassInv, pc \in Passes
    PROVE  Running
<1> QED
    BY DEF Running, PathInv, SweepInv, PassInv, Passing

\* Both generators hand over all pairs of the row that the labels join: the
\* window stands for the first comparison, and a row is only passed over, or
\* found hopeless, if nothing would be left of its candidates.
LEMMA SweepAnswerIsExact ==
    ASSUME Running, outer \in Left, NEW j
    PROVE  j \in SweepAnswer <=> j \in Right /\ left[1][outer] # 0 /\ Dominated(outer, j)
<1>1. /\ call \in Calls /\ WellFormed /\ Ordered /\ Started /\ Masked /\ {1, 2, 3} \subseteq Axes
      /\ starts[outer] \in 0 .. RightLen
    BY AxesFacts DEF Running, Started, Boundaries
<1>2. j \in SweepAnswer <=>
        /\ j \in starts[outer] .. RightLen - 1
        /\ right[2][j] # 0
        /\ \A d \in Axes \ {1} : left[d][outer] <= right[d][j]
    BY <1>1 DEF SweepAnswer, InSecond
<1>3. j \in starts[outer] .. RightLen - 1 <=> j \in Right /\ starts[outer] <= j
    BY <1>1, LengthsAssumption DEF Right
<1>4. CASE left[1][outer] = 0
    <2>1. starts[outer] = RightLen
        BY <1>1, <1>4 DEF Started
    <2> QED
        BY <1>2, <1>4, <2>1, LengthsAssumption
<1>5. CASE left[1][outer] # 0 /\ j \in Right
    <2>1. starts[outer] <= j <=> InWindow(1, left_order[outer], j)
        BY <1>1, <1>5 DEF Started
    <2>2. /\ LeftInPlay(left_order[outer]) /\ left_order[outer] \in Left
          /\ left[1][outer] = LeftOf(1, left_order[outer])
          /\ \A d \in Axes : left[d][outer] \in Nat /\ left[d][outer] # 0
        BY <1>1, <1>5, LeftLabelFacts
    <2>3. InWindow(1, left_order[outer], j) <=> left[1][outer] <= RightOf(1, j)
        BY <1>1, <1>5, <2>2, LabelFacts
    <2>4. \A d \in Axes : right[d][j] \in Nat /\ (right[d][j] = 0 <=> ~RightInPlay(j))
        BY <1>1, <1>5, RightLabelFacts
    <2>5. RightInPlay(j) => right[1][j] = RightOf(1, j)
        BY <1>1, <1>5, RightLabelFacts
    <2>6. CASE RightInPlay(j)
        BY <1>1, <1>2, <1>3, <1>5, <2>1, <2>3, <2>4, <2>5, <2>6 DEF Dominated
    <2>7. CASE ~RightInPlay(j)
        <3>1. right[1][j] = 0 /\ right[2][j] = 0
            BY <1>1, <2>4, <2>7
        <3>2. ~Dominated(outer, j)
            BY <1>1, <2>2, <3>1 DEF Dominated
        <3> QED
            BY <1>2, <3>1, <3>2
    <2> QED
        BY <2>6, <2>7
<1> QED
    BY <1>2, <1>3, <1>4, <1>5

LEMMA HopelessHasNone ==
    ASSUME Running, outer \in Left, NEW maximum,
           \A d \in Axes, j \in Right : starts[outer] <= j => right[d][j] <= maximum[d],
           maximum \in [Axes -> 0 .. LeftLen], Hopeless(maximum)
    PROVE  SweepAnswer = {}
<1>1. PICK d \in Axes : left[d][outer] > maximum[d]
    BY DEF Hopeless
<1>2. ASSUME NEW j \in SweepAnswer PROVE FALSE
    <2>1. j \in Right /\ Dominated(outer, j)
        BY <1>2, SweepAnswerIsExact
    <2>2. starts[outer] <= j
        BY <1>2 DEF SweepAnswer, InSecond
    <2>3. left[d][outer] <= right[d][j] /\ right[d][j] <= maximum[d]
        BY <2>1, <2>2 DEF Dominated
    <2>4. left[d][outer] \in Nat /\ right[d][j] \in Nat /\ maximum[d] \in Nat
        BY <2>1, LeftLabelFacts, RightLabelFacts, LengthsAssumption DEF Running
    <2> QED
        BY <1>1, <2>3, <2>4
<1> QED
    BY <1>2

\* The rows of the generator, and what a pair is to it.
LEMMA TurnFacts ==
    ASSUME Running
    PROVE  /\ \A i \in Left, j \in Right : Turn(i, j) \in OuterRows
           /\ \A x \in OuterRows : x \in Nat
           /\ generator = "left" => OuterRows = Right
           /\ generator # "left" => OuterRows = Left
           /\ \A c : Turn(Pair(c).i, Pair(c).j) = outer - 1 /\ Other(Pair(c).i, Pair(c).j) = c
<1> QED
    BY LengthsAssumption DEF OuterRows, Turn, Other, Pair, Left, Right

LEMMA SeenTypes ==
    ASSUME NEW i
    PROVE  /\ Seen(i) \in SUBSET All(i) /\ All(i) \in SUBSET Right
           /\ IsFiniteSet(Seen(i)) /\ Cardinality(Seen(i)) \in Nat
           /\ IsFiniteSet(All(i)) /\ Cardinality(All(i)) \in Nat
<1>1. Seen(i) \in SUBSET All(i) /\ All(i) \in SUBSET Right
    BY DEF Seen, All
<1> QED
    BY <1>1, RightFinite, FS_CardinalityType, FS_Subset

LEMMA NothingSeen ==
    ASSUME outer = 0, NEW i \in Left
    PROVE  Seen(i) = {}
<1>1. \A j \in Right : Turn(i, j) \in Nat
    BY LengthsAssumption DEF Turn, Left, Right
<1> QED
    BY <1>1 DEF Seen, Behind

\* When a pass ends, everything has been handed over.
LEMMA EverythingSeen ==
    ASSUME Running, candidates = {}, outer \notin OuterRows, NEW i \in Left
    PROVE  Seen(i) = All(i)
<1>1. ASSUME NEW j \in Right PROVE Turn(i, j) < outer
    <2>1. Turn(i, j) \in OuterRows /\ outer \in Nat
        BY TurnFacts DEF Running
    <2>2. OuterRows = Left \/ OuterRows = Right
        BY DEF OuterRows
    <2> QED
        BY <2>1, <2>2, LengthsAssumption DEF Left, Right
<1> QED
    BY <1>1 DEF Seen, All, Behind

\* A row's window opened, or its query made: nothing of it is behind but pairs
\* that are not wanted.
LEMMA EnteringSeesNothing ==
    ASSUME Running, candidates = {}, outer' = outer + 1,
           UNCHANGED pathVars, generator' = generator,
           \A i \in Left, j \in Right :
                Turn(i, j) = outer /\ Wanted(i, j) => Other(i, j) \in candidates',
           NEW i \in Left
    PROVE  Seen(i)' = Seen(i)
<1>1. \A j : Wanted(i, j)' = Wanted(i, j) /\ Turn(i, j)' = Turn(i, j) /\ Other(i, j)' = Other(i, j)
    BY DEF Wanted, Dominated, Axes, Turn, Other
<1>2. ASSUME NEW j \in Right, Wanted(i, j) PROVE Behind(i, j)' <=> Behind(i, j)
    <2>1. Turn(i, j) \in Nat /\ outer \in Nat
        BY TurnFacts DEF Running
    <2>2. Behind(i, j) <=> Turn(i, j) < outer
        BY DEF Behind
    <2>3. Behind(i, j)' <=>
            Turn(i, j) < outer + 1 /\ ~(Turn(i, j) = outer /\ Other(i, j) \in candidates')
        BY <1>1, <2>1 DEF Behind
    <2> QED
        BY <1>2, <2>1, <2>2, <2>3
<1> QED
    BY <1>1, <1>2 DEF Seen

\* The step into a row.
Entering == (QueryTree \/ SkipInactive \/ SweepRow) /\ pc' = pc

LEMMA EnteringKeeps ==
    ASSUME Running, SweepInv, Entering
    PROVE  /\ CandidateInv'
           /\ \A i \in Left : Seen(i)' = Seen(i)
           /\ UNCHANGED pathVars /\ UNCHANGED planVars /\ outer' = outer + 1
           /\ UNCHANGED <<selected, match_counts, second_counts, left_output, right_output>>
<1>1. /\ UNCHANGED pathVars /\ UNCHANGED planVars /\ outer' = outer + 1 /\ candidates = {}
      /\ UNCHANGED <<selected, match_counts, second_counts, left_output, right_output>>
    BY DEF Entering, QueryTree, SkipInactive, SweepRow
<1>2. /\ outer \in Nat /\ outer \in OuterRows /\ outer' - 1 = outer
      /\ generator = "left" => outer \in Right
      /\ generator # "left" => outer \in Left
    <2>1. outer \in Nat /\ outer' - 1 = outer
        BY <1>1 DEF Running
    <2>2. CASE QueryTree
        BY <2>1, <2>2, TurnFacts DEF QueryTree
    <2>3. CASE SkipInactive \/ SweepRow
        BY <2>1, <2>3, LengthsAssumption DEF SkipInactive, SweepRow, OuterRows, Left
    <2> QED
        BY <2>1, <2>2, <2>3 DEF Entering
<1>3. \A c : c \in candidates' =>
            IF generator = "left" THEN c \in Left /\ left[1][c] # 0 /\ Dominated(c, outer)
            ELSE c \in Right /\ left[1][outer] # 0 /\ Dominated(outer, c)
    <2>1. CASE QueryTree
        BY <1>2, <2>1 DEF QueryTree, TreeAnswer, Running
    <2>2. CASE SkipInactive
        BY <1>1, <2>2 DEF SkipInactive
    <2>3. CASE SweepRow
        <3>1. candidates' = {} \/ candidates' = SweepAnswer
            BY <2>3 DEF SweepRow
        <3> QED
            BY <1>2, <2>3, <3>1, SweepAnswerIsExact DEF SweepRow
    <2> QED
        BY <2>1, <2>2, <2>3 DEF Entering
<1>4. \A i \in Left, j \in Right :
        Turn(i, j) = outer /\ Wanted(i, j) => Other(i, j) \in candidates'
    <2> SUFFICES ASSUME NEW i \in Left, NEW j \in Right, Turn(i, j) = outer, Wanted(i, j)
                 PROVE  Other(i, j) \in candidates'
        OBVIOUS
    <2>0. left[1][i] # 0 /\ Dominated(i, j)
        BY DEF Wanted
    <2>1. CASE QueryTree
        <3>1. right[1][j] # 0
            <4>1. left[1][i] <= right[1][j] /\ left[1][i] \in Nat
                BY <2>0, AxesFacts, LeftLabelFacts DEF Dominated, Running
            <4> QED
                BY <2>0, <4>1
        <3> QED
            BY <2>0, <2>1, <3>1 DEF QueryTree, TreeAnswer, Turn, Other, Running
    <2>2. CASE SkipInactive
        <3>1. i = outer /\ starts[i] = RightLen
            BY <2>2 DEF SkipInactive, Turn
        <3>2. \A d \in Axes : InWindow(d, left_order[i], j)
            BY <2>0, DominationDecides DEF Running
        <3>3. InWindow(1, left_order[i], j)
            BY <3>2, AxesFacts DEF Running
        <3>4. starts[i] <= j
            BY <2>0, <3>3 DEF Running, Started
        <3> QED
            BY <3>1, <3>4, LengthsAssumption DEF Right
    <2>3. CASE SweepRow
        <3>1. i = outer /\ Other(i, j) = j
            BY <2>3 DEF SweepRow, Turn, Other
        <3>2. j \in SweepAnswer
            BY <1>2, <2>0, <2>3, <3>1, SweepAnswerIsExact DEF SweepRow
        <3>3. maxima' = Raised /\ starts[outer] < RightLen
            BY <2>3 DEF SweepRow
        <3>4. starts[outer] \in 0 .. RightLen /\ previous_end \in 0 .. RightLen
            BY <1>2, <3>1 DEF Running, Started, Boundaries, SweepInv
        <3>5. /\ Raised \in [Axes -> 0 .. LeftLen]
              /\ \A d \in Axes, k \in Right : starts[outer] <= k => right[d][k] <= Raised[d]
            BY <3>1, <3>4, RaisedCovers DEF SweepInv, Running
        <3>6. ~Hopeless(maxima')
            BY <3>1, <3>2, <3>3, <3>5, HopelessHasNone
        <3>7. candidates' = IF Hopeless(maxima') THEN {} ELSE SweepAnswer
            BY <2>3 DEF SweepRow
        <3> QED
            BY <3>1, <3>2, <3>6, <3>7
    <2> QED
        BY <2>1, <2>2, <2>3 DEF Entering
<1>5. \A i \in Left : Seen(i)' = Seen(i)
    BY <1>1, <1>4, EnteringSeesNothing
<1>6. CandidateInv'
    <2>1. \A c : Pair(c)' = IF generator = "left" THEN [i |-> c, j |-> outer]
                            ELSE [i |-> outer, j |-> c]
        BY <1>1, <1>2 DEF Pair
    <2>2. OuterRows' = OuterRows /\ \A i, j : Dominated(i, j)' = Dominated(i, j)
        BY <1>1 DEF OuterRows, Dominated, Axes
    <2>3. (outer - 1)' \in OuterRows'
        BY <1>2, <2>2
    <2> QED
        BY <1>1, <1>2, <1>3, <2>1, <2>2, <2>3 DEF CandidateInv
<1> QED
    BY <1>1, <1>5, <1>6

\* A candidate handed over: its pair is behind from now on.
LEMMA HandingOver ==
    ASSUME Running, CandidateInv, NEW c \in candidates,
           UNCHANGED pathVars, UNCHANGED planVars, outer' = outer, candidates' = candidates \ {c}
    PROVE  /\ Pair(c).i \in Left /\ Pair(c).j \in Right \ Seen(Pair(c).i)
           /\ Wanted(Pair(c).i, Pair(c).j) <=> Accepted(Pair(c))
           /\ \A i \in Left :
                Seen(i)' = Seen(i) \union {j \in {Pair(c).j} : i = Pair(c).i /\ Accepted(Pair(c))}
<1> DEFINE p == Pair(c)
<1>1. /\ p.i \in Left /\ p.j \in Right /\ left[1][p.i] # 0 /\ Dominated(p.i, p.j)
      /\ Turn(p.i, p.j) = outer - 1 /\ Other(p.i, p.j) = c /\ outer \in Nat
      /\ outer - 1 \in OuterRows
    BY TurnFacts DEF CandidateInv, Running
<1>2. Wanted(p.i, p.j) <=> Accepted(p)
    BY <1>1 DEF Wanted, Accepted
<1>3. p.j \notin Seen(p.i)
    BY <1>1 DEF Seen, Behind
<1>4. \A i, j : /\ Wanted(i, j)' = Wanted(i, j)
                /\ Turn(i, j)' = Turn(i, j) /\ Other(i, j)' = Other(i, j)
    BY DEF Wanted, Dominated, Axes, Turn, Other
<1>5. ASSUME NEW i \in Left, NEW j \in Right
      PROVE  Behind(i, j)' <=> Behind(i, j) \/ (i = p.i /\ j = p.j)
    <2>1. Turn(i, j) \in Nat
        BY TurnFacts
    <2>2. Turn(i, j) = outer - 1 /\ Other(i, j) = c <=> i = p.i /\ j = p.j
        BY <1>1 DEF Turn, Other, Pair
    <2>3. Behind(i, j)' <=>
            Turn(i, j) < outer /\ ~(Turn(i, j) = outer - 1 /\ Other(i, j) \in candidates \ {c})
        BY <1>4 DEF Behind
    <2> QED
        BY <1>1, <2>1, <2>2, <2>3 DEF Behind
<1> HIDE DEF p
<1>6. ASSUME NEW i \in Left
      PROVE  Seen(i)' = Seen(i) \union {j \in {p.j} : i = p.i /\ Accepted(p)}
    BY <1>1, <1>2, <1>4, <1>5 DEF Seen
<1> QED
    BY <1>1, <1>2, <1>3, <1>6 DEF p

\* The callback has enough of the row: the rest is behind, too.
LEMMA Stopping ==
    ASSUME Running, CandidateInv, NEW c \in candidates, generator # "left",
           UNCHANGED pathVars, UNCHANGED planVars, outer' = outer, candidates' = {}
    PROVE  \A i \in Left : Seen(i)' = IF i = Pair(c).i THEN All(i) ELSE Seen(i)
<1>1. Pair(c).i = outer - 1 /\ outer \in Nat /\ outer - 1 \in Left
    BY TurnFacts DEF CandidateInv, Running, Pair
<1>2. \A i, j : /\ Wanted(i, j)' = Wanted(i, j) /\ Turn(i, j)' = i /\ Turn(i, j) = i
    BY DEF Wanted, Dominated, Axes, Turn
<1>3. \A i, j : Behind(i, j)' <=> i < outer
    BY <1>2 DEF Behind
<1>4. \A i, j : i # outer - 1 => (Behind(i, j) <=> i < outer)
    BY <1>2 DEF Behind
<1>5. ASSUME NEW i \in Left PROVE Seen(i)' = IF i = outer - 1 THEN All(i) ELSE Seen(i)
    <2>1. i = outer - 1 => i < outer
        BY <1>1
    <2> QED
        BY <1>2, <1>3, <1>4, <2>1 DEF Seen, All
<1> QED
    BY <1>1, <1>5

LEMMA RewoundSeesNothing ==
    ASSUME outer' = 0, NEW i \in Left
    PROVE  Seen(i)' = {}
<1>1. \A j \in Right : Turn(i, j)' \in Nat
    BY LengthsAssumption DEF Turn, Left, Right
<1> QED
    BY <1>1 DEF Seen, Behind

LEMMA AllStays ==
    ASSUME UNCHANGED pathVars
    PROVE  /\ \A i, j : Wanted(i, j)' = Wanted(i, j)
           /\ \A i : All(i)' = All(i)
<1> QED
    BY DEF All, Wanted, Dominated, Axes

\* A candidate that is not taken leaves what has been seen as it is.
LEMMA RejectKeeps ==
    ASSUME Running, CandidateInv, Reject
    PROVE  \A i \in Left : Seen(i)' = Seen(i)
<1>1. PICK c \in candidates : ~Accepted(Pair(c)) /\ candidates' = candidates \ {c}
    BY DEF Reject, GoOn
<1>2. UNCHANGED pathVars /\ UNCHANGED planVars /\ outer' = outer
    BY DEF Reject
<1> QED
    BY <1>1, <1>2, HandingOver

LEMMA CandidateInit == Init => CandidateInv
<1> QED
    BY DEF Init, CandidateInv, Passes

LEMMA CandidateNext ==
    ASSUME PathInv, SweepInv, PassInv, CandidateInv, [Next]_vars
    PROVE  CandidateInv'
<1>1. CASE QueryTree \/ SkipInactive \/ SweepRow
    <2>1. pc \in Passes /\ (pc' = pc \/ pc' = "error")
        BY <1>1, VisitKeeps DEF VisitNext
    <2>2. CASE pc' = pc
        BY <1>1, <2>1, <2>2, RunningPass, EnteringKeeps DEF Entering
    <2>3. CASE pc' = "error"
        BY <2>3 DEF CandidateInv, Passes
    <2> QED
        BY <2>1, <2>2, <2>3
<1>2. CASE Reject \/ Select \/ Count \/ Emit \/ Feed \/ UNCHANGED vars
    <2>1. UNCHANGED pathVars /\ UNCHANGED planVars /\ pc' = pc /\ outer' = outer
        BY <1>2 DEF Reject, Select, Count, Emit, Feed
    <2>2. \A c \in candidates' : c \in candidates
        BY <1>2 DEF Reject, Select, Count, Emit, Feed, GoOn
    <2> QED
        BY <2>1, <2>2 DEF CandidateInv, OuterRows, Pair, Dominated, Axes
<1>3. CASE EntryNext \/ PathsNext \/ PlanNext
    <2>1. pc \in Before \union {"open", "plan", "tree"} /\ candidates' = candidates
        BY <1>3 DEF EntryNext, Enter, OpenSet, PathsNext, BuildPaths, OrderLeft, FindStarts,
            MaskRight, ReturnNone, PlanNext, Probe, PlanRow, PlanSweep, PlanTree, Before
    <2>2. candidates' = {}
        BY <2>1 DEF SweepInv
    <2> QED
        BY <2>2 DEF CandidateInv
<1>4. CASE EndNext
    <2>1. candidates' = candidates
        BY <1>4 DEF EndNext, EndSelect, OutputRow, EndOutput, EndCount, EndEmit, EndFeed
    <2>2. candidates = {} \/ pc' \notin Passes
        BY <1>4 DEF EndNext, EndSelect, OutputRow, EndOutput, EndCount, EndEmit, EndFeed,
            Visited, Passes
    <2> QED
        BY <2>1, <2>2 DEF CandidateInv
<1> QED
    BY <1>1, <1>2, <1>3, <1>4 DEF Next, VisitNext

-----------------------------------------------------------------------------
\* The two passes of keep="all".

CountInv ==
    /\ match_counts \in [Left -> Nat] /\ second_counts \in [Left -> Nat]
    /\ pc \in Before \union {"open", "plan", "tree"} =>
        \A i \in Left : match_counts[i] = 0 /\ second_counts[i] = 0
    /\ pc = "count" =>
        \A i \in Left : match_counts[i] = Cardinality(Seen(i)) /\ second_counts[i] = 0
    /\ pc = "emit" =>
        \A i \in Left : /\ match_counts[i] = Cardinality(All(i))
                        /\ second_counts[i] = Cardinality(Seen(i))

LEMMA CountInit == Init => CountInv
<1> QED
    BY DEF Init, CountInv, Before

LEMMA CountNext ==
    ASSUME PathInv, SweepInv, PassInv, CandidateInv, CountInv, [Next]_vars
    PROVE  CountInv'
<1> USE DEF Before
<1>0. Cardinality({}) = 0
    BY FS_EmptySet
<1>1. CASE EntryNext \/ PathsNext
    <2>1. /\ pc \in Before \union {"open"} /\ UNCHANGED countVars
          /\ pc' \notin {"count", "emit"}
        BY <1>1 DEF EntryNext, Enter, OpenSet, PathsNext, BuildPaths, OrderLeft, FindStarts,
            MaskRight, ReturnNone
    <2> QED
        BY <2>1 DEF CountInv
<1>2. CASE PlanNext
    <2>1. /\ pc \in {"probe", "plan", "tree"} /\ UNCHANGED countVars
          /\ pc' # "emit" /\ (pc' = "count" => outer' = 0)
        BY <1>2 DEF PlanNext, Probe, PlanRow, PlanSweep, PlanTree, Open, Rewind, FirstPass,
            SweepInv
    <2>2. pc' = "count" => \A i \in Left : Cardinality(Seen(i)') = 0
        BY <1>0, <2>1, RewoundSeesNothing
    <2> QED
        BY <2>1, <2>2 DEF CountInv
<1>3. CASE QueryTree \/ SkipInactive \/ SweepRow \/ Reject
    <2>1. /\ pc \in Passes /\ (pc' = pc \/ pc' = "error") /\ UNCHANGED countVars
          /\ UNCHANGED pathVars
        BY <1>3, VisitKeeps DEF VisitNext, QueryTree, SkipInactive, SweepRow, Reject
    <2>2. pc' = pc => \A i \in Left : Seen(i)' = Seen(i)
        BY <1>3, <2>1, RunningPass, RejectKeeps, EnteringKeeps DEF Entering
    <2> QED
        BY <2>1, <2>2, AllStays DEF CountInv, Passes
<1>4. CASE Count \/ Emit
    <2>1. /\ pc' = pc /\ pc \in {"count", "emit"} /\ outer' = outer
          /\ UNCHANGED pathVars /\ UNCHANGED planVars
        BY <1>4 DEF Count, Emit
    <2>2. PICK c \in candidates :
            /\ Accepted(Pair(c)) /\ candidates' = candidates \ {c}
            /\ Count =>
                /\ match_counts' = [match_counts EXCEPT ![Pair(c).i] = @ + 1]
                /\ second_counts' = second_counts
            /\ Emit =>
                /\ second_counts' = [second_counts EXCEPT ![Pair(c).i] = @ + 1]
                /\ match_counts' = match_counts
        BY <1>4 DEF Count, Emit, GoOn
    <2> DEFINE p == Pair(c)
    <2>3. /\ p.i \in Left /\ p.j \notin Seen(p.i)
          /\ \A i \in Left :
                Seen(i)' = Seen(i) \union {j \in {p.j} : i = p.i /\ Accepted(p)}
        BY <2>1, <2>2, RunningPass, HandingOver DEF Passes
    <2> HIDE DEF p
    <2>4. \A i \in Left :
            Cardinality(Seen(i)') = IF i = p.i THEN Cardinality(Seen(i)) + 1
                                    ELSE Cardinality(Seen(i))
        <3>1. Accepted(p)
            BY <2>2 DEF p
        <3>2. \A i \in Left : Seen(i)' = IF i = p.i THEN Seen(i) \union {p.j} ELSE Seen(i)
            BY <2>3, <3>1
        <3> QED
            BY <2>3, <3>2, SeenTypes, FS_AddElement
    <2>5. CASE Count
        <3>1. /\ match_counts' = [match_counts EXCEPT ![p.i] = @ + 1]
              /\ second_counts' = second_counts /\ pc = "count"
            BY <2>2, <2>5 DEF Count, p
        <3> QED
            BY <2>1, <2>3, <2>4, <3>1 DEF CountInv
    <2>6. CASE Emit
        <3>1. /\ second_counts' = [second_counts EXCEPT ![p.i] = @ + 1]
              /\ match_counts' = match_counts /\ pc = "emit"
            BY <2>2, <2>6 DEF Emit, p
        <3> QED
            BY <2>1, <2>3, <2>4, <3>1, AllStays DEF CountInv
    <2> QED
        BY <1>4, <2>5, <2>6
<1>5. CASE EndCount
    <2>1. /\ pc = "count" /\ pc' \in {"emit", "none"} /\ UNCHANGED pathVars /\ outer' = 0
          /\ UNCHANGED countVars /\ candidates = {} /\ outer \notin OuterRows
        BY <1>5 DEF EndCount, Visited, Rewind
    <2>2. \A i \in Left : Seen(i) = All(i) /\ Seen(i)' = {} /\ All(i)' = All(i)
        BY <2>1, RunningPass, EverythingSeen, RewoundSeesNothing, AllStays DEF Passes
    <2> QED
        BY <1>0, <2>1, <2>2 DEF CountInv
<1>6. CASE Select \/ Feed \/ (EndNext /\ ~EndCount)
    <2>1. /\ UNCHANGED countVars
          /\ pc' \notin Before \union {"open", "plan", "tree", "count", "emit"}
        BY <1>6 DEF Select, Feed, EndNext, EndSelect, OutputRow, EndOutput, EndEmit, EndFeed,
            Visited, Passes
    <2> QED
        BY <2>1 DEF CountInv
<1>7. CASE UNCHANGED vars
    <2>1. /\ UNCHANGED pathVars /\ UNCHANGED countVars /\ pc' = pc
          /\ \A i : Seen(i)' = Seen(i)
        BY <1>7 DEF Seen, Behind, Turn, Other, Wanted, Dominated, Axes
    <2> QED
        BY <2>1, AllStays DEF CountInv
<1> QED
    BY <1>1, <1>2, <1>3, <1>4, <1>5, <1>6, <1>7 DEF Next, VisitNext

\* Everything known of the visits.
VisitInv == PathInv /\ SweepInv /\ PassInv /\ CandidateInv /\ CountInv /\ PassesAgree

LEMMA VisitInit == Init => VisitInv
<1> QED
    BY PathInit, SweepInit, PassInit, CandidateInit, CountInit DEF VisitInv, Init, PassesAgree

LEMMA VisitStep == VisitInv /\ [Next]_vars => VisitInv'
<1> SUFFICES ASSUME VisitInv, [Next]_vars
             PROVE  VisitInv'
    OBVIOUS
<1> USE DEF VisitInv
<1>1. PathInv' /\ SweepInv' /\ PassInv' /\ CandidateInv' /\ CountInv'
    BY PathNext, SweepNext, PassNext, CandidateNext, CountNext
<1>2. pc' = "error" => EndEmit
    BY SweepNext DEF PassesAgree
<1>3. CASE EndEmit
    <2>1. /\ pc = "emit" /\ candidates = {} /\ outer \notin OuterRows
          /\ pc' = IF second_counts # match_counts THEN "error" ELSE "done"
        BY <1>3 DEF EndEmit, Visited
    <2>2. \A i \in Left : second_counts[i] = match_counts[i]
        BY <2>1, RunningPass, EverythingSeen DEF CountInv, Passes
    <2>3. second_counts = match_counts
        BY <2>2 DEF CountInv
    <2> QED
        BY <2>1, <2>3, <1>1 DEF PassesAgree
<1> QED
    BY <1>1, <1>2, <1>3 DEF PassesAgree

THEOREM VisitInvariant == Spec => []VisitInv
<1> QED
    BY VisitInit, VisitStep, PTL DEF Spec

\* The two passes of keep="all" visit the same candidates, each with an opening of
\* the windows or queries of its own, and no window is met out of order in any
\* visit: none of the internal errors of n_region_indices_with_filter_core and of
\* sweep_candidates is ever returned.
THEOREM PassesAgreeTheorem == Spec => []PassesAgree
<1>1. VisitInv => PassesAgree
    BY DEF VisitInv
<1> QED
    BY <1>1, VisitInvariant, PTL

-----------------------------------------------------------------------------
\* The work that chooses the generator.

\* The pairs of the sweep that belong to a search row, and to the first n rows.
RowPairs(k)  == {p \in SweepPairs : p[1] = left_order[k]}
PlanPairs(n) == {p \in SweepPairs : \E k \in Left : k < n /\ left_order[k] = p[1]}

PlanInv ==
    /\ total \in Nat
    /\ pc \in Before => total = 0
    /\ pc = "plan" => total = Cardinality(PlanPairs(outer)) /\ total <= call.limit
    /\ pc = "tree" => Cardinality(SweepPairs) > call.limit
    /\ PlanIsExact

LEMMA PairsFinite ==
    /\ IsFiniteSet(SweepPairs) /\ Cardinality(SweepPairs) \in Nat
    /\ \A S \in SUBSET SweepPairs :
        /\ IsFiniteSet(S) /\ Cardinality(S) \in Nat
        /\ Cardinality(S) <= Cardinality(SweepPairs)
<1>1. IsFiniteSet(Left \X Right)
    BY LeftFinite, RightFinite, FS_Product
<1>2. SweepPairs \in SUBSET (Left \X Right)
    BY DEF SweepPairs
<1> QED
    BY <1>1, <1>2, FS_Subset, FS_CardinalityType

\* What is counted for a row, a comparison of labels in the second dimension over
\* the rows of the window in the first, are the pairs in both windows.
LEMMA RowIsCounted ==
    ASSUME call \in Calls, WellFormed, Ordered, Started, Masked, NEW k \in Left
    PROVE  /\ starts[k] = RightLen => RowPairs(k) = {}
           /\ starts[k] # RightLen => RowPairs(k) = {left_order[k]} \X InSecond(k)
           /\ starts[k] # RightLen => left[2][k] # 0
<1>1. /\ {1, 2, 3} \subseteq Axes /\ starts[k] \in 0 .. RightLen
      /\ left_order[k] \in Left
      /\ \A d \in Axes : call.windows[d][left_order[k]] \in 0 .. RightLen
    BY AxesFacts, LeftLabelFacts DEF Started, Boundaries
<1>2. LeftInPlay(left_order[k]) <=>
        \A d \in Axes : call.windows[d][left_order[k]] < RightLen
    BY <1>1, LabelFacts, LengthsAssumption DEF LeftInPlay
<1>3. ASSUME NEW j \in Right
      PROVE  RightInPlay(j) <=> \A d \in Axes : \E i \in Left : InWindow(d, i, j)
    <2>1. ASSUME NEW d \in Axes PROVE RightOf(d, j) # 0 <=> \E i \in Left : InWindow(d, i, j)
        <3>1. RightOf(d, j) = Cardinality(Begun(call.windows[d], Aligned(d, j)))
            BY AxesFacts DEF RightOf, RightLabels
        <3>2. Begun(call.windows[d], Aligned(d, j)) \in SUBSET Left
            BY DEF Begun
        <3>3. RightOf(d, j) = 0 <=> Begun(call.windows[d], Aligned(d, j)) = {}
            BY <3>1, <3>2, LeftFinite, FS_EmptySet
        <3> QED
            BY <3>3 DEF Begun, InWindow
    <2> QED
        BY <2>1 DEF RightInPlay
<1>4. ASSUME NEW j
      PROVE  <<left_order[k], j>> \in SweepPairs <=>
                /\ j \in Right /\ LeftInPlay(left_order[k]) /\ RightInPlay(j)
                /\ InWindow(1, left_order[k], j) /\ InWindow(2, left_order[k], j)
    BY <1>1, <1>2, <1>3 DEF SweepPairs
<1>5. ASSUME NEW j
      PROVE  j \in InSecond(k) <=>
                /\ j \in Right /\ starts[k] <= j
                /\ right[2][j] # 0 /\ left[2][k] <= right[2][j]
    BY <1>1, LengthsAssumption DEF InSecond, Right
<1>6. CASE left[1][k] = 0
    <2>1. starts[k] = RightLen /\ ~LeftInPlay(left_order[k])
        BY <1>1, <1>6, LeftLabelFacts DEF Started
    <2> QED
        BY <1>4, <2>1 DEF RowPairs, SweepPairs
<1>7. CASE left[1][k] # 0
    <2>1. /\ LeftInPlay(left_order[k]) /\ left[2][k] = LeftOf(2, left_order[k])
          /\ left[2][k] # 0 /\ left[2][k] \in Nat
        BY <1>1, <1>7, LeftLabelFacts
    <2>2. ASSUME NEW j PROVE j \in InSecond(k) <=> <<left_order[k], j>> \in SweepPairs
        <3>1. CASE j \in Right
            <4>1. starts[k] <= j <=> InWindow(1, left_order[k], j)
                BY <1>7, <3>1 DEF Started
            <4>2. InWindow(2, left_order[k], j) <=> left[2][k] <= RightOf(2, j)
                BY <1>1, <2>1, <3>1, LabelFacts
            <4>3. /\ right[2][j] # 0 <=> RightInPlay(j)
                  /\ RightInPlay(j) => right[2][j] = RightOf(2, j)
                BY <1>1, <3>1, RightLabelFacts
            <4> QED
                BY <1>4, <1>5, <2>1, <3>1, <4>1, <4>2, <4>3
        <3> QED
            BY <1>4, <1>5, <3>1
    <2>3. RowPairs(k) = {left_order[k]} \X InSecond(k)
        BY <2>2 DEF RowPairs, SweepPairs
    <2>4. starts[k] = RightLen => InSecond(k) = {}
        BY <1>5, LengthsAssumption DEF Right
    <2> QED
        BY <2>1, <2>3, <2>4
<1> QED
    BY <1>6, <1>7

\* Counting one row more.
LEMMA PlanGrows ==
    ASSUME call \in Calls, WellFormed, Ordered, Started, Masked, NEW k \in Left
    PROVE  Cardinality(PlanPairs(k + 1)) =
                Cardinality(PlanPairs(k)) + (IF starts[k] = RightLen THEN 0 ELSE SweepWork(k))
<1>1. \A m, n \in Left : left_order[m] = left_order[n] => m = n
    BY DEF Ordered, Permutations
<1>2. PlanPairs(k + 1) = PlanPairs(k) \union RowPairs(k)
    <2>1. \A m \in Left : m < k + 1 <=> m < k \/ m = k
        BY DEF Left
    <2> QED
        BY <2>1 DEF PlanPairs, RowPairs
<1>3. PlanPairs(k) \cap RowPairs(k) = {}
    BY <1>1 DEF PlanPairs, RowPairs, Left
<1>4. /\ PlanPairs(k) \in SUBSET SweepPairs /\ RowPairs(k) \in SUBSET SweepPairs
      /\ PlanPairs(k + 1) \in SUBSET SweepPairs
    BY DEF PlanPairs, RowPairs
<1>5. /\ IsFiniteSet(PlanPairs(k)) /\ IsFiniteSet(RowPairs(k))
      /\ Cardinality(PlanPairs(k)) \in Nat
    BY <1>4, PairsFinite
<1>6. Cardinality(PlanPairs(k + 1)) = Cardinality(PlanPairs(k)) + Cardinality(RowPairs(k))
    BY <1>2, <1>3, <1>5, DisjointUnion
<1>7. Cardinality(RowPairs(k)) = IF starts[k] = RightLen THEN 0 ELSE SweepWork(k)
    <2>1. CASE starts[k] = RightLen
        BY <2>1, RowIsCounted, FS_EmptySet
    <2>2. CASE starts[k] # RightLen
        <3>1. RowPairs(k) = {left_order[k]} \X InSecond(k)
            BY <2>2, RowIsCounted
        <3>2. InSecond(k) \in SUBSET Right
            BY LengthsAssumption DEF InSecond, Right, Started, Boundaries
        <3>3. IsFiniteSet(InSecond(k)) /\ Cardinality(InSecond(k)) \in Nat
            BY <3>2, RightFinite, FS_CardinalityType
        <3>4. IsFiniteSet({left_order[k]}) /\ Cardinality({left_order[k]}) = 1
            BY FS_Singleton
        <3>5. Cardinality(RowPairs(k)) =
                Cardinality({left_order[k]}) * Cardinality(InSecond(k))
            BY <3>1, <3>3, <3>4, FS_Product
        <3> QED
            BY <2>2, <3>3, <3>4, <3>5 DEF SweepWork
    <2> QED
        BY <2>1, <2>2
<1> QED
    BY <1>6, <1>7

LEMMA PlanInit == Init => PlanInv
<1> SUFFICES ASSUME Init PROVE PlanInv
    OBVIOUS
<1>1. generator = None /\ generator \notin {"sweep", "left", "right"}
    BY NRegionAssumption DEF Init
<1> QED
    BY <1>1 DEF Init, PlanInv, PlanIsExact

LEMMA PlanNextKeeps ==
    ASSUME VisitInv, PlanInv, [Next]_vars
    PROVE  PlanInv'
<1> USE DEF Before
<1>0. SweepPairs' = SweepPairs /\ call' = call
    <2>1. call' = call
        BY DEF Next, EntryNext, Enter, OpenSet, PathsNext, BuildPaths, OrderLeft, FindStarts,
            MaskRight, ReturnNone, PlanNext, Probe, PlanRow, PlanSweep, PlanTree, VisitNext,
            QueryTree, SkipInactive, SweepRow, Reject, Select, Count, Emit, Feed, EndNext,
            EndSelect, OutputRow, EndOutput, EndCount, EndEmit, EndFeed
    <2> QED
        BY <2>1 DEF SweepPairs, InWindow, Aligned, Axes
<1>1. CASE EntryNext \/ PathsNext \/ VisitNext \/ EndNext \/ UNCHANGED vars
    <2>1. /\ UNCHANGED planVars
          /\ pc' \in Before => pc \in Before
          /\ pc' = "plan" => pc = "right" \/ UNCHANGED vars
          /\ pc' = "tree" => UNCHANGED vars
        <3>1. CASE EntryNext
            BY <3>1 DEF EntryNext, Enter, OpenSet
        <3>2. CASE PathsNext
            BY <3>2 DEF PathsNext, BuildPaths, OrderLeft, FindStarts, MaskRight, ReturnNone
        <3>3. CASE VisitNext
            BY <3>3, VisitKeeps DEF Passes
        <3>4. CASE EndNext
            BY <3>4 DEF EndNext, EndSelect, OutputRow, EndOutput, EndCount, EndEmit, EndFeed
        <3>5. CASE UNCHANGED vars
            BY <3>5
        <3> QED
            BY <1>1, <3>1, <3>2, <3>3, <3>4, <3>5
    <2>2. PlanIsExact'
        BY <1>0, <2>1 DEF PlanInv, PlanIsExact
    <2>3. CASE UNCHANGED vars
        <3>1. PlanPairs(outer)' = PlanPairs(outer)
            BY <1>0, <2>3 DEF PlanPairs
        <3> QED
            BY <1>0, <2>2, <2>3, <3>1 DEF PlanInv
    <2>4. CASE ~UNCHANGED vars
        <3>1. pc' = "plan" => total' = 0 /\ outer' = 0
            <4>1. PathsNext => outer' = outer
                BY DEF PathsNext, BuildPaths, OrderLeft, FindStarts, MaskRight, ReturnNone
            <4>2. pc = "right" => outer = 0 /\ total = 0
                BY DEF VisitInv, SweepInv, PlanInv
            <4>3. pc = "right" => PathsNext
                BY <1>1, <2>4 DEF EntryNext, Enter, OpenSet, VisitNext, QueryTree, SkipInactive,
                    SweepRow, Reject, Select, Count, Emit, Feed, Passes, EndNext, EndSelect,
                    OutputRow, EndOutput, EndCount, EndEmit, EndFeed, Visited
            <4> QED
                BY <2>1, <2>4, <4>1, <4>2, <4>3
        <3>2. outer' = 0 => Cardinality(PlanPairs(outer)') = 0
            BY FS_EmptySet DEF PlanPairs, Left
        <3>3. call.limit \in Nat
            BY CallFields DEF VisitInv, PathInv
        <3> QED
            BY <1>0, <2>1, <2>2, <2>4, <3>1, <3>2, <3>3 DEF PlanInv
    <2> QED
        BY <2>3, <2>4
<1>2. CASE Probe
    <2>1. /\ pc = "probe" /\ total' = total /\ outer' = outer
          /\ \/ pc' = "plan" /\ generator' = generator
             \/ generator' = "sweep" /\ pc' \in {"open", "count", "select"}
        BY <1>2 DEF Probe, FirstPass
    <2>2. call.keep = "any" /\ total = 0 /\ outer = 0 /\ call.limit \in Nat
        BY <2>1, CallFields DEF VisitInv, PathInv, PassInv, SweepInv, PlanInv
    <2>3. Cardinality(PlanPairs(outer)') = 0
        <3>1. outer' = 0 /\ \A k \in Left : ~(k < 0)
            BY <2>1, <2>2 DEF Left
        <3>2. PlanPairs(outer)' = {}
            BY <3>1 DEF PlanPairs
        <3> QED
            BY <3>2, FS_EmptySet
    <2> QED
        BY <1>0, <2>1, <2>2, <2>3 DEF PlanInv, PlanIsExact
<1>3. CASE PlanRow
    <2>1. /\ pc = "plan" /\ outer \in Left /\ outer' = outer + 1 /\ UNCHANGED pathVars
          /\ generator' = generator /\ total = Cardinality(PlanPairs(outer))
          /\ total <= call.limit /\ total \in Nat
        BY <1>3, LengthsAssumption DEF PlanRow, VisitInv, SweepInv, PlanInv, Left
    <2>2. call \in Calls /\ WellFormed /\ Ordered /\ Started /\ Masked
        BY <2>1 DEF VisitInv, PathInv, Passing
    <2>3. PlanPairs(outer)' = PlanPairs(outer + 1)
        BY <1>0, <2>1 DEF PlanPairs
    <2>4. total' = Cardinality(PlanPairs(outer + 1))
        BY <1>3, <2>1, <2>2, PlanGrows, RowIsCounted DEF PlanRow
    <2>5. /\ PlanPairs(outer + 1) \in SUBSET SweepPairs /\ total' \in Nat
          /\ total' <= Cardinality(SweepPairs) /\ Cardinality(SweepPairs) \in Nat
        BY <2>4, PairsFinite DEF PlanPairs
    <2>6. call.limit \in Nat
        BY <2>2, CallFields
    <2>7. \/ pc' = "plan" /\ total' <= call.limit
          \/ pc' = "tree" /\ total' > call.limit
          \/ pc' = "error"
        BY <1>3, <2>1, <2>5, <2>6 DEF PlanRow, Open
    <2> QED
        BY <1>0, <2>1, <2>3, <2>4, <2>5, <2>6, <2>7 DEF PlanInv, PlanIsExact
<1>4. CASE PlanSweep
    <2>1. /\ pc = "plan" /\ outer = LeftLen /\ generator' = "sweep" /\ total' = total
          /\ pc' \in {"open", "count", "select"}
          /\ total = Cardinality(PlanPairs(outer)) /\ total <= call.limit
        BY <1>4 DEF PlanSweep, FirstPass, PlanInv
    <2>2. PlanPairs(outer) = SweepPairs
        <3>1. left_order \in Permutations(Left)
            BY <2>1 DEF VisitInv, PathInv, Passing, Ordered
        <3>2. \A p \in SweepPairs : \E k \in Left : left_order[k] = p[1]
            BY <3>1, PermutationIsOnto DEF SweepPairs
        <3>3. \A k \in Left : k < outer
            BY <2>1, LengthsAssumption DEF Left
        <3> QED
            BY <3>2, <3>3 DEF PlanPairs
    <2> QED
        BY <1>0, <2>1, <2>2 DEF PlanInv, PlanIsExact
<1>5. CASE PlanTree
    <2>1. /\ pc = "tree" /\ generator' \in {"left", "right"} /\ total' = total
          /\ pc' \in {"open", "count", "select"}
        BY <1>5 DEF PlanTree, FirstPass
    <2> QED
        BY <1>0, <2>1 DEF PlanInv, PlanIsExact
<1> QED
    BY <1>1, <1>2, <1>3, <1>4, <1>5 DEF Next, PlanNext

\* The count that sweep_candidate_count_exceeds keeps row by row, with an early
\* exit, over ordered and masked labels, is the number of pairs of original rows
\* in both first windows among those in play: without a probe the sweep runs
\* exactly when they are within the budget.
THEOREM PlanIsExactTheorem == Spec => []PlanIsExact
<1>1. Init => VisitInv /\ PlanInv
    BY VisitInit, PlanInit
<1>2. VisitInv /\ PlanInv /\ [Next]_vars => (VisitInv /\ PlanInv)'
    BY VisitStep, PlanNextKeeps
<1>3. PlanInv => PlanIsExact
    BY DEF PlanInv
<1> QED
    BY <1>1, <1>2, <1>3, PTL DEF Spec

-----------------------------------------------------------------------------
\* The row that a keep policy chooses.

\* selected[i] is what the policy allows among the rows S.
ChosenFrom(i, S) ==
    IF S = {} THEN selected[i] = None
    ELSE /\ selected[i] \in S
         /\ call.keep = "first" =>
                \A j \in S : call.right_index[selected[i]] <= call.right_index[j]
         /\ call.keep = "last" =>
                \A j \in S : call.right_index[selected[i]] >= call.right_index[j]

SelectInv ==
    /\ selected \in [Left -> Right \union {None}]
    /\ pc \in Before \union {"plan", "tree"} => \A i \in Left : selected[i] = None
    /\ pc = "select" => \A i \in Left : ChosenFrom(i, Seen(i))
    /\ pc = "output" => \A i \in Left : ChosenFrom(i, All(i))

LEMMA SelectInit == Init => SelectInv
<1> QED
    BY DEF Init, SelectInv

\* A candidate takes the place of the row chosen among those before it.
LEMMA Choosing ==
    ASSUME VisitInv, SelectInv, Select
    PROVE  SelectInv'
<1>1. /\ pc = "select" /\ pc' = pc /\ outer' = outer /\ UNCHANGED pathVars /\ UNCHANGED planVars
      /\ call' = call /\ Running /\ CandidateInv
      /\ \A i \in Left : ChosenFrom(i, Seen(i))
      /\ selected \in [Left -> Right \union {None}]
      /\ call.right_index \in [Right -> Int]
    BY RunningPass, CallFields DEF Select, VisitInv, SelectInv, Passes, PathInv
<1>2. PICK c \in candidates :
        /\ Accepted(Pair(c)) /\ GoOn(c, call.keep = "any")
        /\ selected' = IF Preferred(Pair(c))
                       THEN [selected EXCEPT ![Pair(c).i] = Pair(c).j] ELSE selected
    BY DEF Select
<1> DEFINE p == Pair(c)
<1>3. p.i \in Left /\ p.j \in Right /\ p.j \in All(p.i)
    BY <1>1, <1>2 DEF CandidateInv, All, Wanted, Accepted, Passes
<1>4. CASE call.keep = "any"
    <2>1. candidates' = {} /\ generator # "left"
        BY <1>1, <1>2, <1>4 DEF GoOn, VisitInv, PassInv, Passes
    <2>2. \A i \in Left : Seen(i)' = IF i = p.i THEN All(i) ELSE Seen(i)
        BY <1>1, <2>1, Stopping
    <2>3. selected' = [selected EXCEPT ![p.i] = p.j]
        BY <1>2, <1>4 DEF Preferred
    <2> HIDE DEF p
    <2>4. ASSUME NEW i \in Left PROVE ChosenFrom(i, Seen(i))'
        <3>1. CASE i = p.i
            BY <1>1, <1>3, <1>4, <2>2, <2>3, <3>1 DEF ChosenFrom
        <3>2. CASE i # p.i
            BY <1>1, <1>3, <1>4, <2>2, <2>3, <3>2 DEF ChosenFrom
        <3> QED
            BY <3>1, <3>2
    <2>5. selected' \in [Left -> Right \union {None}]
        BY <1>1, <1>3, <2>3
    <2> QED
        BY <1>1, <2>4, <2>5 DEF SelectInv, Before
<1>5. CASE call.keep # "any"
    <2>1. candidates' = candidates \ {c}
        BY <1>2, <1>5 DEF GoOn
    <2>2. \A i \in Left : Seen(i)' = Seen(i) \union {j \in {p.j} : i = p.i /\ Accepted(p)}
        BY <1>1, <2>1, HandingOver
    <2>3. \A i \in Left : Seen(i)' = IF i = p.i THEN Seen(i) \union {p.j} ELSE Seen(i)
        BY <1>2, <2>2
    <2>4. \A i \in Left : Seen(i) \in SUBSET Right
        BY DEF Seen
    <2>5. selected' = IF \/ selected[p.i] = None
                         \/ /\ call.keep = "first"
                            /\ call.right_index[p.j] < call.right_index[selected[p.i]]
                         \/ /\ call.keep = "last"
                            /\ call.right_index[p.j] > call.right_index[selected[p.i]]
                      THEN [selected EXCEPT ![p.i] = p.j] ELSE selected
        BY <1>2, <1>5 DEF Preferred
    <2>6. None \notin Right
        BY NRegionAssumption
    <2> HIDE DEF p
    <2>7. ASSUME NEW i \in Left PROVE ChosenFrom(i, Seen(i))'
        <3>1. CASE i # p.i
            BY <1>1, <1>3, <2>3, <2>5, <3>1 DEF ChosenFrom
        <3>2. CASE i = p.i /\ Seen(i) = {}
            BY <1>1, <1>3, <2>3, <2>5, <3>2 DEF ChosenFrom
        <3>3. CASE i = p.i /\ Seen(i) # {}
            <4>1. /\ selected[i] \in Seen(i) /\ selected[i] \in Right /\ selected[i] # None
                  /\ call.keep = "first" => \A j \in Seen(i) :
                        call.right_index[selected[i]] <= call.right_index[j]
                  /\ call.keep = "last" => \A j \in Seen(i) :
                        call.right_index[selected[i]] >= call.right_index[j]
                BY <1>1, <2>4, <2>6, <3>3 DEF ChosenFrom
            <4>2. Seen(i)' = Seen(i) \union {p.j}
                BY <2>3, <3>3
            <4>3. \A j \in Right : call.right_index[j] \in Int
                BY <1>1
            <4>4. CASE selected' = selected
                BY <1>1, <1>3, <2>4, <2>5, <3>3, <4>1, <4>2, <4>3, <4>4 DEF ChosenFrom
            <4>5. CASE selected' # selected
                <5>1. selected'[i] = p.j
                    BY <1>1, <2>5, <3>3, <4>5
                <5>2. /\ call.keep = "first" =>
                            call.right_index[p.j] < call.right_index[selected[i]]
                      /\ call.keep = "last" =>
                            call.right_index[p.j] > call.right_index[selected[i]]
                    BY <2>5, <3>3, <4>1, <4>5
                <5>3. \A j \in Seen(i)' :
                        /\ call.keep = "first" =>
                            call.right_index[p.j] <= call.right_index[j]
                        /\ call.keep = "last" =>
                            call.right_index[p.j] >= call.right_index[j]
                    BY <1>3, <2>4, <4>1, <4>2, <4>3, <5>2
                <5> QED
                    BY <1>1, <4>2, <5>1, <5>3 DEF ChosenFrom
            <4> QED
                BY <4>4, <4>5
        <3> QED
            BY <3>1, <3>2, <3>3
    <2>8. selected' \in [Left -> Right \union {None}]
        BY <1>1, <1>3, <2>5
    <2> QED
        BY <1>1, <2>7, <2>8 DEF SelectInv, Before
<1> QED
    BY <1>4, <1>5

LEMMA SelectNext ==
    ASSUME VisitInv, SelectInv, [Next]_vars
    PROVE  SelectInv'
<1> USE DEF Before
<1>1. CASE Select
    BY <1>1, Choosing
<1>2. CASE QueryTree \/ SkipInactive \/ SweepRow \/ Reject
    <2>1. /\ pc \in Passes /\ (pc' = pc \/ pc' = "error") /\ selected' = selected
          /\ UNCHANGED pathVars /\ call' = call
        BY <1>2, VisitKeeps DEF VisitNext, QueryTree, SkipInactive, SweepRow, Reject
    <2>2. pc' = pc => \A i \in Left : Seen(i)' = Seen(i)
        BY <1>2, <2>1, RunningPass, RejectKeeps, EnteringKeeps DEF Entering, VisitInv
    <2>3. pc' = pc => \A i \in Left : ChosenFrom(i, Seen(i))' <=> ChosenFrom(i, Seen(i))
        BY <2>1, <2>2 DEF ChosenFrom
    <2> QED
        BY <2>1, <2>3 DEF SelectInv, Passes
<1>3. CASE EntryNext \/ PathsNext \/ PlanNext
    <2>1. /\ pc \in Before \union {"open", "plan", "tree"} /\ selected' = selected
          /\ pc' # "output" /\ (pc' = "select" => pc \in {"probe", "plan", "tree"} /\ outer' = 0)
          /\ (pc' \in Before \union {"plan", "tree"} => pc # "open")
        BY <1>3 DEF EntryNext, Enter, OpenSet, PathsNext, BuildPaths, OrderLeft, FindStarts,
            MaskRight, ReturnNone, PlanNext, Probe, PlanRow, PlanSweep, PlanTree, Open, Rewind,
            FirstPass, VisitInv, SweepInv
    <2>2. pc' = "select" => \A i \in Left : ChosenFrom(i, Seen(i))'
        <3>1. pc' = "select" => \A i \in Left : Seen(i)' = {} /\ selected'[i] = None
            BY <2>1, RewoundSeesNothing DEF SelectInv
        <3> QED
            BY <3>1 DEF ChosenFrom
    <2> QED
        BY <2>1, <2>2 DEF SelectInv
<1>4. CASE EndSelect
    <2>1. /\ pc = "select" /\ candidates = {} /\ outer \notin OuterRows /\ selected' = selected
          /\ UNCHANGED pathVars /\ pc' \in {"none", "output"} /\ call' = call
        BY <1>4 DEF EndSelect, Visited
    <2>2. \A i \in Left : Seen(i) = All(i) /\ All(i)' = All(i)
        BY <2>1, RunningPass, EverythingSeen, AllStays DEF VisitInv, Passes
    <2>3. \A i \in Left : ChosenFrom(i, All(i))'
        BY <2>1, <2>2 DEF SelectInv, ChosenFrom
    <2> QED
        BY <2>1, <2>3 DEF SelectInv
<1>5. CASE OutputRow \/ UNCHANGED vars
    <2>1. /\ pc' = pc /\ selected' = selected /\ UNCHANGED pathVars /\ call' = call
        BY <1>5 DEF OutputRow
    <2>2. pc = "select" => \A i \in Left : Seen(i)' = Seen(i)
        BY <1>5, <2>1 DEF OutputRow, Seen, Behind, Turn, Other, Wanted, Dominated, Axes
    <2>3. /\ pc = "select" => \A i \in Left : ChosenFrom(i, Seen(i))' <=> ChosenFrom(i, Seen(i))
          /\ \A i \in Left : ChosenFrom(i, All(i))' <=> ChosenFrom(i, All(i))
        BY <2>1, <2>2, AllStays DEF ChosenFrom
    <2> QED
        BY <2>1, <2>3 DEF SelectInv
<1>6. CASE Count \/ Emit \/ Feed \/ EndOutput \/ EndCount \/ EndEmit \/ EndFeed
    <2>1. /\ selected' = selected
          /\ pc' \notin Before \union {"plan", "tree", "select", "output"}
        BY <1>6 DEF Count, Emit, Feed, EndOutput, EndCount, EndEmit, EndFeed, Visited
    <2> QED
        BY <2>1 DEF SelectInv
<1> QED
    BY <1>1, <1>2, <1>3, <1>4, <1>5, <1>6 DEF Next, VisitNext, EndNext

-----------------------------------------------------------------------------
\* What has been put out.

NamesDiffer == \A j, k \in Right : Named(j) = Named(k) => j = k

\* Right rows that can be told apart are put out once for a left row.
NoPairTwice == NamesDiffer => \A m, n \in DOMAIN left_output : PairAt(m) = PairAt(n) => m = n

\* The pass has put the pair out.
Written(i, j) ==
    \/ pc \in {"emit", "feed"} /\ j \in Seen(i)
    \/ pc = "output" /\ i < outer /\ selected[i] # None /\ j = selected[i]

IsPair(n, i, j) == PairAt(n) = <<left_order[i], Named(j)>>

\* Exactly what the pass has reached has been put out.
OutInv ==
    /\ left_output \in Seq(Int) /\ right_output \in Seq(Int)
    /\ Len(left_output) = Len(right_output)
    /\ pc \notin Closed =>
        /\ \A n \in DOMAIN left_output :
            \E i \in Left, j \in Right : Written(i, j) /\ IsPair(n, i, j)
        /\ \A i \in Left, j \in Right : Written(i, j) =>
            \E n \in DOMAIN left_output : IsPair(n, i, j)
    /\ NoPairTwice

LEMMA NamesStay ==
    ASSUME call' = call
    PROVE  /\ \A j : Named(j)' = Named(j)
           /\ NamesDiffer' = NamesDiffer
<1> QED
    BY DEF Named, NamesDiffer, Aggregating

\* One pair more.
LEMMA PairPutOut ==
    ASSUME OutInv, call' = call, left_order' = left_order, pc' = pc, pc \notin Closed,
           left_order \in Permutations(Left), call.right_index \in [Right -> Int],
           NEW i \in Left, NEW j \in Right, ~Written(i, j),
           \A k \in Left, m \in Right : Written(k, m)' <=> Written(k, m) \/ (k = i /\ m = j),
           NEW a \in Int, NEW b \in Int,
           <<a, b>> = IF call.entry = "aggregate_reverse" THEN <<Named(j), left_order[i]>>
                      ELSE <<left_order[i], Named(j)>>,
           left_output' = Append(left_output, a), right_output' = Append(right_output, b)
    PROVE  OutInv'
<1> DEFINE N == Len(left_output)
<1>1. /\ left_output \in Seq(Int) /\ right_output \in Seq(Int) /\ Len(right_output) = N
      /\ N \in Nat /\ DOMAIN left_output = 1 .. N
    BY DEF OutInv
<1>2. /\ left_output' \in Seq(Int) /\ right_output' \in Seq(Int)
      /\ Len(left_output') = N + 1 /\ Len(right_output') = N + 1
      /\ DOMAIN left_output' = 1 .. N + 1
      /\ \A n \in 1 .. N : left_output'[n] = left_output[n] /\ right_output'[n] = right_output[n]
      /\ left_output'[N + 1] = a /\ right_output'[N + 1] = b
    BY <1>1
<1> HIDE DEF N
<1>3. \A n \in 1 .. N : PairAt(n)' = PairAt(n)
    BY <1>2 DEF PairAt
<1>4. \A n : n = N + 1 => PairAt(n)' = <<left_order[i], Named(j)>>
    BY <1>2 DEF PairAt
<1>5. \A m : Named(m)' = Named(m)
    BY NamesStay
<1>6. /\ \A k, m : \A n \in 1 .. N : IsPair(n, k, m)' <=> IsPair(n, k, m)
      /\ \A n, k, m : n = N + 1 =>
            (IsPair(n, k, m)' <=> <<left_order[i], Named(j)>> = <<left_order[k], Named(m)>>)
    BY <1>3, <1>4, <1>5 DEF IsPair
<1>7. ASSUME NEW n \in 1 .. N + 1
      PROVE  \E k \in Left, m \in Right : Written(k, m)' /\ IsPair(n, k, m)'
    <2>1. CASE n = N + 1
        BY <1>6, <2>1
    <2>2. CASE n # N + 1
        <3>1. n \in 1 .. N
            BY <1>1, <2>2
        <3>2. PICK k \in Left, m \in Right : Written(k, m) /\ IsPair(n, k, m)
            BY <1>1, <3>1 DEF OutInv
        <3> QED
            BY <1>6, <3>1, <3>2
    <2> QED
        BY <2>1, <2>2
<1>8. ASSUME NEW k \in Left, NEW m \in Right, Written(k, m)'
      PROVE  \E n \in 1 .. N + 1 : IsPair(n, k, m)'
    <2>0. N + 1 \in 1 .. N + 1 /\ \A n \in 1 .. N : n \in 1 .. N + 1
        BY <1>1
    <2>1. CASE k = i /\ m = j
        BY <1>6, <2>0, <2>1
    <2>2. CASE Written(k, m)
        <3>1. PICK n \in 1 .. N : IsPair(n, k, m)
            BY <1>1, <2>2 DEF OutInv
        <3> QED
            BY <1>6, <2>0, <3>1
    <2> QED
        BY <1>8, <2>1, <2>2
<1>9. NoPairTwice'
    <2>1. SUFFICES ASSUME NamesDiffer
                   PROVE  \A m, n \in 1 .. N + 1 : PairAt(m)' = PairAt(n)' => m = n
        BY <1>2, NamesStay DEF NoPairTwice
    <2>2. ASSUME NEW n \in 1 .. N, PairAt(n) = <<left_order[i], Named(j)>> PROVE FALSE
        <3>1. PICK k \in Left, m \in Right : Written(k, m) /\ IsPair(n, k, m)
            BY <1>1 DEF OutInv
        <3>2. left_order[k] = left_order[i] /\ Named(m) = Named(j)
            BY <2>2, <3>1 DEF IsPair
        <3>3. k = i /\ m = j
            BY <2>1, <3>2 DEF NamesDiffer, Permutations
        <3> QED
            BY <3>1, <3>3
    <2>3. \A m, n \in 1 .. N : PairAt(m) = PairAt(n) => m = n
        BY <1>1, <2>1 DEF OutInv, NoPairTwice
    <2>4. \A n \in 1 .. N + 1 : n \in 1 .. N \/ n = N + 1
        BY <1>1
    <2> QED
        BY <1>3, <1>4, <2>2, <2>3, <2>4
<1> QED
    BY <1>2, <1>7, <1>8, <1>9 DEF OutInv

\* Nothing put out, and nothing reached.
LEMMA NothingPutOut ==
    ASSUME OutInv, call' = call, left_order' = left_order, UNCHANGED outVars,
           \/ pc' \in Closed
           \/ pc \notin Closed /\ \A i \in Left, j \in Right : Written(i, j)' <=> Written(i, j)
    PROVE  OutInv'
<1>1. /\ \A n : PairAt(n)' = PairAt(n)
      /\ \A n, k, m : IsPair(n, k, m)' <=> IsPair(n, k, m)
    BY NamesStay DEF PairAt, IsPair
<1>2. NoPairTwice'
    BY <1>1, NamesStay DEF NoPairTwice, OutInv
<1> QED
    BY <1>1, <1>2 DEF OutInv

LEMMA OutInit == Init => OutInv
<1> SUFFICES ASSUME Init PROVE OutInv
    OBVIOUS
<1>1. left_output = <<>> /\ right_output = <<>> /\ pc = "enter"
    BY DEF Init
<1>2. \A i, j : ~Written(i, j)
    BY <1>1 DEF Written
<1> QED
    BY <1>1, <1>2 DEF OutInv, NoPairTwice

\* A visited pair goes out as it is handed over.
LEMMA PassPutsOut ==
    ASSUME VisitInv, OutInv, Emit \/ Feed
    PROVE  OutInv'
<1>1. /\ pc \in {"emit", "feed"} /\ pc' = pc /\ outer' = outer /\ UNCHANGED pathVars
      /\ UNCHANGED planVars /\ call' = call /\ left_order' = left_order
      /\ Running /\ CandidateInv /\ pc \notin Closed
    BY RunningPass DEF Emit, Feed, VisitInv, Passes, Closed
<1>2. PICK c \in candidates :
        /\ Accepted(Pair(c)) /\ candidates' = candidates \ {c}
        /\ IF pc = "emit"
           THEN /\ left_output' = Append(left_output, left_order[Pair(c).i])
                /\ right_output' = Append(right_output, call.right_index[Pair(c).j])
           ELSE /\ left_output' = Append(left_output, Contribution(Pair(c))[1])
                /\ right_output' = Append(right_output, Contribution(Pair(c))[2])
    <2>1. CASE Emit
        BY <2>1 DEF Emit, GoOn
    <2>2. CASE Feed
        BY <2>2 DEF Feed, GoOn
    <2> QED
        BY <2>1, <2>2
<1>3. PICK i \in Left, j \in Right : i = Pair(c).i /\ j = Pair(c).j
    BY <1>1, <1>2, HandingOver
<1>4. ~Written(i, j)
    BY <1>1, <1>2, <1>3, HandingOver DEF Written
<1>5. ASSUME NEW k \in Left, NEW m \in Right
      PROVE  Written(k, m)' <=> Written(k, m) \/ (k = i /\ m = j)
    <2>1. Seen(k)' = Seen(k) \union {n \in {j} : k = i}
        BY <1>1, <1>2, <1>3, HandingOver
    <2>2. (Written(k, m)' <=> m \in Seen(k)') /\ (Written(k, m) <=> m \in Seen(k))
        BY <1>1 DEF Written
    <2> QED
        BY <2>1, <2>2
<1>6. /\ left_order \in Permutations(Left) /\ left_order[i] \in Int /\ j \in Int
      /\ call.right_index \in [Right -> Int]
      /\ pc = "emit" => ~Aggregating
      /\ pc = "feed" => Aggregating
    BY <1>1, CallFields DEF Running, Ordered, Permutations, VisitInv, PassInv, Left, Right
<1>7. CASE pc = "emit"
    <2>1. Named(j) = call.right_index[j] /\ call.entry # "aggregate_reverse" /\ Named(j) \in Int
        BY <1>6, <1>7 DEF Named, Aggregating
    <2>2. PICK a \in Int, b \in Int : a = left_order[i] /\ b = Named(j)
        BY <1>6, <2>1
    <2>3. left_output' = Append(left_output, a) /\ right_output' = Append(right_output, b)
        BY <1>2, <1>3, <1>7, <2>1, <2>2
    <2> QED
        BY <1>1, <1>4, <1>5, <1>6, <2>1, <2>2, <2>3, PairPutOut
<1>8. CASE pc = "feed"
    <2>1. Named(j) = j
        BY <1>6, <1>8 DEF Named
    <2>2. Contribution(Pair(c)) = IF call.entry = "aggregate_reverse" THEN <<j, left_order[i]>>
                                  ELSE <<left_order[i], j>>
        BY <1>3 DEF Contribution
    <2>3. PICK a \in Int, b \in Int : <<a, b>> = Contribution(Pair(c))
        BY <1>6, <2>2
    <2>4. left_output' = Append(left_output, a) /\ right_output' = Append(right_output, b)
        <3>1. Contribution(Pair(c))[1] = a /\ Contribution(Pair(c))[2] = b
            BY <2>2, <2>3
        <3> QED
            BY <1>2, <1>8, <3>1
    <2>5. <<a, b>> = IF call.entry = "aggregate_reverse" THEN <<Named(j), left_order[i]>>
                     ELSE <<left_order[i], Named(j)>>
        BY <2>1, <2>2, <2>3
    <2> QED
        BY <1>1, <1>4, <1>5, <1>6, <2>4, <2>5, PairPutOut
<1> QED
    BY <1>1, <1>7, <1>8

\* A chosen row goes out once.
LEMMA OutputPutsOut ==
    ASSUME VisitInv, SelectInv, OutInv, OutputRow
    PROVE  OutInv'
<1>1. /\ pc = "output" /\ pc' = pc /\ outer \in Left /\ outer' = outer + 1
      /\ call' = call /\ left_order' = left_order /\ selected' = selected /\ pc \notin Closed
      /\ call \in Calls /\ Ordered
    BY LengthsAssumption DEF OutputRow, Closed, Left, VisitInv, SweepInv, PathInv, Passing
<1>2. \A m : \A k \in Left : Written(k, m)' <=>
            Written(k, m) \/ (k = outer /\ selected[k] # None /\ m = selected[k])
    <2>1. \A k \in Left : k < outer + 1 <=> k < outer \/ k = outer
        BY <1>1 DEF Left
    <2> QED
        BY <1>1, <2>1 DEF Written
<1>3. CASE selected[outer] = None
    <2>1. UNCHANGED outVars
        BY <1>3 DEF OutputRow
    <2>2. \A k \in Left, m \in Right : Written(k, m)' <=> Written(k, m)
        BY <1>2, <1>3
    <2> QED
        BY <1>1, <2>1, <2>2, NothingPutOut
<1>4. CASE selected[outer] # None
    <2>1. selected[outer] \in Right
        BY <1>1, <1>4 DEF SelectInv
    <2>2. PICK i \in Left, j \in Right : i = outer /\ j = selected[outer]
        BY <1>1, <2>1
    <2>3. ~Written(i, j)
        BY <1>1, <2>2 DEF Written, Left
    <2>4. \A k \in Left, m \in Right : Written(k, m)' <=> Written(k, m) \/ (k = i /\ m = j)
        BY <1>2, <1>4, <2>2
    <2>5. /\ left_order \in Permutations(Left) /\ left_order[i] \in Int
          /\ call.right_index \in [Right -> Int] /\ ~Aggregating
        BY <1>1, CallFields DEF Ordered, Permutations, VisitInv, PassInv, Left
    <2>6. Named(j) = call.right_index[j] /\ call.entry # "aggregate_reverse" /\ Named(j) \in Int
        BY <2>5 DEF Named, Aggregating
    <2>7. PICK a \in Int, b \in Int : a = left_order[i] /\ b = Named(j)
        BY <2>5, <2>6
    <2>8. left_output' = Append(left_output, a) /\ right_output' = Append(right_output, b)
        BY <1>4, <2>2, <2>6, <2>7 DEF OutputRow
    <2> QED
        BY <1>1, <2>3, <2>4, <2>5, <2>6, <2>7, <2>8, PairPutOut
<1> QED
    BY <1>3, <1>4

LEMMA NothingWritten ==
    ASSUME OutInv, pc \notin Closed, \A i \in Left, j \in Right : ~Written(i, j)
    PROVE  left_output = <<>> /\ right_output = <<>>
<1>1. DOMAIN left_output = {}
    BY DEF OutInv
<1>2. /\ left_output \in Seq(Int) /\ right_output \in Seq(Int)
      /\ Len(left_output) = 0 /\ Len(right_output) = 0
    BY <1>1 DEF OutInv
<1>3. \A s \in Seq(Int) : Len(s) = 0 => s = <<>>
    OBVIOUS
<1> QED
    BY <1>2, <1>3

LEMMA OutNext ==
    ASSUME VisitInv, SelectInv, OutInv, [Next]_vars
    PROVE  OutInv'
<1>1. CASE Emit \/ Feed
    BY <1>1, PassPutsOut
<1>2. CASE OutputRow
    BY <1>2, OutputPutsOut
<1>3. CASE EntryNext \/ PathsNext \/ PlanNext
    <2>1. /\ call' = call /\ UNCHANGED outVars
          /\ pc \in Before \union {"open", "plan", "tree"}
          /\ pc' \in {"emit", "feed"} => pc = "open" /\ outer' = 0
          /\ pc' # "output"
        BY <1>3 DEF EntryNext, Enter, OpenSet, PathsNext, BuildPaths, OrderLeft, FindStarts,
            MaskRight, ReturnNone, PlanNext, Probe, PlanRow, PlanSweep, PlanTree, Open, Rewind,
            FirstPass, VisitInv, SweepInv, Before
    <2>2. \A i, j : ~Written(i, j)
        BY <2>1 DEF Written, Before
    <2>3. \A i \in Left, j \in Right : ~Written(i, j)'
        BY <2>1, RewoundSeesNothing DEF Written
    <2>4. left_output = <<>> /\ right_output = <<>>
        <3>1. pc \notin Closed
            BY <2>1 DEF Before, Closed
        <3> QED
            BY <2>2, <3>1, NothingWritten
    <2>5. left_output' = <<>> /\ right_output' = <<>>
        BY <2>1, <2>4
    <2> QED
        BY <2>3, <2>5 DEF OutInv, NoPairTwice
<1>4. CASE QueryTree \/ SkipInactive \/ SweepRow \/ Reject \/ Select \/ Count
    <2>1. /\ pc \in Passes /\ (pc' = pc \/ pc' = "error") /\ UNCHANGED pathVars
          /\ call' = call /\ left_order' = left_order /\ UNCHANGED outVars
          /\ Select \/ Count => pc' \in {"select", "count"}
        BY <1>4 DEF QueryTree, SkipInactive, SweepRow, Reject, Select, Count, Open, Passes
    <2>2. pc' = pc /\ pc \in {"emit", "feed"} => \A i \in Left : Seen(i)' = Seen(i)
        BY <1>4, <2>1, RunningPass, RejectKeeps, EnteringKeeps DEF Entering, VisitInv
    <2>3. pc' = pc => \A i \in Left, j \in Right : Written(i, j)' <=> Written(i, j)
        BY <2>1, <2>2 DEF Written, Passes
    <2> QED
        BY <2>1, <2>3, NothingPutOut DEF Passes, Closed
<1>5. CASE EndSelect \/ EndCount
    <2>1. /\ pc \in {"select", "count"} /\ pc' \in {"none", "output", "emit"} /\ outer' = 0
          /\ call' = call /\ left_order' = left_order /\ UNCHANGED outVars
        BY <1>5 DEF EndSelect, EndCount, Visited, Rewind
    <2>2. \A i \in Left, j \in Right : ~Written(i, j)'
        BY <2>1, RewoundSeesNothing DEF Written, Left
    <2>3. \A i \in Left, j \in Right : ~Written(i, j)
        BY <2>1 DEF Written
    <2> QED
        BY <2>1, <2>2, <2>3, NothingPutOut DEF Closed
<1>6. CASE EndOutput \/ EndEmit \/ EndFeed
    <2>1. /\ pc' \in Closed /\ call' = call /\ left_order' = left_order /\ UNCHANGED outVars
        BY <1>6 DEF EndOutput, EndEmit, EndFeed, Closed
    <2> QED
        BY <2>1, NothingPutOut
<1>7. CASE UNCHANGED vars
    <2>1. \A i, j : Written(i, j)' <=> Written(i, j)
        BY <1>7 DEF Written, Seen, Behind, Turn, Other, Wanted, Dominated, Axes
    <2>2. pc' = pc /\ call' = call /\ left_order' = left_order /\ UNCHANGED outVars
        BY <1>7
    <2> QED
        BY <2>1, <2>2, NothingPutOut
<1> QED
    BY <1>1, <1>2, <1>3, <1>4, <1>5, <1>6, <1>7 DEF Next, VisitNext, EndNext

-----------------------------------------------------------------------------
\* The join implements RangeJoin.

\* What is known of the arguments.
ValidInv ==
    /\ pc \notin {"enter"} \union Closed => WellFormed /\ (Aggregating => call.requests # <<>>)
    /\ pc = "feed" => Valid

LEMMA ValidInit == Init => ValidInv
<1> QED
    BY DEF Init, ValidInv

LEMMA ValidNext == ValidInv /\ [Next]_vars => ValidInv'
<1> SUFFICES ASSUME ValidInv, [Next]_vars PROVE ValidInv'
    OBVIOUS
<1>1. CASE Enter
    BY <1>1 DEF Enter, ValidInv, WellFormed, Aggregating, Closed
<1>2. CASE OpenSet
    <2>1. call' = call /\ pc = "open" /\ pc' \in {"feed", "refused"}
        BY <1>2 DEF OpenSet
    <2>2. /\ WellFormed' = WellFormed /\ Aggregating' = Aggregating /\ Valid' = Valid
        BY <2>1 DEF WellFormed, Aggregating, Valid, SourceLen
    <2>3. WellFormed /\ (Aggregating => call.requests # <<>>)
        BY <2>1 DEF ValidInv, Closed
    <2>4. pc' = "feed" => Valid
        BY <1>2, <2>3 DEF OpenSet, Valid
    <2> QED
        BY <2>1, <2>2, <2>3, <2>4 DEF ValidInv
<1>3. CASE PathsNext \/ PlanNext \/ VisitNext \/ EndNext \/ UNCHANGED vars
    <2>1. call' = call /\ (pc' = "feed" => pc = "feed") /\ (pc = "enter" => pc' = "enter")
          /\ (pc \in Closed => pc' = pc)
        <3>1. CASE PathsNext
            BY <3>1 DEF PathsNext, BuildPaths, OrderLeft, FindStarts, MaskRight, ReturnNone, Closed
        <3>2. CASE PlanNext
            BY <3>2 DEF PlanNext, Probe, PlanRow, PlanSweep, PlanTree, Open, FirstPass, Closed
        <3>3. CASE VisitNext
            BY <3>3, VisitKeeps DEF Passes, Closed
        <3>4. CASE EndNext
            BY <3>4 DEF EndNext, EndSelect, OutputRow, EndOutput, EndCount, EndEmit, EndFeed,
                Visited, Closed
        <3> QED
            BY <1>3, <3>1, <3>2, <3>3, <3>4
    <2>2. /\ WellFormed' = WellFormed /\ Aggregating' = Aggregating /\ Valid' = Valid
        BY <2>1 DEF WellFormed, Aggregating, Valid, SourceLen
    <2> QED
        BY <2>1, <2>2 DEF ValidInv
<1> QED
    BY <1>1, <1>2, <1>3 DEF Next, EntryNext

\* The candidates that are wanted are the matches.
LEMMA AllIsMatched ==
    ASSUME call \in Calls, WellFormed, Ordered, Masked, NEW i \in Left
    PROVE  All(i) = {j \in Right : Matches(left_order[i], j)}
<1> QED
    BY DominationDecides DEF All, Wanted, Matches

\* Paths that are given up hold no match.
LEMMA EmptyPathsHaveNoMatch ==
    ASSUME PathInv, ReturnNone, NEW i \in Left, NEW j \in Right
    PROVE  ~Matches(i, j)
<1>1. /\ pc \in {"paths", "left", "starts", "right"} /\ call \in Calls /\ WellFormed /\ 1 \in Axes
      /\ pc = "left" => Unordered
      /\ pc \in {"starts", "right"} => Unmatched /\ Ordered
    BY AxesFacts DEF ReturnNone, PathInv
<1>2. SUFFICES \E d \in Axes : ~InWindow(d, i, j)
    BY DEF Matches
<1>3. CASE pc = "paths"
    <2>1. PICK d \in Axes : call.windows[d][i] = RightLen
        BY <1>3 DEF ReturnNone, NoWindow
    <2>2. Aligned(d, j) \in Right
        BY <1>1, AxesFacts
    <2> QED
        BY <2>1, <2>2, LengthsAssumption DEF InWindow, Right
<1>4. CASE pc = "left"
    <2>1. MaskZero(left, Left)[1][i] = 0
        BY <1>4 DEF ReturnNone, AllZero
    <2>2. \A d \in Axes : left[d][i] = LeftOf(d, i)
        BY <1>1, <1>4 DEF Unordered, LeftOf
    <2>3. \E d \in Axes : LeftOf(d, i) = 0
        BY <1>1, <2>1, <2>2 DEF MaskZero
    <2> QED
        BY <1>1, <2>3, LabelFacts
<1>5. CASE pc = "starts"
    <2>1. PICK k \in Left : left_order[k] = i
        BY <1>1, <1>5, PermutationIsOnto DEF Ordered
    <2>2. StartOf(k) = RightLen
        BY <1>5 DEF ReturnNone
    <2>3. CASE left[1][k] = 0
        <3>1. ~LeftInPlay(i)
            BY <1>1, <1>5, <2>1, <2>3, LeftLabelFacts
        <3>2. PICK d \in Axes : LeftOf(d, i) = 0
            BY <3>1 DEF LeftInPlay
        <3> QED
            BY <1>1, <3>2, LabelFacts
    <2>4. CASE left[1][k] # 0
        <3>1. StartOf(k) <= j <=> InWindow(1, i, j)
            BY <1>1, <1>5, <2>1, <2>4, StartsAreExact
        <3> QED
            BY <1>1, <2>2, <3>1, LengthsAssumption DEF Right
    <2> QED
        BY <2>3, <2>4
<1>6. CASE pc = "right"
    <2>1. MaskZero(right, Right)[1][j] = 0
        BY <1>6 DEF ReturnNone, AllZero
    <2>2. \A d \in Axes : right[d][j] = RightOf(d, j)
        BY <1>1, <1>6 DEF Unmatched
    <2>3. PICK d \in Axes : RightOf(d, j) = 0
        BY <1>1, <2>1, <2>2 DEF MaskZero
    <2>4. LeftOf(d, i) \in Nat
        BY <1>1, LabelFacts
    <2> QED
        BY <1>1, <2>3, <2>4, LabelFacts
<1> QED
    BY <1>1, <1>3, <1>4, <1>5, <1>6

\* What has been put out for an original row.
LEMMA EmittedIs ==
    ASSUME OutInv, pc \notin Closed, left_order \in Permutations(Left), NEW i \in Left
    PROVE  Emitted(left_order[i]) = {Named(j) : j \in {k \in Right : Written(i, k)}}
<1> DEFINE W == {Named(j) : j \in {k \in Right : Written(i, k)}}
<1>1. ASSUME NEW x \in Emitted(left_order[i]) PROVE x \in W
    <2>1. PICK n \in DOMAIN left_output : PairAt(n)[1] = left_order[i] /\ x = PairAt(n)[2]
        BY <1>1 DEF Emitted, Places
    <2>2. PICK k \in Left, j \in Right : Written(k, j) /\ IsPair(n, k, j)
        BY DEF OutInv
    <2>3. left_order[k] = left_order[i] /\ x = Named(j)
        BY <2>1, <2>2 DEF IsPair
    <2>4. k = i
        BY <2>3 DEF Permutations
    <2> QED
        BY <2>2, <2>3, <2>4
<1>2. ASSUME NEW j \in Right, Written(i, j) PROVE Named(j) \in Emitted(left_order[i])
    <2>1. PICK n \in DOMAIN left_output : IsPair(n, i, j)
        BY <1>2 DEF OutInv
    <2> QED
        BY <2>1 DEF IsPair, Emitted, Places
<1> QED
    BY <1>1, <1>2

LEMMA NothingEmitted ==
    ASSUME OutInv, pc \notin Closed, \A i \in Left, j \in Right : ~Written(i, j), NEW i \in Left
    PROVE  Emitted(i) = {}
<1>1. left_output = <<>>
    BY NothingWritten
<1> QED
    BY <1>1 DEF Emitted, Places

LEMMA EmittedStays ==
    ASSUME call' = call, UNCHANGED outVars
    PROVE  \A i : Emitted(i)' = Emitted(i)
<1> QED
    BY DEF Emitted, Places, PairAt

Permits(i) == Emitted(i) \in Join!Permitted(call.keep, Request.matches[i])

\* Nothing for a row that matches nothing, or for a call that promises nothing.
LEMMA NothingIsPermitted ==
    ASSUME NEW i \in Left, Emitted(i) = {}, Valid => \A j \in Right : ~Matches(i, j)
    PROVE  Permits(i)
<1>1. Request.matches[i] = {}
    BY DEF Request, MatchingLabels
<1> QED
    BY <1>1 DEF Permits, Join!Permitted

\* Every match, where the policy keeps all.
LEMMA AllIsPermitted ==
    ASSUME NEW i \in Left, Valid, call.keep = "all", Emitted(i) = MatchingLabels(i)
    PROVE  Permits(i)
<1>1. Request.matches[i] = Emitted(i)
    BY DEF Request
<1> QED
    BY <1>1 DEF Permits, Join!Permitted

\* The labels of what a search row has matched.
LEMMA MatchingIsNamed ==
    ASSUME call \in Calls, WellFormed, Ordered, Masked, NEW i \in Left
    PROVE  MatchingLabels(left_order[i]) = {Named(j) : j \in All(i)}
<1>1. All(i) = {j \in Right : Matches(left_order[i], j)}
    BY AllIsMatched
<1> QED
    BY <1>1 DEF MatchingLabels

\* The steps after which the call has returned.
LEMMA GivingUpIsPermitted ==
    ASSUME VisitInv, OutInv, NEW i \in Left,
           \/ Enter /\ pc' = "refused"
           \/ OpenSet /\ pc' = "refused"
           \/ ReturnNone
    PROVE  Permits(i)
<1>1. /\ pc \in {"enter", "open", "paths", "left", "starts", "right"}
      /\ Valid => \A j \in Right : ~Matches(i, j)
    <2>1. CASE Enter /\ pc' = "refused"
        BY <2>1 DEF Enter, Valid
    <2>2. CASE OpenSet /\ pc' = "refused"
        <3>1. PICK n \in DOMAIN call.requests : call.requests[n] # SourceLen
            BY <2>2 DEF OpenSet
        <3>2. pc = "open" /\ Aggregating
            BY <2>2 DEF OpenSet, VisitInv, PassInv
        <3> QED
            BY <3>1, <3>2 DEF Valid
    <2>3. CASE ReturnNone
        <3>1. \A j \in Right : ~Matches(i, j)
            BY <2>3, EmptyPathsHaveNoMatch DEF VisitInv
        <3> QED
            BY <2>3, <3>1 DEF ReturnNone
    <2> QED
        BY <2>1, <2>2, <2>3
<1>2. Emitted(i) = {}
    <2>1. \A k \in Left, j \in Right : ~Written(k, j)
        BY <1>1 DEF Written
    <2> QED
        BY <1>1, <2>1, NothingEmitted DEF Closed
<1> QED
    BY <1>1, <1>2, NothingIsPermitted

\* A first pass that has met no match ends the call.
LEMMA FirstPassIsPermitted ==
    ASSUME VisitInv, SelectInv, OutInv, NEW i \in Left,
           EndSelect \/ EndCount, pc' = "none"
    PROVE  Permits(i)
<1>1. /\ pc \in {"select", "count"} /\ candidates = {} /\ outer \notin OuterRows /\ Running
      /\ pc = "select" => \A k \in Left : selected[k] = None
      /\ pc = "count" => \A k \in Left : match_counts[k] = 0
    BY RunningPass DEF EndSelect, EndCount, Visited, VisitInv, Passes
<1>2. PICK k \in Left : left_order[k] = i
    BY <1>1, PermutationIsOnto DEF Running, Ordered
<1>3. Seen(k) = All(k) /\ All(k) \in SUBSET Right /\ IsFiniteSet(All(k))
    BY <1>1, EverythingSeen, SeenTypes
<1>4. All(k) = {}
    <2>1. CASE pc = "select"
        BY <1>1, <1>3, <2>1, NRegionAssumption DEF SelectInv, ChosenFrom
    <2>2. CASE pc = "count"
        <3>1. Cardinality(All(k)) = 0
            BY <1>1, <1>3, <2>2 DEF VisitInv, CountInv
        <3> QED
            BY <1>3, <3>1, FS_EmptySet
    <2> QED
        BY <1>1, <2>1, <2>2
<1>5. \A j \in Right : ~Matches(i, j)
    BY <1>1, <1>2, <1>4, AllIsMatched DEF Running
<1>6. Emitted(i) = {}
    <2>1. \A l \in Left, j \in Right : ~Written(l, j)
        BY <1>1 DEF Written
    <2> QED
        BY <1>1, <2>1, NothingEmitted DEF Closed
<1> QED
    BY <1>5, <1>6, NothingIsPermitted

\* The visit of the last pass has put out every match.
LEMMA LastPassIsPermitted ==
    ASSUME VisitInv, OutInv, ValidInv, NEW i \in Left, EndEmit \/ EndFeed
    PROVE  Permits(i)
<1>1. /\ pc \in {"emit", "feed"} /\ candidates = {} /\ outer \notin OuterRows /\ Running
      /\ pc = "emit" => ~Aggregating /\ call.keep = "all"
      /\ pc = "feed" => Aggregating /\ Valid
    BY RunningPass DEF EndEmit, EndFeed, Visited, VisitInv, PassInv, ValidInv, Passes
<1>2. Valid /\ call.keep = "all"
    BY <1>1, CallFields DEF Running, Valid
<1>3. PICK k \in Left : left_order[k] = i
    BY <1>1, PermutationIsOnto DEF Running, Ordered
<1>4. {j \in Right : Written(k, j)} = All(k)
    BY <1>1, EverythingSeen, SeenTypes DEF Written
<1>5. Emitted(i) = {Named(j) : j \in All(k)}
    BY <1>1, <1>3, <1>4, EmittedIs DEF Closed, Running, Ordered
<1>6. MatchingLabels(i) = {Named(j) : j \in All(k)}
    BY <1>1, <1>3, MatchingIsNamed DEF Running
<1> QED
    BY <1>2, <1>5, <1>6, AllIsPermitted

\* One match of each row that has any, chosen as the policy says.
LEMMA OutputIsPermitted ==
    ASSUME VisitInv, SelectInv, OutInv, NEW i \in Left, EndOutput
    PROVE  Permits(i)
<1>1. /\ pc = "output" /\ outer = LeftLen /\ call \in Calls /\ WellFormed /\ Ordered /\ Masked
      /\ ~Aggregating /\ call.keep # "all"
    BY DEF EndOutput, VisitInv, PathInv, PassInv, Passing
<1>2. /\ Valid /\ call.keep \in {"any", "first", "last"} /\ call.right_index \in [Right -> Int]
      /\ \A j : Named(j) = call.right_index[j]
    BY <1>1, CallFields DEF Valid, Keeps, Named
<1>3. PICK k \in Left : left_order[k] = i
    BY <1>1, PermutationIsOnto DEF Ordered
<1>4. ChosenFrom(k, All(k)) /\ All(k) \in SUBSET Right /\ selected[k] \in Right \union {None}
    BY <1>1, SeenTypes DEF SelectInv
<1>5. \A j : Written(k, j) <=> selected[k] # None /\ j = selected[k]
    <2>1. k < outer
        BY <1>1, LengthsAssumption DEF Left
    <2> QED
        BY <1>1, <2>1 DEF Written
<1>6. Emitted(i) = {Named(j) : j \in {m \in Right : Written(k, m)}}
    BY <1>1, <1>3, EmittedIs DEF Closed, Ordered
<1>7. MatchingLabels(i) = {Named(j) : j \in All(k)}
    BY <1>1, <1>3, MatchingIsNamed
<1>8. CASE All(k) = {}
    <2>1. selected[k] = None
        BY <1>4, <1>8 DEF ChosenFrom
    <2>2. Emitted(i) = {}
        BY <1>5, <1>6, <2>1
    <2>3. \A j \in Right : ~Matches(i, j)
        BY <1>1, <1>3, <1>8, AllIsMatched
    <2> QED
        BY <2>2, <2>3, NothingIsPermitted
<1>9. CASE All(k) # {}
    <2>1. /\ selected[k] \in All(k) /\ selected[k] \in Right /\ selected[k] # None
          /\ call.keep = "first" =>
                \A j \in All(k) : call.right_index[selected[k]] <= call.right_index[j]
          /\ call.keep = "last" =>
                \A j \in All(k) : call.right_index[selected[k]] >= call.right_index[j]
        BY <1>4, <1>9, NRegionAssumption DEF ChosenFrom
    <2>2. Emitted(i) = {Named(selected[k])}
        BY <1>5, <1>6, <2>1
    <2>3. /\ Named(selected[k]) \in MatchingLabels(i)
          /\ call.keep = "first" => \A m \in MatchingLabels(i) : Named(selected[k]) <= m
          /\ call.keep = "last" => \A m \in MatchingLabels(i) : Named(selected[k]) >= m
        BY <1>2, <1>7, <2>1
    <2>4. Request.matches[i] = MatchingLabels(i)
        BY <1>2 DEF Request
    <2> QED
        BY <1>2, <2>2, <2>3, <2>4 DEF Permits, Join!Permitted
<1> QED
    BY <1>8, <1>9

RefineInv == VisitInv /\ SelectInv /\ OutInv /\ ValidInv

LEMMA RefineInit == Init => RefineInv
<1> QED
    BY VisitInit, SelectInit, OutInit, ValidInit DEF RefineInv

LEMMA RefineStep == RefineInv /\ [Next]_vars => RefineInv'
<1> QED
    BY VisitStep, SelectNext, OutNext, ValidNext DEF RefineInv

\* Only a step that ends the call answers, and it answers every row.
LEMMA EndIsPermitted ==
    ASSUME RefineInv, Next, pc' \in {"none", "done", "refused"}, NEW i \in Left
    PROVE  pc \notin Closed /\ call' = call /\ UNCHANGED outVars /\ Permits(i)
<1> USE DEF RefineInv
<1>1. CASE EntryNext
    BY <1>1, GivingUpIsPermitted DEF EntryNext, Enter, OpenSet, Closed
<1>2. CASE PathsNext
    <2>1. ReturnNone
        BY <1>2 DEF PathsNext, BuildPaths, OrderLeft, FindStarts, MaskRight
    <2> QED
        BY <2>1, GivingUpIsPermitted DEF ReturnNone, Closed
<1>3. CASE PlanNext \/ VisitNext
    <2>1. FALSE
        BY <1>3, VisitKeeps DEF PlanNext, Probe, PlanRow, PlanSweep, PlanTree, Open, FirstPass, Passes
    <2> QED
        BY <2>1
<1>4. CASE EndNext
    <2>1. EndSelect \/ EndCount \/ EndOutput \/ EndEmit \/ EndFeed
        BY <1>4 DEF EndNext, OutputRow
    <2>2. pc \notin Closed /\ call' = call /\ UNCHANGED outVars
        BY <2>1 DEF EndSelect, EndCount, EndOutput, EndEmit, EndFeed, Visited, Closed
    <2>3. EndSelect \/ EndCount => pc' = "none"
        BY DEF EndSelect, EndCount
    <2> QED
        BY <2>1, <2>2, <2>3, FirstPassIsPermitted, LastPassIsPermitted, OutputIsPermitted
<1> QED
    BY <1>1, <1>2, <1>3, <1>4 DEF Next

LEMMA RefinesInit == Init => Join!Init
<1> SUFFICES ASSUME Init PROVE Join!Init
    OBVIOUS
<1>1. call \in Calls /\ pc = "enter"
    BY DEF Init
<1>2. \A j \in Right : Named(j) \in Int
    <2>1. call.right_index \in [Right -> Int]
        BY <1>1, CallFields
    <2>2. Right \in SUBSET Int
        BY DEF Right
    <2> QED
        BY <2>1, <2>2 DEF Named
<1>3. \A i \in Left : MatchingLabels(i) \in SUBSET Int
    BY <1>2 DEF MatchingLabels
<1>4. Request \in Requests
    BY <1>1, <1>3, CallFields DEF Request, Requests
<1>5. Answer = [i \in Left |-> None]
    BY <1>1 DEF Answer
<1> QED
    BY <1>4, <1>5 DEF Join!Init

LEMMA RefinesNext ==
    ASSUME RefineInv, [Next]_vars
    PROVE  [Join!Next]_(Join!vars)
<1>1. CASE UNCHANGED vars
    BY <1>1 DEF Join!vars, Request, Answer, Emitted, EachOnce, Places, PairAt, Valid, WellFormed,
        Aggregating, SourceLen, MatchingLabels, Matches, InWindow, Aligned, Named, Axes
<1>2. CASE Next
    <2>1. call' = call
        BY <1>2, VisitKeeps DEF Next, EntryNext, Enter, OpenSet, PathsNext, BuildPaths, OrderLeft,
            FindStarts, MaskRight, ReturnNone, PlanNext, Probe, PlanRow, PlanSweep, PlanTree,
            EndNext, EndSelect, OutputRow, EndOutput, EndCount, EndEmit, EndFeed
    <2>2. Request' = Request
        BY <2>1 DEF Request, Valid, WellFormed, Aggregating, SourceLen, MatchingLabels, Matches,
            InWindow, Aligned, Named, Axes
    <2>3. ASSUME NEW i \in Left PROVE Answer'[i] = Answer[i] \/ Join!AnswerRow(i)
        <3>1. CASE pc' \notin {"none", "done", "refused"}
            <4>1. pc \notin {"none", "done", "refused"}
                BY <1>2, VisitKeeps DEF Next, EntryNext, Enter, OpenSet, PathsNext, BuildPaths,
                    OrderLeft, FindStarts, MaskRight, ReturnNone, PlanNext, Probe, PlanRow,
                    PlanSweep, PlanTree, EndNext, EndSelect, OutputRow, EndOutput, EndCount,
                    EndEmit, EndFeed, Visited, Passes
            <4> QED
                BY <3>1, <4>1 DEF Answer
        <3>2. CASE pc' \in {"none", "done", "refused"}
            <4>1. pc \notin Closed /\ UNCHANGED outVars /\ Permits(i)
                BY <1>2, <3>2, EndIsPermitted
            <4>2. Answer[i] = None
                BY <4>1 DEF Answer, Closed
            <4>3. Answer'[i] = None \/ Answer'[i] = Emitted(i)
                BY <2>1, <3>2, <4>1, EmittedStays DEF Answer
            <4>4. Emitted(i) \in Join!Permitted(Request.keep, Request.matches[i])
                BY <4>1 DEF Permits, Request
            <4> QED
                BY <4>2, <4>3, <4>4 DEF Join!AnswerRow
        <3> QED
            BY <3>1, <3>2
    <2> QED
        BY <2>2, <2>3 DEF Join!Next
<1> QED
    BY <1>1, <1>2

\* The join implements RangeJoin, whichever generator runs and in whatever order
\* it hands over the candidates of a row: a row is answered once, with labels
\* that its policy allows; an aggregation is given exactly the matching pairs.
THEOREM AnswersAsRangeJoinTheorem == Spec => Join!Safety
<1>1. Init => RefineInv /\ Join!Init
    BY RefineInit, RefinesInit
<1>2. RefineInv /\ [Next]_vars => RefineInv' /\ [Join!Next]_(Join!vars)
    BY RefineStep, RefinesNext
<1> QED
    BY <1>1, <1>2, PTL DEF Spec, Join!Safety

\* No pair is put out twice, of right rows that have different labels: every pass
\* of regions.rs that puts pairs out is handed each of them once.
THEOREM NoPairTwiceTheorem == Spec => []NoPairTwice
<1>1. RefineInv => NoPairTwice
    BY DEF RefineInv, OutInv
<1> QED
    BY <1>1, RefineInit, RefineStep, PTL DEF Spec
=============================================================================
